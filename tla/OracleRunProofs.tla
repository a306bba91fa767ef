--------------------------- MODULE OracleRunProofs ---------------------------
(***************************************************************************)
(* TLAPS proofs about the oracle experiments, for all five programs, every *)
(* order of their conditions and every number of failures and deaths.      *)
(*                                                                         *)
(* The programs differ in the order of their calls.  InOrder says what of  *)
(* that order matters, and holds of all of them; the invariant says what   *)
(* state a child is in from which calls have been made for it.             *)
(***************************************************************************)
EXTENDS OracleRun, SequenceTheorems, TLAPS

-----------------------------------------------------------------------------
(* The order of the calls.                                                 *)

Ops == {"limit", "spawn", "stopped", "move", "cont", "wait", "read", "build"}

\* Call op for worker r is among the first k - 1 of script s.
Has(s, k, op, r) == \E j \in 1..(k - 1) : s[j] = Step(op, r)

\* The workers of a condition.
Used(p, c) == {"victim"} \cup (IF c = "none" THEN {} ELSE Range(Candidates(p)))

\* What has been called before the k-th call.
Ready(p, s, U, k) ==
    LET op == s[k].op
        r == s[k].who
    IN  /\ op \in {"limit", "move"} => UsesCgroups(p) /\ r # "victim"
        /\ op = "build" => p = "sweep" /\ k = 1
        /\ op = "spawn" /\ p = "sweep" /\ r # "victim" => Has(s, k, "build", r)
        /\ op = "stopped" => Has(s, k, "spawn", r)
        /\ op = "move" => Has(s, k, "stopped", r)
        /\ op = "cont" =>
             /\ Has(s, k, "stopped", r)
             /\ UsesCgroups(p) /\ r # "victim" => Has(s, k, "limit", r) /\ Has(s, k, "move", r)
             /\ r = "victim" => \A a \in U \ {"victim"} : Has(s, k, "cont", a)
        /\ op = "wait" => Has(s, k, "cont", r) /\ (r # "victim" => Has(s, k, "wait", "victim"))
        /\ op = "read" => Has(s, k, "wait", r)

\* No call is made twice for a worker or before those it builds on, and in
\* the end every result has been read.
InOrder(p, s, U) ==
    /\ Len(s) \in Nat \ {0}
    /\ \A k \in 1..Len(s) : s[k] \in [op : Ops, who : U]
    /\ \A j, k \in 1..Len(s) : s[j] = s[k] => j = k
    /\ \A k \in 1..Len(s) : Ready(p, s, U, k)
    /\ \A r \in U : Has(s, Len(s) + 1, "read", r)

\* A script laid out for workers w: call op is made for worker w[i], i in
\* D[op], at position pos[op][i].
Laid(s, w, D, pos) ==
    /\ \A k \in 1..Len(s) : \E op \in Ops : \E i \in D[op] : k = pos[op][i] /\ s[k] = Step(op, w[i])
    /\ \A op \in Ops : \A i \in D[op] : pos[op][i] \in 1..Len(s) /\ s[pos[op][i]] = Step(op, w[i])

\* Call op2 for worker l comes before call op for worker i.
Prior(D, pos, op, i, op2, l) == l \in D[op2] /\ pos[op2][l] < pos[op][i]

\* The order of the positions.
Ordered(p, m, D, pos) ==
    /\ \A i \in D["limit"] \cup D["move"] : UsesCgroups(p) /\ i # 1
    /\ \A i \in D["build"] : p = "sweep" /\ pos["build"][i] = 1
    /\ \A i \in D["spawn"] : p = "sweep" /\ i # 1 => Prior(D, pos, "spawn", i, "build", i)
    /\ \A i \in D["stopped"] : Prior(D, pos, "stopped", i, "spawn", i)
    /\ \A i \in D["move"] : Prior(D, pos, "move", i, "stopped", i)
    /\ \A i \in D["cont"] :
         /\ Prior(D, pos, "cont", i, "stopped", i)
         /\ UsesCgroups(p) /\ i # 1 =>
              Prior(D, pos, "cont", i, "limit", i) /\ Prior(D, pos, "cont", i, "move", i)
         /\ i = 1 => \A l \in 2..m : Prior(D, pos, "cont", i, "cont", l)
    /\ \A i \in D["wait"] :
         Prior(D, pos, "wait", i, "cont", i) /\ (i # 1 => Prior(D, pos, "wait", i, "wait", 1))
    /\ \A i \in D["read"] : Prior(D, pos, "read", i, "wait", i)
    /\ \A i \in 1..m : i \in D["read"]

\* The workers of a condition, the victim first.
Lists(w, m, U) ==
    /\ m \in Nat \ {0} /\ w \in [1..m -> U] /\ w[1] = "victim"
    /\ \A r \in U : \E i \in 1..m : w[i] = r
    /\ \A i, l \in 1..m : w[i] = w[l] => i = l

\* Scripts whose calls are at such positions are in order.
LEMMA LaidInOrder ==
  ASSUME NEW p, NEW s, NEW U, NEW w, NEW m, NEW D \in [Ops -> SUBSET (1..m)], NEW pos,
         Lists(w, m, U), Laid(s, w, D, pos), Ordered(p, m, D, pos), Len(s) \in Nat
  PROVE  InOrder(p, s, U)
<1>1. /\ m \in Nat \ {0} /\ w \in [1..m -> U] /\ w[1] = "victim"
      /\ \A r \in U : \E i \in 1..m : w[i] = r
      /\ \A i, l \in 1..m : w[i] = w[l] => i = l
  BY DEF Lists
<1>2. \A op \in Ops : D[op] \subseteq 1..m
  OBVIOUS
<1>3. \A op \in Ops : \A i \in D[op] : pos[op][i] \in 1..Len(s) /\ s[pos[op][i]] = Step(op, w[i])
  BY DEF Laid
<1>4. \A k \in 1..Len(s) : \E op \in Ops : \E i \in D[op] : k = pos[op][i] /\ s[k] = Step(op, w[i])
  BY DEF Laid
<1>5. \A op, op2 : \A r, r2 : Step(op, r) = Step(op2, r2) => op = op2 /\ r = r2
  BY DEF Step
<1>6. \A op, r : Step(op, r).op = op /\ Step(op, r).who = r
  BY DEF Step
<1>7. Len(s) \in Nat \ {0}
  <2>1. 1 \in D["read"] /\ "read" \in Ops
    BY <1>1 DEF Ordered, Ops
  <2> QED BY <1>3, <2>1
<1>8. \A k \in 1..Len(s) : s[k] \in [op : Ops, who : U]
  <2> TAKE k \in 1..Len(s)
  <2>1. PICK op \in Ops : \E i \in D[op] : s[k] = Step(op, w[i])
    BY <1>4
  <2>2. PICK i \in D[op] : s[k] = Step(op, w[i])
    BY <2>1
  <2>3. w[i] \in U
    BY <1>1, <1>2, <2>2
  <2> QED BY <2>2, <2>3 DEF Step
<1>9. ASSUME NEW j \in 1..Len(s), NEW k \in 1..Len(s), s[j] = s[k]
      PROVE  j = k
  <2>1. PICK op \in Ops : \E i \in D[op] : k = pos[op][i] /\ s[k] = Step(op, w[i])
    BY <1>4
  <2>2. PICK i \in D[op] : k = pos[op][i] /\ s[k] = Step(op, w[i])
    BY <2>1
  <2>3. PICK op2 \in Ops : \E l \in D[op2] : j = pos[op2][l] /\ s[j] = Step(op2, w[l])
    BY <1>4
  <2>4. PICK l \in D[op2] : j = pos[op2][l] /\ s[j] = Step(op2, w[l])
    BY <2>3
  <2>5. op = op2 /\ w[i] = w[l]
    BY <1>5, <1>9, <2>2, <2>4
  <2>6. i = l
    BY <1>1, <1>2, <2>2, <2>4, <2>5
  <2> QED BY <2>2, <2>4, <2>5, <2>6
<1>10. ASSUME NEW op \in Ops, NEW i \in D[op], NEW op2 \in Ops, NEW l, Prior(D, pos, op, i, op2, l)
       PROVE  Has(s, pos[op][i], op2, w[l])
  <2>1. l \in D[op2] /\ pos[op2][l] < pos[op][i]
    BY <1>10 DEF Prior
  <2>2. pos[op2][l] \in 1..Len(s) /\ s[pos[op2][l]] = Step(op2, w[l]) /\ pos[op][i] \in 1..Len(s)
    BY <1>3, <2>1
  <2>3. pos[op2][l] \in 1..(pos[op][i] - 1)
    BY <1>7, <2>1, <2>2
  <2> QED BY <2>2, <2>3 DEF Has
<1>11. ASSUME NEW k \in 1..Len(s)
       PROVE  Ready(p, s, U, k)
  <2>1. PICK op \in Ops : \E i \in D[op] : k = pos[op][i] /\ s[k] = Step(op, w[i])
    BY <1>4
  <2>2. PICK i \in D[op] : k = pos[op][i] /\ s[k] = Step(op, w[i])
    BY <2>1
  <2>3. s[k].op = op /\ s[k].who = w[i] /\ i \in 1..m
    BY <1>2, <1>6, <2>2
  <2>4. w[i] = "victim" <=> i = 1
    BY <1>1, <2>3
  <2>5. {"limit", "spawn", "stopped", "move", "cont", "wait", "read", "build"} \subseteq Ops
    BY DEF Ops
  <2>6. ASSUME NEW op2 \in Ops, NEW l, Prior(D, pos, op, i, op2, l)
        PROVE  Has(s, k, op2, w[l])
    BY <1>10, <2>2, <2>6
  <2>7. op \in {"limit", "move"} => UsesCgroups(p) /\ w[i] # "victim"
    BY <2>2, <2>4 DEF Ordered
  <2>8. op = "build" => p = "sweep" /\ k = 1
    BY <2>2 DEF Ordered
  <2>9. op = "spawn" /\ p = "sweep" /\ w[i] # "victim" => Has(s, k, "build", w[i])
    BY <2>2, <2>4, <2>5, <2>6 DEF Ordered
  <2>10. op = "stopped" => Has(s, k, "spawn", w[i])
    BY <2>2, <2>5, <2>6 DEF Ordered
  <2>11. op = "move" => Has(s, k, "stopped", w[i])
    BY <2>2, <2>5, <2>6 DEF Ordered
  <2>12. op = "cont" =>
           /\ Has(s, k, "stopped", w[i])
           /\ UsesCgroups(p) /\ w[i] # "victim" => Has(s, k, "limit", w[i]) /\ Has(s, k, "move", w[i])
    BY <2>2, <2>4, <2>5, <2>6 DEF Ordered
  <2>13. op = "cont" /\ w[i] = "victim" => \A a \in U \ {"victim"} : Has(s, k, "cont", a)
    <3> HAVE op = "cont" /\ w[i] = "victim"
    <3> TAKE a \in U \ {"victim"}
    <3>1. PICK l \in 1..m : w[l] = a
      BY <1>1
    <3>2. l \in 2..m
      BY <1>1, <3>1
    <3>3. Prior(D, pos, op, i, "cont", l)
      BY <2>2, <2>4, <3>2 DEF Ordered
    <3> QED BY <2>5, <2>6, <3>1, <3>3
  <2>14. op = "wait" => Has(s, k, "cont", w[i]) /\ (w[i] # "victim" => Has(s, k, "wait", "victim"))
    <3> HAVE op = "wait"
    <3>1. Prior(D, pos, op, i, "cont", i) /\ (i # 1 => Prior(D, pos, op, i, "wait", 1))
      BY <2>2 DEF Ordered
    <3> QED BY <1>1, <2>4, <2>5, <2>6, <3>1
  <2>15. op = "read" => Has(s, k, "wait", w[i])
    BY <2>2, <2>5, <2>6 DEF Ordered
  <2> QED BY <2>3, <2>7, <2>8, <2>9, <2>10, <2>11, <2>12, <2>13, <2>14, <2>15 DEF Ready
<1>12. ASSUME NEW r \in U
       PROVE  Has(s, Len(s) + 1, "read", r)
  <2>1. PICK i \in 1..m : w[i] = r
    BY <1>1
  <2>2. i \in D["read"] /\ "read" \in Ops
    BY DEF Ordered, Ops
  <2>3. pos["read"][i] \in 1..((Len(s) + 1) - 1) /\ s[pos["read"][i]] = Step("read", r)
    BY <1>3, <1>7, <2>1, <2>2
  <2> QED BY <2>3 DEF Has
<1> QED BY <1>7, <1>8, <1>9, <1>11, <1>12 DEF InOrder

\* The same for a part t of a script, made of calls ops, that off calls
\* come before.
LaidAt(t, off, w, D, pos, ops) ==
    /\ \A k \in 1..Len(t) : \E op \in ops : \E i \in D[op] : off + k = pos[op][i] /\ t[k] = Step(op, w[i])
    /\ \A op \in ops : \A i \in D[op] :
         \E k \in 1..Len(t) : off + k = pos[op][i] /\ t[k] = Step(op, w[i])

\* A function on 1..N is a sequence.
LEMMA FunctionIsSeq ==
  ASSUME NEW X, NEW N \in Nat, NEW b, b = [j \in 1..N |-> b[j]], \A j \in 1..N : b[j] \in X
  PROVE  b \in Seq(X) /\ Len(b) = N
<1>1. b \in [1..N -> X]
  OBVIOUS
<1> QED BY <1>1

\* The elements of a concatenation.
LEMMA ConcatParts ==
  ASSUME NEW X, NEW a \in Seq(X), NEW b \in Seq(X)
  PROVE  /\ a \o b \in Seq(X) /\ Len(a \o b) = Len(a) + Len(b)
         /\ \A k \in 1..Len(a) : (a \o b)[k] = a[k]
         /\ \A k \in 1..Len(b) : (a \o b)[Len(a) + k] = b[k]
OBVIOUS

\* Two parts one after the other.
LEMMA LaidConcat ==
  ASSUME NEW S, NEW a \in Seq(S), NEW b \in Seq(S), NEW off \in Nat, NEW w, NEW D, NEW pos, NEW A, NEW B,
         LaidAt(a, off, w, D, pos, A), LaidAt(b, off + Len(a), w, D, pos, B)
  PROVE  a \o b \in Seq(S) /\ Len(a \o b) = Len(a) + Len(b) /\ LaidAt(a \o b, off, w, D, pos, A \cup B)
<1>1. /\ a \o b \in Seq(S) /\ Len(a \o b) = Len(a) + Len(b) /\ Len(a) \in Nat /\ Len(b) \in Nat
      /\ \A k \in 1..Len(a) : (a \o b)[k] = a[k] /\ k \in 1..Len(a \o b)
      /\ \A k \in 1..Len(b) : (a \o b)[Len(a) + k] = b[k] /\ Len(a) + k \in 1..Len(a \o b)
  OBVIOUS
<1> DEFINE s == a \o b
<1> HIDE DEF s
<1>2. /\ s \in Seq(S) /\ Len(s) = Len(a) + Len(b)
      /\ \A k \in 1..Len(a) : s[k] = a[k] /\ k \in 1..Len(s)
      /\ \A k \in 1..Len(b) : s[Len(a) + k] = b[k] /\ Len(a) + k \in 1..Len(s)
  BY <1>1 DEF s
<1>3. ASSUME NEW k \in 1..Len(s)
      PROVE  \E op \in A \cup B : \E i \in D[op] : off + k = pos[op][i] /\ s[k] = Step(op, w[i])
  <2>1. CASE k <= Len(a)
    <3>1. k \in 1..Len(a)
      BY <1>1, <2>1
    <3>2. PICK op \in A : \E i \in D[op] : off + k = pos[op][i] /\ a[k] = Step(op, w[i])
      BY <3>1 DEF LaidAt
    <3> QED BY <1>2, <3>1, <3>2
  <2>2. CASE k > Len(a)
    <3>1. PICK l \in 1..Len(b) : k = Len(a) + l
      <4>1. k - Len(a) \in 1..Len(b) /\ k = Len(a) + (k - Len(a))
        BY <1>1, <1>2, <2>2
      <4> QED BY <4>1
    <3>2. PICK op \in B : \E i \in D[op] : (off + Len(a)) + l = pos[op][i] /\ b[l] = Step(op, w[i])
      BY <3>1 DEF LaidAt
    <3>3. (off + Len(a)) + l = off + k
      BY <1>1, <3>1
    <3> QED BY <1>2, <3>1, <3>2, <3>3
  <2> QED BY <1>1, <1>2, <2>1, <2>2
<1>4. ASSUME NEW op \in A \cup B, NEW i \in D[op]
      PROVE  \E k \in 1..Len(s) : off + k = pos[op][i] /\ s[k] = Step(op, w[i])
  <2>1. CASE op \in A
    <3>1. PICK k \in 1..Len(a) : off + k = pos[op][i] /\ a[k] = Step(op, w[i])
      BY <2>1 DEF LaidAt
    <3> QED BY <1>2, <3>1
  <2>2. CASE op \in B
    <3>1. PICK l \in 1..Len(b) : (off + Len(a)) + l = pos[op][i] /\ b[l] = Step(op, w[i])
      BY <2>2 DEF LaidAt
    <3>2. off + (Len(a) + l) = pos[op][i]
      BY <1>1, <3>1
    <3> QED BY <1>2, <3>1, <3>2
  <2> QED BY <2>1, <2>2
<1>5. LaidAt(s, off, w, D, pos, A \cup B)
  BY <1>3, <1>4 DEF LaidAt
<1> QED BY <1>2, <1>5 DEF s

\* A loop that makes one call for each worker.
LEMMA LaidForEach ==
  ASSUME NEW U, NEW v \in Seq(U), NEW op \in Ops, NEW off \in Nat, NEW w, NEW D, NEW pos,
         \A k \in 1..Len(v) : \E i \in D[op] : off + k = pos[op][i] /\ v[k] = w[i],
         \A i \in D[op] : \E k \in 1..Len(v) : off + k = pos[op][i] /\ v[k] = w[i]
  PROVE  /\ ForEach(op, v) \in Seq([op : Ops, who : U]) /\ Len(ForEach(op, v)) = Len(v)
         /\ LaidAt(ForEach(op, v), off, w, D, pos, {op})
<1> DEFINE t == ForEach(op, v)
<1>1. \A k \in 1..Len(v) : Step(op, v[k]) \in [op : Ops, who : U]
  BY DEF Step
<1>2. t = [k \in 1..Len(v) |-> Step(op, v[k])]
  BY DEF ForEach
<1> HIDE DEF t
<1>3. t \in Seq([op : Ops, who : U]) /\ Len(t) = Len(v) /\ \A k \in 1..Len(v) : t[k] = Step(op, v[k])
  BY <1>1, <1>2
<1>4. ASSUME NEW k \in 1..Len(t)
      PROVE  \E i \in D[op] : off + k = pos[op][i] /\ t[k] = Step(op, w[i])
  <2>1. k \in 1..Len(v) /\ t[k] = Step(op, v[k])
    BY <1>3
  <2> QED BY <2>1
<1>5. ASSUME NEW i \in D[op]
      PROVE  \E k \in 1..Len(t) : off + k = pos[op][i] /\ t[k] = Step(op, w[i])
  <2>1. PICK k \in 1..Len(v) : off + k = pos[op][i] /\ v[k] = w[i]
    OBVIOUS
  <2> QED BY <1>3, <2>1
<1>6. LaidAt(t, off, w, D, pos, {op})
  <2>1. ASSUME NEW k \in 1..Len(t)
        PROVE  \E x \in {op} : \E i \in D[x] : off + k = pos[x][i] /\ t[k] = Step(x, w[i])
    BY <1>4
  <2>2. ASSUME NEW x \in {op}, NEW i \in D[x]
        PROVE  \E k \in 1..Len(t) : off + k = pos[x][i] /\ t[k] = Step(x, w[i])
    <3>1. x = op
      OBVIOUS
    <3> QED BY <1>5, <3>1, Zenon
  <2> QED BY <2>1, <2>2, Zenon DEF LaidAt
<1> QED BY <1>3, <1>6 DEF t

\* A loop that makes two calls for each worker.
PairAt(v, off, w, D, pos, a, b) ==
    /\ \A k \in 1..Len(v) : \E i \in D[a] : off + 2 * k - 1 = pos[a][i] /\ v[k] = w[i]
    /\ \A k \in 1..Len(v) : \E i \in D[b] : off + 2 * k = pos[b][i] /\ v[k] = w[i]
    /\ \A i \in D[a] : \E k \in 1..Len(v) : off + 2 * k - 1 = pos[a][i] /\ v[k] = w[i]
    /\ \A i \in D[b] : \E k \in 1..Len(v) : off + 2 * k = pos[b][i] /\ v[k] = w[i]

\* A loop that makes two calls for each worker.
LEMMA LaidForEach2 ==
  ASSUME NEW U, NEW v \in Seq(U), NEW a \in Ops, NEW b \in Ops, NEW off \in Nat, NEW w, NEW D, NEW pos,
         PairAt(v, off, w, D, pos, a, b)
  PROVE  /\ ForEachAll(<<a, b>>, v) \in Seq([op : Ops, who : U])
         /\ Len(ForEachAll(<<a, b>>, v)) = 2 * Len(v)
         /\ LaidAt(ForEachAll(<<a, b>>, v), off, w, D, pos, {a, b})
<1> DEFINE t == ForEachAll(<<a, b>>, v)
           n == Len(v)
           o == <<a, b>>
<1>1. n \in Nat /\ Len(o) = 2 /\ o[1] = a /\ o[2] = b
  OBVIOUS
<1>2. t = [i \in 1..2 * n |-> Step(o[((i - 1) % 2) + 1], v[((i - 1) \div 2) + 1])]
  BY <1>1 DEF ForEachAll
<1> HIDE DEF t, n, o
<1>3. \A k \in 1..n : /\ 2 * k - 1 \in 1..2 * n /\ ((2 * k - 1) - 1) % 2 = 0 /\ ((2 * k - 1) - 1) \div 2 = k - 1
                      /\ 2 * k \in 1..2 * n /\ (2 * k - 1) % 2 = 1 /\ (2 * k - 1) \div 2 = k - 1
  BY <1>1
<1>4. \A j \in 1..2 * n : \E k \in 1..n : j = 2 * k - 1 \/ j = 2 * k
  <2> TAKE j \in 1..2 * n
  <2>1. CASE j % 2 = 0
    <3>1. j \div 2 \in 1..n /\ j = 2 * (j \div 2)
      BY <1>1, <2>1
    <3> QED BY <3>1
  <2>2. CASE j % 2 = 1
    <3>1. (j + 1) \div 2 \in 1..n /\ j = 2 * ((j + 1) \div 2) - 1
      BY <1>1, <2>2
    <3> QED BY <3>1
  <2>3. j % 2 \in {0, 1}
    BY <1>1
  <2> QED BY <2>1, <2>2, <2>3
<1>5. \A k \in 1..n : t[2 * k - 1] = Step(a, v[k]) /\ t[2 * k] = Step(b, v[k])
  <2> TAKE k \in 1..n
  <2>1. t[2 * k - 1] = Step(o[0 + 1], v[(k - 1) + 1]) /\ t[2 * k] = Step(o[1 + 1], v[(k - 1) + 1])
    BY <1>2, <1>3
  <2>2. 0 + 1 = 1 /\ 1 + 1 = 2 /\ (k - 1) + 1 = k
    BY <1>1
  <2> QED BY <1>1, <2>1, <2>2
<1>6. t \in Seq([op : Ops, who : U]) /\ Len(t) = 2 * n
  <2>1. \A k \in 1..n : v[k] \in U
    BY DEF n
  <2>2. \A j \in 1..2 * n : t[j] \in [op : Ops, who : U]
    <3> TAKE j \in 1..2 * n
    <3>1. PICK k \in 1..n : j = 2 * k - 1 \/ j = 2 * k
      BY <1>4
    <3>2. Step(a, v[k]) \in [op : Ops, who : U] /\ Step(b, v[k]) \in [op : Ops, who : U]
      BY <2>1, <3>1 DEF Step
    <3>3. t[j] = Step(a, v[k]) \/ t[j] = Step(b, v[k])
      BY <1>5, <3>1
    <3> QED BY <3>2, <3>3
  <2> DEFINE N == 2 * n
             X == [op : Ops, who : U]
  <2>3. N \in Nat /\ t = [j \in 1..N |-> t[j]] /\ \A j \in 1..N : t[j] \in X
    BY <1>1, <1>2, <2>2
  <2> HIDE DEF N, X
  <2>4. t \in Seq(X) /\ Len(t) = N
    BY <2>3, FunctionIsSeq
  <2> QED BY <2>4 DEF N, X
<1>7. LaidAt(t, off, w, D, pos, {a, b})
  <2>1. ASSUME NEW j \in 1..Len(t)
        PROVE  \E op \in {a, b} : \E i \in D[op] : off + j = pos[op][i] /\ t[j] = Step(op, w[i])
    <3>1. PICK k \in 1..n : j = 2 * k - 1 \/ j = 2 * k
      BY <1>4, <1>6
    <3>2. CASE j = 2 * k - 1
      <4>1. PICK i \in D[a] : off + 2 * k - 1 = pos[a][i] /\ v[k] = w[i]
        BY DEF n, PairAt
      <4>2. off + j = off + 2 * k - 1
        BY <1>1, <3>2
      <4> QED BY <1>5, <3>2, <4>1, <4>2
    <3>3. CASE j = 2 * k
      <4>1. PICK i \in D[b] : off + 2 * k = pos[b][i] /\ v[k] = w[i]
        BY DEF n, PairAt
      <4> QED BY <1>5, <3>3, <4>1
    <3> QED BY <3>1, <3>2, <3>3
  <2>2. ASSUME NEW i \in D[a]
        PROVE  \E j \in 1..Len(t) : off + j = pos[a][i] /\ t[j] = Step(a, w[i])
    <3>1. PICK k \in 1..n : off + 2 * k - 1 = pos[a][i] /\ v[k] = w[i]
      BY DEF n, PairAt
    <3>2. 2 * k - 1 \in 1..Len(t) /\ off + (2 * k - 1) = pos[a][i]
      BY <1>1, <1>3, <1>6, <3>1
    <3> QED BY <1>5, <3>1, <3>2
  <2>3. ASSUME NEW i \in D[b]
        PROVE  \E j \in 1..Len(t) : off + j = pos[b][i] /\ t[j] = Step(b, w[i])
    <3>1. PICK k \in 1..n : off + 2 * k = pos[b][i] /\ v[k] = w[i]
      BY DEF n, PairAt
    <3>2. 2 * k \in 1..Len(t)
      BY <1>3, <1>6
    <3> QED BY <1>5, <3>1, <3>2
  <2>4. \A op \in {a, b} : \A i \in D[op] :
          \E j \in 1..Len(t) : off + j = pos[op][i] /\ t[j] = Step(op, w[i])
    <3> TAKE op \in {a, b}
    <3>1. CASE op = a
      BY <2>2, <3>1, Zenon
    <3>2. CASE op = b
      BY <2>3, <3>2, Zenon
    <3> QED BY <3>1, <3>2
  <2> QED BY <2>1, <2>4, Zenon DEF LaidAt
<1> QED BY <1>6, <1>7 DEF t, n, o

\* The positions in the loop of the programs that start, await and place one
\* candidate after the other, after the victim.
StagedAt(n, off, D, pos) ==
    /\ D["spawn"] = 1..n + 1 /\ D["stopped"] = 1..n + 1 /\ D["move"] = 2..n + 1
    /\ pos["spawn"][1] = off + 1 /\ pos["stopped"][1] = off + 2
    /\ \A i \in 2..n + 1 : /\ pos["spawn"][i] = off + 3 * i - 3
                            /\ pos["stopped"][i] = off + 3 * i - 2
                            /\ pos["move"][i] = off + 3 * i - 1

\* The list w is the victim and the workers bg.
Behind(w, bg) == w[1] = "victim" /\ \A k \in 1..Len(bg) : w[k + 1] = bg[k]

\* The victim is started and stopped, then each candidate is started,
\* stopped and moved.
LEMMA LaidStaged ==
  ASSUME NEW U, "victim" \in U, NEW bg \in Seq(U), NEW off \in Nat, NEW w, NEW D, NEW pos,
         Behind(w, bg), StagedAt(Len(bg), off, D, pos)
  PROVE  LET t == ForEachAll(<<"spawn", "stopped">>, <<"victim">>)
                    \o ForEachAll(<<"spawn", "stopped", "move">>, bg)
         IN  /\ t \in Seq([op : Ops, who : U]) /\ Len(t) = 3 * Len(bg) + 2
             /\ LaidAt(t, off, w, D, pos, {"spawn", "stopped", "move"})
<1> DEFINE n == Len(bg)
           N == 3 * n
           X == [op : Ops, who : U]
           a == ForEachAll(<<"spawn", "stopped">>, <<"victim">>)
           b == ForEachAll(<<"spawn", "stopped", "move">>, bg)
           o == <<"spawn", "stopped", "move">>
           t == a \o b
<1>0. /\ w[1] = "victim" /\ \A k \in 1..n : w[k + 1] = bg[k]
      /\ D["spawn"] = 1..n + 1 /\ D["stopped"] = 1..n + 1 /\ D["move"] = 2..n + 1
      /\ pos["spawn"][1] = off + 1 /\ pos["stopped"][1] = off + 2
      /\ \A i \in 2..n + 1 : /\ pos["spawn"][i] = off + 3 * i - 3
                              /\ pos["stopped"][i] = off + 3 * i - 2
                              /\ pos["move"][i] = off + 3 * i - 1
  BY DEF Behind, StagedAt
<1>1. n \in Nat /\ N \in Nat /\ o[1] = "spawn" /\ o[2] = "stopped" /\ o[3] = "move"
  OBVIOUS
<1>2. a = [i \in 1..2 |-> Step(<<"spawn", "stopped">>[((i - 1) % 2) + 1], <<"victim">>[((i - 1) \div 2) + 1])]
  <2>1. Len(<<"spawn", "stopped">>) = 2 /\ Len(<<"victim">>) = 1 /\ 2 * 1 = 2
    OBVIOUS
  <2> QED BY <2>1 DEF ForEachAll
<1>3. a = <<Step("spawn", "victim"), Step("stopped", "victim")>>
  <2>1. a[1] = Step("spawn", "victim")
    BY <1>2
  <2>2. a[2] = Step("stopped", "victim")
    BY <1>2
  <2> HIDE DEF a
  <2> QED BY <1>2, <2>1, <2>2
<1>4. b = [i \in 1..N |-> Step(o[((i - 1) % 3) + 1], bg[((i - 1) \div 3) + 1])]
  <2>1. Len(o) = 3
    OBVIOUS
  <2> QED BY <2>1 DEF ForEachAll
<1>5. \A op \in {"spawn", "stopped", "move"}, r \in U : Step(op, r) \in X
  BY DEF Step, Ops
<1>6. \A k \in 1..n : bg[k] \in U
  OBVIOUS
<1>7. t = a \o b
  OBVIOUS
<1>8. \A j \in 1..N : \E k \in 1..n : j = 3 * k - 2 \/ j = 3 * k - 1 \/ j = 3 * k
  <2> TAKE j \in 1..N
  <2>1. (j - 1) \div 3 + 1 \in 1..n /\ (j - 1) % 3 \in {0, 1, 2} /\ j - 1 = (3 * ((j - 1) \div 3)) + ((j - 1) % 3)
    BY <1>1
  <2>2. \A q, r \in Int : r \in {0, 1, 2} /\ j - 1 = 3 * q + r => j = 3 * (q + 1) - 2 \/ j = 3 * (q + 1) - 1 \/ j = 3 * (q + 1)
    OBVIOUS
  <2> QED BY <2>1, <2>2
<1>9. \A k \in 1..n : /\ 3 * k - 2 \in 1..N /\ ((3 * k - 2) - 1) % 3 = 0 /\ ((3 * k - 2) - 1) \div 3 = k - 1
                      /\ 3 * k - 1 \in 1..N /\ ((3 * k - 1) - 1) % 3 = 1 /\ ((3 * k - 1) - 1) \div 3 = k - 1
                      /\ 3 * k \in 1..N /\ (3 * k - 1) % 3 = 2 /\ (3 * k - 1) \div 3 = k - 1
  OBVIOUS
<1>10. N = 3 * n
  OBVIOUS
<1> HIDE DEF X, N, n, a, b, o, t
<1>11. \A k \in 1..n : /\ b[3 * k - 2] = Step("spawn", bg[k])
                       /\ b[3 * k - 1] = Step("stopped", bg[k])
                       /\ b[3 * k] = Step("move", bg[k])
  <2> TAKE k \in 1..n
  <2>1. /\ b[3 * k - 2] = Step(o[0 + 1], bg[(k - 1) + 1])
        /\ b[3 * k - 1] = Step(o[1 + 1], bg[(k - 1) + 1])
        /\ b[3 * k] = Step(o[2 + 1], bg[(k - 1) + 1])
    BY <1>4, <1>9
  <2>2. 0 + 1 = 1 /\ 1 + 1 = 2 /\ 2 + 1 = 3 /\ (k - 1) + 1 = k
    BY <1>1
  <2> QED BY <1>1, <2>1, <2>2
<1>12. b \in Seq(X) /\ Len(b) = N
  <2>1. \A j \in 1..N : b[j] \in X
    <3> TAKE j \in 1..N
    <3>1. PICK k \in 1..n : j = 3 * k - 2 \/ j = 3 * k - 1 \/ j = 3 * k
      BY <1>8
    <3>2. b[j] = Step("spawn", bg[k]) \/ b[j] = Step("stopped", bg[k]) \/ b[j] = Step("move", bg[k])
      BY <1>11, <3>1
    <3> QED BY <1>5, <1>6, <3>2
  <2>2. b = [j \in 1..N |-> b[j]]
    BY <1>4
  <2> QED BY <1>1, <2>1, <2>2, FunctionIsSeq
<1>13. a \in Seq(X) /\ Len(a) = 2 /\ a[1] = Step("spawn", "victim") /\ a[2] = Step("stopped", "victim")
  <2>1. Step("spawn", "victim") \in X /\ Step("stopped", "victim") \in X
    BY <1>5
  <2> QED BY <1>3, <2>1
<1>14. /\ t \in Seq(X) /\ Len(t) = N + 2 /\ t[1] = a[1] /\ t[2] = a[2]
       /\ \A j \in 1..N : t[j + 2] = b[j]
  <2>1. t \in Seq(X) /\ Len(t) = 2 + N /\ (\A k \in 1..2 : t[k] = a[k]) /\ \A k \in 1..N : t[2 + k] = b[k]
    <3>1. /\ a \o b \in Seq(X) /\ Len(a \o b) = Len(a) + Len(b)
          /\ \A k \in 1..Len(a) : (a \o b)[k] = a[k]
          /\ \A k \in 1..Len(b) : (a \o b)[Len(a) + k] = b[k]
      <4>1. a \in Seq(X) /\ b \in Seq(X)
        BY <1>12, <1>13
      <4> QED BY <4>1, ConcatParts
    <3>2. /\ t \in Seq(X) /\ Len(t) = Len(a) + Len(b)
          /\ \A k \in 1..Len(a) : t[k] = a[k]
          /\ \A k \in 1..Len(b) : t[Len(a) + k] = b[k]
      BY <1>7, <3>1, Zenon
    <3> QED BY <1>12, <1>13, <3>2
  <2>2. 1 \in 1..2 /\ 2 \in 1..2 /\ 2 + N = N + 2 /\ \A j \in 1..N : 2 + j = j + 2
    BY <1>1
  <2> QED BY <2>1, <2>2
<1>15. \A k \in 1..n : /\ t[3 * k] = Step("spawn", bg[k])
                       /\ t[3 * k + 1] = Step("stopped", bg[k])
                       /\ t[3 * k + 2] = Step("move", bg[k])
  <2> TAKE k \in 1..n
  <2>1. 3 * k - 2 \in 1..N /\ 3 * k - 1 \in 1..N /\ 3 * k \in 1..N
    BY <1>9
  <2>2. (3 * k - 2) + 2 = 3 * k /\ (3 * k - 1) + 2 = 3 * k + 1
    BY <1>1
  <2> QED BY <1>11, <1>14, <2>1, <2>2
<1>16. ASSUME NEW j \in 1..Len(t)
       PROVE  \E op \in {"spawn", "stopped", "move"} : \E i \in D[op] : off + j = pos[op][i] /\ t[j] = Step(op, w[i])
  <2> DEFINE G(op, i) == i \in D[op] /\ off + j = pos[op][i] /\ t[j] = Step(op, w[i])
  <2>1. 1 \in D["spawn"] /\ 1 \in D["stopped"]
    BY <1>1, <1>0
  <2>2. CASE j = 1
    <3>1. G("spawn", 1)
      BY <1>0, <1>13, <1>14, <2>1, <2>2
    <3> QED BY <3>1
  <2>3. CASE j = 2
    <3>1. G("stopped", 1)
      BY <1>0, <1>13, <1>14, <2>1, <2>3
    <3> QED BY <3>1
  <2>4. CASE j > 2
    <3>1. j - 2 \in 1..N
      BY <1>1, <1>14, <2>4
    <3>2. PICK k \in 1..n : j - 2 = 3 * k - 2 \/ j - 2 = 3 * k - 1 \/ j - 2 = 3 * k
      BY <1>8, <3>1
    <3>3. k + 1 \in 2..n + 1 /\ k + 1 \in 1..n + 1
      BY <1>1
    <3>4. /\ pos["spawn"][k + 1] = off + 3 * (k + 1) - 3
          /\ pos["stopped"][k + 1] = off + 3 * (k + 1) - 2
          /\ pos["move"][k + 1] = off + 3 * (k + 1) - 1
      BY <1>0, <3>3
    <3>5. k + 1 \in D["spawn"] /\ k + 1 \in D["stopped"] /\ k + 1 \in D["move"] /\ w[k + 1] = bg[k]
      BY <1>0, <3>3
    <3>6. \/ j = 3 * k /\ off + j = off + 3 * (k + 1) - 3
          \/ j = 3 * k + 1 /\ off + j = off + 3 * (k + 1) - 2
          \/ j = 3 * k + 2 /\ off + j = off + 3 * (k + 1) - 1
      BY <1>14, <3>2
    <3>7. G("spawn", k + 1) \/ G("stopped", k + 1) \/ G("move", k + 1)
      BY <1>15, <3>4, <3>5, <3>6
    <3> QED BY <3>7
  <2> QED BY <1>1, <1>14, <2>2, <2>3, <2>4
<1>17. ASSUME NEW op \in {"spawn", "stopped", "move"}, NEW i \in D[op]
       PROVE  \E j \in 1..Len(t) : off + j = pos[op][i] /\ t[j] = Step(op, w[i])
  <2> DEFINE G(j) == j \in 1..Len(t) /\ off + j = pos[op][i] /\ t[j] = Step(op, w[i])
  <2>0. i \in 1..n + 1 /\ (op = "move" => i # 1)
    <3>1. CASE op = "move"
      <4>1. i \in 2..n + 1
        BY <1>0, <3>1, Zenon
      <4> QED BY <1>1, <4>1
    <3>2. CASE op # "move"
      <4>1. op = "spawn" \/ op = "stopped"
        BY <3>2
      <4> QED BY <1>0, <3>2, <4>1, Zenon
    <3> QED BY <3>1, <3>2
  <2>1. CASE i = 1
    <3>1. op # "move"
      BY <2>0, <2>1
    <3>2. op = "spawn" => G(1)
      BY <1>0, <1>1, <1>13, <1>14, <2>1
    <3>3. op = "stopped" => G(2)
      BY <1>0, <1>1, <1>13, <1>14, <2>1
    <3> QED BY <3>1, <3>2, <3>3
  <2>2. CASE i # 1
    <3>1. i \in 2..n + 1
      BY <1>1, <2>0, <2>2
    <3>2. i - 1 \in 1..n /\ i = (i - 1) + 1
      BY <1>1, <3>1
    <3>3. PICK k \in 1..n : i = k + 1
      BY <3>2
    <3>4. w[i] = bg[k]
      BY <1>0, <3>3
    <3>5. /\ pos["spawn"][i] = off + 3 * i - 3 /\ pos["stopped"][i] = off + 3 * i - 2
          /\ pos["move"][i] = off + 3 * i - 1
      BY <1>0, <3>1
    <3>6. /\ off + 3 * i - 3 = off + 3 * k /\ off + 3 * i - 2 = off + (3 * k + 1)
          /\ off + 3 * i - 1 = off + (3 * k + 2)
          /\ 3 * k \in 1..N + 2 /\ 3 * k + 1 \in 1..N + 2 /\ 3 * k + 2 \in 1..N + 2
      BY <1>1, <1>10, <3>3
    <3>7. op = "spawn" => G(3 * k)
      BY <1>14, <1>15, <3>4, <3>5, <3>6
    <3>8. op = "stopped" => G(3 * k + 1)
      BY <1>14, <1>15, <3>4, <3>5, <3>6
    <3>9. op = "move" => G(3 * k + 2)
      BY <1>14, <1>15, <3>4, <3>5, <3>6
    <3> QED BY <3>7, <3>8, <3>9
  <2> QED BY <2>1, <2>2
<1>18. LaidAt(t, off, w, D, pos, {"spawn", "stopped", "move"})
  BY <1>16, <1>17, Zenon DEF LaidAt
<1> QED BY <1>10, <1>14, <1>18 DEF t, a, b, X, n, N

\* The positions of the calls that end every script, after T others: all are
\* let go, the victim last, then awaited and read.
TailAt(n, T, D, pos) ==
    /\ D["cont"] = 1..n + 1 /\ D["wait"] = 1..n + 1 /\ D["read"] = 1..n + 1
    /\ pos["cont"][1] = T + n + 1
    /\ \A i \in 2..n + 1 : pos["cont"][i] = T + i - 1
    /\ \A i \in 1..n + 1 : pos["wait"][i] = T + n + 1 + i /\ pos["read"][i] = T + 2 * n + 2 + i

\* A script H is continued with these calls.
LEMMA LaidTail ==
  ASSUME NEW U, "victim" \in U, NEW bg \in Seq(U), NEW e \in Nat, NEW T \in Nat, NEW D, NEW pos,
         NEW H \in Seq([op : Ops, who : U]), NEW A,
         TailAt(Len(bg), T, D, pos), e + Len(H) = T, LaidAt(H, e, <<"victim">> \o bg, D, pos, A)
  PROVE  LET w == <<"victim">> \o bg
             s == H \o ForEach("cont", bg \o <<"victim">>) \o ForEach("wait", w) \o ForEach("read", w)
         IN  /\ s \in Seq([op : Ops, who : U])
             /\ LaidAt(s, e, w, D, pos, A \cup {"cont", "wait", "read"})
<1> DEFINE n == Len(bg)
           X == [op : Ops, who : U]
           w == <<"victim">> \o bg
           v == bg \o <<"victim">>
           c == ForEach("cont", v)
           a == ForEach("wait", w)
           r == ForEach("read", w)
<1>1. /\ D["cont"] = 1..n + 1 /\ D["wait"] = 1..n + 1 /\ D["read"] = 1..n + 1
      /\ pos["cont"][1] = T + n + 1
      /\ \A i \in 2..n + 1 : pos["cont"][i] = T + i - 1
      /\ \A i \in 1..n + 1 : pos["wait"][i] = T + n + 1 + i /\ pos["read"][i] = T + 2 * n + 2 + i
  BY DEF TailAt
<1>2. /\ n \in Nat /\ w \in Seq(U) /\ v \in Seq(U) /\ Len(w) = n + 1 /\ Len(v) = n + 1
      /\ w[1] = "victim" /\ v[n + 1] = "victim" /\ \A k \in 1..n : w[k + 1] = bg[k] /\ v[k] = bg[k]
  OBVIOUS
<1>3. LaidAt(H, e, w, D, pos, A) /\ e + Len(H) = T /\ H \in Seq(X) /\ Len(H) \in Nat
  OBVIOUS
<1>4. "cont" \in Ops /\ "wait" \in Ops /\ "read" \in Ops
  BY DEF Ops
<1> HIDE DEF n, X, w, v, c, a, r
<1>5. c \in Seq(X) /\ Len(c) = n + 1 /\ LaidAt(c, T, w, D, pos, {"cont"})
  <2>1. \A k \in 1..Len(v) : \E i \in D["cont"] : T + k = pos["cont"][i] /\ v[k] = w[i]
    <3> TAKE k \in 1..Len(v)
    <3>1. CASE k = n + 1
      <4>1. 1 \in D["cont"] /\ T + k = pos["cont"][1] /\ v[k] = w[1]
        BY <1>1, <1>2, <3>1
      <4> QED BY <4>1
    <3>2. CASE k # n + 1
      <4>1. k \in 1..n /\ k + 1 \in 2..n + 1 /\ k + 1 \in D["cont"] /\ T + k = T + (k + 1) - 1
        BY <1>1, <1>2, <3>2
      <4>2. T + k = pos["cont"][k + 1] /\ v[k] = w[k + 1]
        BY <1>1, <1>2, <4>1
      <4> QED BY <4>1, <4>2
    <3> QED BY <3>1, <3>2
  <2>2. \A i \in D["cont"] : \E k \in 1..Len(v) : T + k = pos["cont"][i] /\ v[k] = w[i]
    <3> TAKE i \in D["cont"]
    <3>1. CASE i = 1
      <4>1. n + 1 \in 1..Len(v) /\ T + (n + 1) = pos["cont"][i] /\ v[n + 1] = w[i]
        BY <1>1, <1>2, <3>1
      <4> QED BY <4>1
    <3>2. CASE i # 1
      <4>0. i \in 1..n + 1
        BY <1>1
      <4>1. i \in 2..n + 1 /\ i - 1 \in 1..n /\ i - 1 \in 1..Len(v) /\ T + (i - 1) = T + i - 1 /\ (i - 1) + 1 = i
        BY <1>2, <3>2, <4>0
      <4>2. T + (i - 1) = pos["cont"][i] /\ v[i - 1] = w[i]
        BY <1>1, <1>2, <4>1
      <4> QED BY <4>1, <4>2
    <3> QED BY <3>1, <3>2
  <2>3. /\ ForEach("cont", v) \in Seq([op : Ops, who : U]) /\ Len(ForEach("cont", v)) = Len(v)
        /\ LaidAt(ForEach("cont", v), T, w, D, pos, {"cont"})
    BY <1>2, <1>4, <2>1, <2>2, LaidForEach
  <2> QED BY <1>2, <2>3 DEF c, X
<1>6. ASSUME NEW op \in {"wait", "read"}, NEW O \in Nat, \A i \in 1..n + 1 : pos[op][i] = O + i
      PROVE  ForEach(op, w) \in Seq(X) /\ Len(ForEach(op, w)) = n + 1 /\ LaidAt(ForEach(op, w), O, w, D, pos, {op})
  <2>1. D[op] = 1..n + 1 /\ op \in Ops
    BY <1>1, <1>4
  <2>2. \A k \in 1..Len(w) : \E i \in D[op] : O + k = pos[op][i] /\ w[k] = w[i]
    BY <1>2, <1>6, <2>1
  <2>3. \A i \in D[op] : \E k \in 1..Len(w) : O + k = pos[op][i] /\ w[k] = w[i]
    BY <1>2, <1>6, <2>1
  <2>4. /\ ForEach(op, w) \in Seq([op : Ops, who : U]) /\ Len(ForEach(op, w)) = Len(w)
        /\ LaidAt(ForEach(op, w), O, w, D, pos, {op})
    BY <1>2, <2>1, <2>2, <2>3, LaidForEach
  <2> QED BY <1>2, <2>4 DEF X
<1>7. a \in Seq(X) /\ Len(a) = n + 1 /\ LaidAt(a, T + (n + 1), w, D, pos, {"wait"})
  <2>1. T + (n + 1) \in Nat /\ \A i \in 1..n + 1 : pos["wait"][i] = (T + (n + 1)) + i
    BY <1>1, <1>2
  <2> QED BY <1>6, <2>1 DEF a
<1>8. r \in Seq(X) /\ Len(r) = n + 1 /\ LaidAt(r, T + (2 * n + 2), w, D, pos, {"read"})
  <2>1. T + (2 * n + 2) \in Nat /\ \A i \in 1..n + 1 : pos["read"][i] = (T + (2 * n + 2)) + i
    BY <1>1, <1>2
  <2> QED BY <1>6, <2>1 DEF r
<1>9. /\ H \o c \in Seq(X) /\ Len(H \o c) = Len(H) + Len(c)
      /\ LaidAt(H \o c, e, w, D, pos, A \cup {"cont"})
  BY <1>3, <1>5, LaidConcat
<1>10. /\ (H \o c) \o a \in Seq(X) /\ Len((H \o c) \o a) = Len(H \o c) + Len(a)
       /\ LaidAt((H \o c) \o a, e, w, D, pos, (A \cup {"cont"}) \cup {"wait"})
  <2>1. e + Len(H \o c) = T + (n + 1)
    <3>1. \A l \in Nat : e + l = T => e + (l + (n + 1)) = T + (n + 1)
      BY <1>2
    <3>2. Len(H \o c) = Len(H) + (n + 1)
      BY <1>5, <1>9, Zenon
    <3> QED BY <1>3, <3>1, <3>2, Zenon
  <2>2. LaidAt(a, e + Len(H \o c), w, D, pos, {"wait"})
    BY <1>7, <2>1
  <2> QED BY <1>7, <1>9, <2>2, LaidConcat
<1>11. /\ ((H \o c) \o a) \o r \in Seq(X)
       /\ LaidAt(((H \o c) \o a) \o r, e, w, D, pos, ((A \cup {"cont"}) \cup {"wait"}) \cup {"read"})
  <2>1. e + Len((H \o c) \o a) = T + (2 * n + 2)
    <3>1. \A l \in Nat : e + l = T => e + ((l + (n + 1)) + (n + 1)) = T + (2 * n + 2)
      BY <1>2
    <3>2. Len((H \o c) \o a) = (Len(H) + (n + 1)) + (n + 1)
      BY <1>5, <1>7, <1>9, <1>10, Zenon
    <3> QED BY <1>3, <3>1, <3>2, Zenon
  <2>2. LaidAt(r, e + Len((H \o c) \o a), w, D, pos, {"read"})
    BY <1>8, <2>1
  <2> QED BY <1>8, <1>10, <2>2, LaidConcat
<1>12. ((A \cup {"cont"}) \cup {"wait"}) \cup {"read"} = A \cup {"cont", "wait", "read"}
  OBVIOUS
<1> QED BY <1>11, <1>12, Zenon DEF w, v, c, a, r, X

\* The positions of the calls before them, the last of which is the T-th:
\* for every worker in the order that Ordered asks for.
HeadAt(p, n, T, D, pos) ==
    /\ D["spawn"] = 1..n + 1 /\ D["stopped"] = 1..n + 1
    /\ D["limit"] = (IF UsesCgroups(p) THEN 2..n + 1 ELSE {})
    /\ D["move"] = (IF UsesCgroups(p) THEN 2..n + 1 ELSE {})
    /\ D["build"] = (IF p = "sweep" THEN 2..n + 1 ELSE {})
    /\ \A i \in 1..n + 1 :
         /\ pos["spawn"][i] \in Int /\ pos["stopped"][i] \in Int
         /\ pos["spawn"][i] < pos["stopped"][i] /\ pos["stopped"][i] <= T
    /\ \A i \in 2..n + 1 : p = "sweep" => pos["build"][i] = 1 /\ pos["build"][i] < pos["spawn"][i]
    /\ \A i \in 2..n + 1 : UsesCgroups(p) =>
         /\ pos["move"][i] \in Int /\ pos["limit"][i] \in Int
         /\ pos["stopped"][i] < pos["move"][i] /\ pos["move"][i] <= T /\ pos["limit"][i] <= T

\* A head that brings every worker to a stop, and the common tail, are
\* in order.
LEMMA PositionsOrdered ==
  ASSUME NEW p, NEW n \in Nat, NEW T \in Nat, NEW D, NEW pos, HeadAt(p, n, T, D, pos), TailAt(n, T, D, pos)
  PROVE  Ordered(p, n + 1, D, pos)
<1>1. /\ D["cont"] = 1..n + 1 /\ D["wait"] = 1..n + 1 /\ D["read"] = 1..n + 1
      /\ pos["cont"][1] = T + n + 1
      /\ \A i \in 2..n + 1 : pos["cont"][i] = T + i - 1
      /\ \A i \in 1..n + 1 : pos["wait"][i] = T + n + 1 + i /\ pos["read"][i] = T + 2 * n + 2 + i
  BY DEF TailAt
<1>2. /\ D["spawn"] = 1..n + 1 /\ D["stopped"] = 1..n + 1
      /\ D["limit"] = (IF UsesCgroups(p) THEN 2..n + 1 ELSE {})
      /\ D["move"] = (IF UsesCgroups(p) THEN 2..n + 1 ELSE {})
      /\ D["build"] = (IF p = "sweep" THEN 2..n + 1 ELSE {})
  BY DEF HeadAt
<1>3. \A i \in 1..n + 1 :
         /\ pos["spawn"][i] \in Int /\ pos["stopped"][i] \in Int
         /\ pos["spawn"][i] < pos["stopped"][i] /\ pos["stopped"][i] <= T
  BY DEF HeadAt
<1>4. \A i \in 2..n + 1 : p = "sweep" => pos["build"][i] = 1 /\ pos["build"][i] < pos["spawn"][i]
  BY DEF HeadAt
<1>5. \A i \in 2..n + 1 : UsesCgroups(p) =>
         /\ pos["move"][i] \in Int /\ pos["limit"][i] \in Int
         /\ pos["stopped"][i] < pos["move"][i] /\ pos["move"][i] <= T /\ pos["limit"][i] <= T
  BY DEF HeadAt
<1>6. \A i \in 1..n + 1 : i = 1 \/ i \in 2..n + 1
  OBVIOUS
<1>7. \A i \in 2..n + 1 : i \in 1..n + 1 /\ i # 1
  OBVIOUS
<1>8. \A i \in 1..n + 1 : pos["cont"][i] \in Int /\ pos["cont"][i] > T /\ pos["cont"][i] <= T + n + 1
  <2>1. \A i \in 2..n + 1 : T + i - 1 \in Int /\ T + i - 1 > T /\ T + i - 1 <= T + n + 1
    OBVIOUS
  <2>2. T + n + 1 \in Int /\ T + n + 1 > T /\ T + n + 1 <= T + n + 1
    OBVIOUS
  <2> QED BY <1>1, <1>6, <2>1, <2>2
<1>9. \A i \in D["limit"] \cup D["move"] : UsesCgroups(p) /\ i # 1
  BY <1>2, <1>7
<1>10. \A i \in D["build"] : p = "sweep" /\ pos["build"][i] = 1
  BY <1>2, <1>4
<1>11. \A i \in D["spawn"] : p = "sweep" /\ i # 1 => Prior(D, pos, "spawn", i, "build", i)
  BY <1>2, <1>4, <1>6 DEF Prior
<1>12. \A i \in D["stopped"] : Prior(D, pos, "stopped", i, "spawn", i)
  BY <1>2, <1>3 DEF Prior
<1>13. \A i \in D["move"] : Prior(D, pos, "move", i, "stopped", i)
  BY <1>2, <1>5, <1>7 DEF Prior
<1>14. \A i \in D["cont"] : Prior(D, pos, "cont", i, "stopped", i)
  <2> TAKE i \in D["cont"]
  <2>1. i \in 1..n + 1
    BY <1>1
  <2>2. pos["stopped"][i] < pos["cont"][i]
    BY <1>3, <1>8, <2>1
  <2> QED BY <1>2, <2>1, <2>2 DEF Prior
<1>15. \A i \in D["cont"] : UsesCgroups(p) /\ i # 1 =>
         Prior(D, pos, "cont", i, "limit", i) /\ Prior(D, pos, "cont", i, "move", i)
  <2> TAKE i \in D["cont"]
  <2> HAVE UsesCgroups(p) /\ i # 1
  <2>1. i \in 1..n + 1 /\ i \in 2..n + 1
    BY <1>1, <1>6
  <2>2. pos["move"][i] < pos["cont"][i] /\ pos["limit"][i] < pos["cont"][i]
    BY <1>5, <1>8, <2>1
  <2> QED BY <1>2, <2>1, <2>2 DEF Prior
<1>16. \A l \in 2..n + 1 : Prior(D, pos, "cont", 1, "cont", l)
  BY <1>1, <1>7 DEF Prior
<1>17. \A i \in D["wait"] :
         Prior(D, pos, "wait", i, "cont", i) /\ (i # 1 => Prior(D, pos, "wait", i, "wait", 1))
  <2> TAKE i \in D["wait"]
  <2>1. i \in 1..n + 1 /\ 1 \in 1..n + 1
    BY <1>1
  <2>2. pos["cont"][i] < pos["wait"][i]
    BY <1>1, <1>8, <2>1
  <2>3. i # 1 => pos["wait"][1] < pos["wait"][i]
    BY <1>1, <2>1
  <2> QED BY <1>1, <2>1, <2>2, <2>3 DEF Prior
<1>18. \A i \in D["read"] : Prior(D, pos, "read", i, "wait", i)
  BY <1>1 DEF Prior
<1>19. \A i \in 1..n + 1 : i \in D["read"]
  BY <1>1
<1> QED BY <1>9, <1>10, <1>11, <1>12, <1>13, <1>14, <1>15, <1>16, <1>17, <1>18, <1>19 DEF Ordered

\* For which of the victim and n other workers a call is made, and where, if
\* the k-th worker is started, awaited and placed at sp[k], st[k] and mv[k].
Doms(p, n) ==
    [op \in Ops |->
       CASE op \in {"limit", "move"} -> IF UsesCgroups(p) THEN 2..n + 1 ELSE {}
         [] op = "build" -> IF p = "sweep" THEN 2..n + 1 ELSE {}
         [] op \in {"spawn", "stopped", "cont", "wait", "read"} -> 1..n + 1]

Place(n, T, sp, st, mv) ==
    [op \in Ops |-> [i \in 1..n + 1 |->
       CASE op = "limit" -> i - 1
         [] op = "build" -> 1
         [] op = "spawn" -> sp[i]
         [] op = "stopped" -> st[i]
         [] op = "move" -> mv[i]
         [] op = "cont" -> (IF i = 1 THEN T + n + 1 ELSE T + i - 1)
         [] op = "wait" -> T + n + 1 + i
         [] op = "read" -> T + 2 * n + 2 + i]]

\* The workers each call is made for.
LEMMA DomsIs ==
  ASSUME NEW p, NEW n \in Nat
  PROVE  LET D == Doms(p, n)
         IN  /\ D \in [Ops -> SUBSET (1..n + 1)]
             /\ D["limit"] = (IF UsesCgroups(p) THEN 2..n + 1 ELSE {})
             /\ D["move"] = (IF UsesCgroups(p) THEN 2..n + 1 ELSE {})
             /\ D["build"] = (IF p = "sweep" THEN 2..n + 1 ELSE {})
             /\ \A op \in {"spawn", "stopped", "cont", "wait", "read"} : D[op] = 1..n + 1
<1> DEFINE D == Doms(p, n)
           R == 2..n + 1
           Q == 1..n + 1
<1>1. R \subseteq Q
  OBVIOUS
<1>2. D = [op \in Ops |->
             CASE op \in {"limit", "move"} -> IF UsesCgroups(p) THEN R ELSE {}
               [] op = "build" -> IF p = "sweep" THEN R ELSE {}
               [] op \in {"spawn", "stopped", "cont", "wait", "read"} -> Q]
  BY DEF Doms
<1> HIDE DEF D, R, Q
<1>3. /\ D["limit"] = (IF UsesCgroups(p) THEN R ELSE {})
      /\ D["move"] = (IF UsesCgroups(p) THEN R ELSE {})
      /\ D["build"] = (IF p = "sweep" THEN R ELSE {})
      /\ \A op \in {"spawn", "stopped", "cont", "wait", "read"} : D[op] = Q
  BY <1>2 DEF Ops
<1>4. ASSUME NEW op \in Ops
      PROVE  D[op] \subseteq Q
  <2>1. op \in {"limit", "move"} \/ op = "build" \/ op \in {"spawn", "stopped", "cont", "wait", "read"}
    BY DEF Ops
  <2> QED BY <1>1, <1>3, <2>1
<1>5. D \in [Ops -> SUBSET Q]
  <2>1. D = [op \in Ops |-> D[op]]
    BY <1>2
  <2> QED BY <1>4, <2>1
<1> QED BY <1>3, <1>5 DEF D, R, Q

\* The positions of the calls.
LEMMA PlaceIs ==
  ASSUME NEW p, NEW n \in Nat, NEW T \in Nat, NEW sp, NEW st, NEW mv
  PROVE  LET pos == Place(n, T, sp, st, mv)
         IN  /\ TailAt(n, T, Doms(p, n), pos)
             /\ \A i \in 1..n + 1 : /\ pos["limit"][i] = i - 1 /\ pos["build"][i] = 1
                                    /\ pos["spawn"][i] = sp[i] /\ pos["stopped"][i] = st[i]
                                    /\ pos["move"][i] = mv[i]
<1> DEFINE D == Doms(p, n)
           pos == Place(n, T, sp, st, mv)
<1>1. Ops = {"limit", "spawn", "stopped", "move", "cont", "wait", "read", "build"}
  BY DEF Ops
<1>2. \A i \in 1..n + 1 : pos["limit"][i] = i - 1
  BY <1>1 DEF Place
<1>3. \A i \in 1..n + 1 : pos["build"][i] = 1
  BY <1>1 DEF Place
<1>4. \A i \in 1..n + 1 : pos["spawn"][i] = sp[i]
  BY <1>1 DEF Place
<1>5. \A i \in 1..n + 1 : pos["stopped"][i] = st[i]
  BY <1>1 DEF Place
<1>6. \A i \in 1..n + 1 : pos["move"][i] = mv[i]
  BY <1>1 DEF Place
<1>7. \A i \in 1..n + 1 : pos["cont"][i] = IF i = 1 THEN T + n + 1 ELSE T + i - 1
  BY <1>1 DEF Place
<1>8. \A i \in 1..n + 1 : pos["wait"][i] = T + n + 1 + i
  BY <1>1 DEF Place
<1>9. \A i \in 1..n + 1 : pos["read"][i] = T + 2 * n + 2 + i
  BY <1>1 DEF Place
<1>10. D["cont"] = 1..n + 1 /\ D["wait"] = 1..n + 1 /\ D["read"] = 1..n + 1
  BY DomsIs
<1>11. 1 \in 1..n + 1 /\ \A i \in 2..n + 1 : i \in 1..n + 1 /\ i # 1
  OBVIOUS
<1> HIDE DEF D, pos
<1>12. pos["cont"][1] = T + n + 1 /\ \A i \in 2..n + 1 : pos["cont"][i] = T + i - 1
  BY <1>7, <1>11
<1>13. TailAt(n, T, D, pos)
  BY <1>8, <1>9, <1>10, <1>12 DEF TailAt
<1> QED BY <1>2, <1>3, <1>4, <1>5, <1>6, <1>13 DEF D, pos

\* No call but those in A is made.
Unused(D, A) == A \subseteq Ops /\ \A op \in Ops \ A : D[op] = {}

\* A script laid out from its first call on is in order.
LEMMA ScriptInOrder ==
  ASSUME NEW p, NEW U, NEW w, NEW n \in Nat, NEW T \in Nat, NEW D, NEW pos, NEW A,
         NEW s \in Seq([op : Ops, who : U]), Lists(w, n + 1, U), D = Doms(p, n),
         HeadAt(p, n, T, D, pos), TailAt(n, T, D, pos),
         LaidAt(s, 0, w, D, pos, A), Unused(D, A)
  PROVE  InOrder(p, s, U)
<1>1. Len(s) \in Nat /\ A \subseteq Ops
  BY DEF Unused
<1>2. \A k \in 1..Len(s) : \E op \in Ops : \E i \in D[op] : k = pos[op][i] /\ s[k] = Step(op, w[i])
  <2> TAKE k \in 1..Len(s)
  <2>1. PICK op \in A : \E i \in D[op] : 0 + k = pos[op][i] /\ s[k] = Step(op, w[i])
    BY DEF LaidAt
  <2>2. 0 + k = k
    BY <1>1
  <2> QED BY <1>1, <2>1, <2>2
<1>3. \A op \in Ops : \A i \in D[op] : pos[op][i] \in 1..Len(s) /\ s[pos[op][i]] = Step(op, w[i])
  <2> TAKE op \in Ops
  <2> TAKE i \in D[op]
  <2>1. op \in A
    BY DEF Unused
  <2>2. PICK k \in 1..Len(s) : 0 + k = pos[op][i] /\ s[k] = Step(op, w[i])
    BY <2>1 DEF LaidAt
  <2>3. k = pos[op][i]
    BY <1>1, <2>2
  <2> QED BY <2>2, <2>3
<1>4. Laid(s, w, D, pos)
  BY <1>2, <1>3 DEF Laid
<1>5. Ordered(p, n + 1, D, pos)
  BY PositionsOrdered
<1>6. D \in [Ops -> SUBSET (1..n + 1)]
  BY DomsIs
<1> QED BY <1>1, <1>4, <1>5, <1>6, LaidInOrder

\* The calls after a prefix P of the two programs without cgroups: all are
\* started and awaited one after the other.
LEMMA PlainScript ==
  ASSUME NEW p \in {"overlap", "sweep"}, NEW U, "victim" \in U, NEW bg \in Seq(U),
         Lists(<<"victim">> \o bg, Len(bg) + 1, U), NEW P \in Seq([op : Ops, who : U]),
         \/ P = <<>> /\ (p = "overlap" \/ Len(bg) = 0)
         \/ P = <<Step("build", bg[1])>> /\ p = "sweep" /\ Len(bg) = 1
  PROVE  LET w == <<"victim">> \o bg
             S == ForEachAll(<<"spawn", "stopped">>, w) \o ForEach("cont", bg \o <<"victim">>)
                  \o ForEach("wait", w) \o ForEach("read", w)
         IN  S \in Seq([op : Ops, who : U]) /\ InOrder(p, P \o S, U)
<1> DEFINE n == Len(bg)
           w == <<"victim">> \o bg
           X == [op : Ops, who : U]
           e == Len(P)
           T == e + 2 * n + 2
           sp == [i \in 1..n + 1 |-> e + 2 * i - 1]
           st == [i \in 1..n + 1 |-> e + 2 * i]
           D == Doms(p, n)
           pos == Place(n, T, sp, st, st)
           H == ForEachAll(<<"spawn", "stopped">>, w)
           S == H \o ForEach("cont", bg \o <<"victim">>) \o ForEach("wait", w) \o ForEach("read", w)
<1>1. /\ n \in Nat /\ e \in Nat /\ T \in Nat /\ w \in Seq(U) /\ Len(w) = n + 1
      /\ w[1] = "victim" /\ \A k \in 1..n : w[k + 1] = bg[k]
  OBVIOUS
<1>2. T = e + 2 * n + 2 /\ e = Len(P) /\ P \in Seq(X) /\ ~UsesCgroups(p)
  BY DEF UsesCgroups
<1>3. \A i \in 1..n + 1 : sp[i] = e + 2 * i - 1 /\ st[i] = e + 2 * i
  OBVIOUS
<1>4. /\ D["limit"] = {} /\ D["move"] = {} /\ D["build"] = (IF p = "sweep" THEN 2..n + 1 ELSE {})
      /\ \A op \in {"spawn", "stopped", "cont", "wait", "read"} : D[op] = 1..n + 1
  BY <1>1, <1>2, DomsIs
<1> HIDE DEF n, w, X, e, T, sp, st
<1>5. /\ TailAt(n, T, D, pos)
      /\ \A i \in 1..n + 1 : pos["build"][i] = 1 /\ pos["spawn"][i] = sp[i] /\ pos["stopped"][i] = st[i]
  BY <1>1, PlaceIs
<1> HIDE DEF D, pos
<1>6. \A i \in 1..n + 1 : pos["spawn"][i] = e + 2 * i - 1 /\ pos["stopped"][i] = e + 2 * i
  BY <1>3, <1>5
<1>7. LaidAt(P, 0, w, D, pos, {"build"})
  <2>1. CASE P = <<>> /\ (p = "overlap" \/ n = 0)
    <3>1. D["build"] = {}
      BY <1>1, <1>4, <2>1
    <3>2. 1..Len(P) = {}
      BY <2>1
    <3> QED BY <3>1, <3>2 DEF LaidAt
  <2>2. CASE P = <<Step("build", bg[1])>> /\ p = "sweep" /\ n = 1
    <3>1. D["build"] = {2} /\ pos["build"][2] = 1 /\ w[2] = bg[1]
      <4>1. 2..n + 1 = {2} /\ 2 \in 1..n + 1 /\ 1 \in 1..n /\ 1 + 1 = 2
        BY <2>2
      <4> QED BY <1>1, <1>4, <1>5, <2>2, <4>1
    <3>2. Len(P) = 1 /\ P[1] = Step("build", bg[1]) /\ 1..1 = {1} /\ 0 + 1 = 1
      BY <2>2
    <3>3. ASSUME NEW k \in 1..Len(P)
          PROVE  \E op \in {"build"} : \E i \in D[op] : 0 + k = pos[op][i] /\ P[k] = Step(op, w[i])
      <4>1. k = 1
        BY <3>2
      <4>2. 2 \in D["build"] /\ 0 + k = pos["build"][2] /\ P[k] = Step("build", w[2])
        BY <3>1, <3>2, <4>1
      <4> QED BY <4>2
    <3>4. ASSUME NEW op \in {"build"}, NEW i \in D[op]
          PROVE  \E k \in 1..Len(P) : 0 + k = pos[op][i] /\ P[k] = Step(op, w[i])
      <4>1. op = "build" /\ i = 2
        BY <3>1
      <4>2. 1 \in 1..Len(P) /\ 0 + 1 = pos[op][i] /\ P[1] = Step(op, w[i])
        BY <3>1, <3>2, <4>1
      <4> QED BY <4>2
    <3> QED BY <3>3, <3>4, Zenon DEF LaidAt
  <2> QED BY <2>1, <2>2 DEF n
<1>8. H \in Seq(X) /\ Len(H) = 2 * (n + 1) /\ LaidAt(H, e, w, D, pos, {"spawn", "stopped"})
  <2>1. "spawn" \in Ops /\ "stopped" \in Ops
    BY DEF Ops
  <2>2. D["spawn"] = 1..Len(w) /\ D["stopped"] = 1..Len(w)
    BY <1>1, <1>4
  <2>3. PairAt(w, e, w, D, pos, "spawn", "stopped")
    <3>1. /\ \A k \in 1..Len(w) : \E i \in D["spawn"] : e + 2 * k - 1 = pos["spawn"][i] /\ w[k] = w[i]
          /\ \A k \in 1..Len(w) : \E i \in D["stopped"] : e + 2 * k = pos["stopped"][i] /\ w[k] = w[i]
          /\ \A i \in D["spawn"] : \E k \in 1..Len(w) : e + 2 * k - 1 = pos["spawn"][i] /\ w[k] = w[i]
          /\ \A i \in D["stopped"] : \E k \in 1..Len(w) : e + 2 * k = pos["stopped"][i] /\ w[k] = w[i]
      BY <1>1, <1>6, <2>2
    <3> QED BY <3>1 DEF PairAt
  <2>4. /\ H \in Seq([op : Ops, who : U]) /\ Len(H) = 2 * Len(w)
        /\ LaidAt(H, e, w, D, pos, {"spawn", "stopped"})
    BY <1>1, <2>1, <2>3, LaidForEach2
  <2> QED BY <1>1, <2>4 DEF X
<1> DEFINE A == {"spawn", "stopped"} \cup {"cont", "wait", "read"}
<1> HIDE DEF H
<1>9. S \in Seq(X) /\ LaidAt(S, e, w, D, pos, A)
  <2>1. e + Len(H) = T
    BY <1>1, <1>2, <1>8
  <2>2. LaidAt(H, e, <<"victim">> \o bg, D, pos, {"spawn", "stopped"}) /\ TailAt(Len(bg), T, D, pos)
    BY <1>5, <1>8 DEF w, n
  <2>3. H \in Seq([op : Ops, who : U])
    BY <1>8 DEF X
  <2> QED BY <1>1, <2>1, <2>2, <2>3, LaidTail DEF w, X
<1> HIDE DEF S
<1>10. P \o S \in Seq(X) /\ LaidAt(P \o S, 0, w, D, pos, {"build"} \cup A)
  <2>1. 0 + Len(P) = e
    BY <1>1, <1>2
  <2> QED BY <1>2, <1>7, <1>9, <2>1, LaidConcat
<1>11. HeadAt(p, n, T, D, pos)
  <2>1. \A i \in 1..n + 1 : /\ e + 2 * i - 1 \in Int /\ e + 2 * i \in Int
                            /\ e + 2 * i - 1 < e + 2 * i /\ e + 2 * i <= T
    BY <1>1, <1>2
  <2>2. \A i \in 2..n + 1 : i \in 1..n + 1 /\ 1 < e + 2 * i - 1
    BY <1>1
  <2>3. \A i \in 1..n + 1 : /\ pos["spawn"][i] \in Int /\ pos["stopped"][i] \in Int
                            /\ pos["spawn"][i] < pos["stopped"][i] /\ pos["stopped"][i] <= T
    BY <1>6, <2>1
  <2>4. \A i \in 2..n + 1 : pos["build"][i] = 1 /\ pos["build"][i] < pos["spawn"][i]
    BY <1>5, <1>6, <2>2
  <2> QED BY <1>2, <1>4, <2>3, <2>4 DEF HeadAt
<1>12. InOrder(p, P \o S, U)
  <2>1. \A op \in Ops \ ({"build"} \cup A) : D[op] = {}
    BY <1>4 DEF Ops
  <2>2. Unused(D, {"build"} \cup A)
    BY <2>1 DEF Ops, Unused
  <2>3. Lists(w, n + 1, U)
    BY DEF w, n
  <2>4. P \o S \in Seq([op : Ops, who : U]) /\ D = Doms(p, n)
    BY <1>10 DEF X, D
  <2> HIDE DEF A
  <2> QED BY <1>1, <1>5, <1>10, <1>11, <2>2, <2>3, <2>4, ScriptInOrder
<1> QED BY <1>9, <1>12 DEF S, H, w, X

\* A loop that makes one call for each worker but the victim.
LEMMA LaidBehind ==
  ASSUME NEW U, NEW bg \in Seq(U), NEW op \in Ops, NEW off \in Nat, NEW w, NEW D, NEW pos, Behind(w, bg),
         D[op] = 2..Len(bg) + 1, \A i \in 2..Len(bg) + 1 : pos[op][i] = off + i - 1
  PROVE  /\ ForEach(op, bg) \in Seq([op : Ops, who : U]) /\ Len(ForEach(op, bg)) = Len(bg)
         /\ LaidAt(ForEach(op, bg), off, w, D, pos, {op})
<1>1. Len(bg) \in Nat /\ \A k \in 1..Len(bg) : w[k + 1] = bg[k]
  BY DEF Behind
<1>2. \A k \in 1..Len(bg) : \E i \in D[op] : off + k = pos[op][i] /\ bg[k] = w[i]
  <2> TAKE k \in 1..Len(bg)
  <2>1. k + 1 \in 2..Len(bg) + 1 /\ off + k = off + (k + 1) - 1
    BY <1>1
  <2>2. k + 1 \in D[op] /\ off + k = pos[op][k + 1] /\ bg[k] = w[k + 1]
    BY <1>1, <2>1
  <2> QED BY <2>2
<1>3. \A i \in D[op] : \E k \in 1..Len(bg) : off + k = pos[op][i] /\ bg[k] = w[i]
  <2> TAKE i \in D[op]
  <2>1. i \in 2..Len(bg) + 1
    OBVIOUS
  <2>2. i - 1 \in 1..Len(bg) /\ (i - 1) + 1 = i /\ off + (i - 1) = off + i - 1
    BY <1>1, <2>1
  <2>3. off + (i - 1) = pos[op][i] /\ bg[i - 1] = w[i]
    BY <1>1, <2>1, <2>2
  <2> QED BY <2>2, <2>3
<1> QED BY <1>2, <1>3, LaidForEach

\* The calls that start the workers of the programs with cgroups, given by
\* their positions, after the limits and before the tail.
LEMMA ControlScript ==
  ASSUME NEW p \in {"selective", "multi", "cpumax"}, NEW U, "victim" \in U, NEW bg \in Seq(U),
         Lists(<<"victim">> \o bg, Len(bg) + 1, U), NEW sp, NEW st, NEW mv,
         NEW M \in Seq([op : Ops, who : U]), Len(M) = 3 * Len(bg) + 2,
         LaidAt(M, Len(bg), <<"victim">> \o bg, Doms(p, Len(bg)),
                Place(Len(bg), 4 * Len(bg) + 2, sp, st, mv), {"spawn", "stopped", "move"}),
         \A i \in 1..Len(bg) + 1 :
            /\ sp[i] \in Int /\ st[i] \in Int /\ sp[i] < st[i] /\ st[i] <= 4 * Len(bg) + 2
            /\ i # 1 => mv[i] \in Int /\ st[i] < mv[i] /\ mv[i] <= 4 * Len(bg) + 2
  PROVE  LET w == <<"victim">> \o bg
         IN  InOrder(p, (ForEach("limit", bg) \o M) \o ForEach("cont", bg \o <<"victim">>)
                        \o ForEach("wait", w) \o ForEach("read", w), U)
<1> DEFINE n == Len(bg)
           w == <<"victim">> \o bg
           X == [op : Ops, who : U]
           T == 4 * n + 2
           D == Doms(p, n)
           pos == Place(n, T, sp, st, mv)
           L == ForEach("limit", bg)
           H == L \o M
           S == H \o ForEach("cont", bg \o <<"victim">>) \o ForEach("wait", w) \o ForEach("read", w)
           B == {"spawn", "stopped", "move"}
           A == ({"limit"} \cup B) \cup {"cont", "wait", "read"}
<1>1. /\ n \in Nat /\ T \in Nat /\ w[1] = "victim" /\ \A k \in 1..n : w[k + 1] = bg[k]
  OBVIOUS
<1>2. T = 4 * n + 2 /\ UsesCgroups(p) /\ p # "sweep" /\ M \in Seq(X) /\ Len(M) = 3 * n + 2
  BY DEF UsesCgroups
<1>3. \A i \in 1..n + 1 : /\ sp[i] \in Int /\ st[i] \in Int /\ sp[i] < st[i] /\ st[i] <= T
                          /\ i # 1 => mv[i] \in Int /\ st[i] < mv[i] /\ mv[i] <= T
  OBVIOUS
<1>4. LaidAt(M, n, w, D, pos, B)
  OBVIOUS
<1>5. /\ D["limit"] = 2..n + 1 /\ D["move"] = 2..n + 1 /\ D["build"] = {}
      /\ \A op \in {"spawn", "stopped", "cont", "wait", "read"} : D[op] = 1..n + 1
  BY <1>1, <1>2, DomsIs
<1> HIDE DEF n, w, X, T
<1>6. /\ TailAt(n, T, D, pos)
      /\ \A i \in 1..n + 1 : /\ pos["limit"][i] = i - 1 /\ pos["spawn"][i] = sp[i]
                             /\ pos["stopped"][i] = st[i] /\ pos["move"][i] = mv[i]
  BY <1>1, PlaceIs
<1> HIDE DEF D, pos, L, B
<1>7. \A i \in 2..n + 1 : i \in 1..n + 1 /\ i # 1 /\ i - 1 = 0 + i - 1 /\ i - 1 <= T
  BY <1>1, <1>2
<1>8. L \in Seq(X) /\ Len(L) = n /\ LaidAt(L, 0, w, D, pos, {"limit"})
  <2>1. "limit" \in Ops /\ Behind(w, bg)
    BY <1>1 DEF Ops, Behind, n
  <2>2. D["limit"] = 2..Len(bg) + 1 /\ \A i \in 2..Len(bg) + 1 : pos["limit"][i] = 0 + i - 1
    BY <1>5, <1>6, <1>7 DEF n
  <2>3. /\ ForEach("limit", bg) \in Seq([op : Ops, who : U]) /\ Len(ForEach("limit", bg)) = Len(bg)
        /\ LaidAt(ForEach("limit", bg), 0, w, D, pos, {"limit"})
    BY <2>1, <2>2, LaidBehind
  <2> QED BY <2>3 DEF X, L, n
<1>9. H \in Seq(X) /\ Len(H) = n + (3 * n + 2) /\ LaidAt(H, 0, w, D, pos, {"limit"} \cup B)
  <2>1. 0 + Len(L) = n
    BY <1>1, <1>8
  <2>2. H \in Seq(X) /\ Len(H) = Len(L) + Len(M) /\ LaidAt(H, 0, w, D, pos, {"limit"} \cup B)
    BY <1>2, <1>4, <1>8, <2>1, LaidConcat
  <2> HIDE DEF H
  <2> QED BY <1>2, <1>8, <2>2, Zenon
<1> HIDE DEF H
<1>10. S \in Seq(X) /\ LaidAt(S, 0, w, D, pos, A)
  <2>1. 0 + Len(H) = T
    BY <1>1, <1>2, <1>9
  <2>2. LaidAt(H, 0, <<"victim">> \o bg, D, pos, {"limit"} \cup B) /\ TailAt(Len(bg), T, D, pos)
    BY <1>6, <1>9 DEF w, n
  <2>3. H \in Seq([op : Ops, who : U])
    BY <1>9 DEF X
  <2> QED BY <1>1, <2>1, <2>2, <2>3, LaidTail DEF w, X
<1> HIDE DEF S
<1>11. HeadAt(p, n, T, D, pos)
  <2>1. \A i \in 1..n + 1 : /\ pos["spawn"][i] \in Int /\ pos["stopped"][i] \in Int
                            /\ pos["spawn"][i] < pos["stopped"][i] /\ pos["stopped"][i] <= T
    BY <1>3, <1>6
  <2>2. \A i \in 2..n + 1 :
         /\ pos["move"][i] \in Int /\ pos["stopped"][i] < pos["move"][i] /\ pos["move"][i] <= T
    BY <1>3, <1>6, <1>7
  <2>3. \A i \in 2..n + 1 : pos["limit"][i] \in Int /\ pos["limit"][i] <= T
    BY <1>6, <1>7
  <2> QED BY <1>2, <1>5, <2>1, <2>2, <2>3 DEF HeadAt
<1>12. InOrder(p, S, U)
  <2>1. Unused(D, A)
    BY <1>5 DEF Ops, Unused, B
  <2>2. Lists(w, n + 1, U) /\ S \in Seq([op : Ops, who : U]) /\ D = Doms(p, n)
    BY <1>10 DEF w, n, X, D
  <2> HIDE DEF A
  <2> QED BY <1>1, <1>6, <1>10, <1>11, <2>1, <2>2, ScriptInOrder
<1> QED BY <1>12 DEF S, H, L, w

\* The script of oracle_selective_control.c: all are started, then placed.
LEMMA SelectiveScript ==
  ASSUME NEW p \in {"selective", "multi", "cpumax"}, NEW U, "victim" \in U, NEW bg \in Seq(U),
         Lists(<<"victim">> \o bg, Len(bg) + 1, U)
  PROVE  LET w == <<"victim">> \o bg
         IN  InOrder(p, ForEach("limit", bg) \o ForEachAll(<<"spawn", "stopped">>, w) \o ForEach("move", bg)
                        \o ForEach("cont", bg \o <<"victim">>) \o ForEach("wait", w) \o ForEach("read", w), U)
<1> DEFINE n == Len(bg)
           w == <<"victim">> \o bg
           X == [op : Ops, who : U]
           T == 4 * n + 2
           sp == [i \in 1..n + 1 |-> n + 2 * i - 1]
           st == [i \in 1..n + 1 |-> n + 2 * i]
           mv == [i \in 1..n + 1 |-> (3 * n + 2) + i - 1]
           D == Doms(p, n)
           pos == Place(n, T, sp, st, mv)
           L == ForEach("limit", bg)
           S == ForEachAll(<<"spawn", "stopped">>, w)
           V == ForEach("move", bg)
<1>1. /\ n \in Nat /\ T \in Nat /\ w \in Seq(U) /\ Len(w) = n + 1
      /\ w[1] = "victim" /\ \A k \in 1..n : w[k + 1] = bg[k]
  OBVIOUS
<1>2. UsesCgroups(p) /\ T = 4 * n + 2
  BY DEF UsesCgroups
<1>3. \A i \in 1..n + 1 : sp[i] = n + 2 * i - 1 /\ st[i] = n + 2 * i /\ mv[i] = (3 * n + 2) + i - 1
  OBVIOUS
<1>4. D["limit"] = 2..n + 1 /\ D["move"] = 2..n + 1 /\ D["spawn"] = 1..n + 1 /\ D["stopped"] = 1..n + 1
  BY <1>1, <1>2, DomsIs
<1> HIDE DEF n, w, X, sp, st, mv, T
<1>5. /\ TailAt(n, T, D, pos)
      /\ \A i \in 1..n + 1 : /\ pos["limit"][i] = i - 1 /\ pos["spawn"][i] = sp[i]
                             /\ pos["stopped"][i] = st[i] /\ pos["move"][i] = mv[i]
  BY <1>1, PlaceIs
<1> HIDE DEF D, pos
<1>6. \A i \in 1..n + 1 : /\ pos["spawn"][i] = n + 2 * i - 1 /\ pos["stopped"][i] = n + 2 * i
                          /\ pos["move"][i] = (3 * n + 2) + i - 1
  BY <1>3, <1>5
<1>7. Behind(w, bg) /\ "limit" \in Ops /\ "move" \in Ops /\ "spawn" \in Ops /\ "stopped" \in Ops
  BY <1>1 DEF Behind, Ops, n
<1>8. \A i \in 2..n + 1 : i \in 1..n + 1 /\ i - 1 = 0 + i - 1
  BY <1>1
<1>9. S \in Seq(X) /\ Len(S) = 2 * (n + 1) /\ LaidAt(S, n, w, D, pos, {"spawn", "stopped"})
  <2>1. D["spawn"] = 1..Len(w) /\ D["stopped"] = 1..Len(w)
    BY <1>1, <1>4
  <2>2. PairAt(w, n, w, D, pos, "spawn", "stopped")
    <3>1. /\ \A k \in 1..Len(w) : \E i \in D["spawn"] : n + 2 * k - 1 = pos["spawn"][i] /\ w[k] = w[i]
          /\ \A k \in 1..Len(w) : \E i \in D["stopped"] : n + 2 * k = pos["stopped"][i] /\ w[k] = w[i]
          /\ \A i \in D["spawn"] : \E k \in 1..Len(w) : n + 2 * k - 1 = pos["spawn"][i] /\ w[k] = w[i]
          /\ \A i \in D["stopped"] : \E k \in 1..Len(w) : n + 2 * k = pos["stopped"][i] /\ w[k] = w[i]
      BY <1>1, <1>6, <2>1
    <3> QED BY <3>1 DEF PairAt
  <2>3. /\ S \in Seq([op : Ops, who : U]) /\ Len(S) = 2 * Len(w)
        /\ LaidAt(S, n, w, D, pos, {"spawn", "stopped"})
    BY <1>1, <1>7, <2>2, LaidForEach2
  <2> QED BY <1>1, <2>3 DEF X
<1>10. V \in Seq(X) /\ Len(V) = n /\ LaidAt(V, 3 * n + 2, w, D, pos, {"move"})
  <2>1. 3 * n + 2 \in Nat
    BY <1>1
  <2>2. D["move"] = 2..Len(bg) + 1 /\ \A i \in 2..Len(bg) + 1 : pos["move"][i] = (3 * n + 2) + i - 1
    BY <1>4, <1>6, <1>8 DEF n
  <2>3. /\ V \in Seq([op : Ops, who : U]) /\ Len(V) = Len(bg)
        /\ LaidAt(V, 3 * n + 2, w, D, pos, {"move"})
    BY <1>7, <2>1, <2>2, LaidBehind
  <2> QED BY <2>3 DEF X, n
<1>11. L \in Seq(X)
  <2>1. \A k \in 1..n : Step("limit", bg[k]) \in X
    BY <1>7 DEF X, Step, n
  <2>2. L = [k \in 1..n |-> Step("limit", bg[k])]
    BY DEF ForEach, n
  <2> HIDE DEF L
  <2>3. L = [k \in 1..n |-> L[k]] /\ \A k \in 1..n : L[k] \in X
    BY <2>1, <2>2
  <2> QED BY <1>1, <2>3, FunctionIsSeq
<1> HIDE DEF S, V, L
<1>12. /\ S \o V \in Seq(X) /\ Len(S \o V) = 3 * n + 2
       /\ LaidAt(S \o V, n, w, D, pos, {"spawn", "stopped", "move"})
  <2>1. n + Len(S) = 3 * n + 2 /\ 2 * (n + 1) + n = 3 * n + 2
    BY <1>1, <1>9
  <2>2. /\ S \o V \in Seq(X) /\ Len(S \o V) = Len(S) + Len(V)
        /\ LaidAt(S \o V, n, w, D, pos, {"spawn", "stopped"} \cup {"move"})
    BY <1>1, <1>9, <1>10, <2>1, LaidConcat
  <2>3. {"spawn", "stopped"} \cup {"move"} = {"spawn", "stopped", "move"}
    OBVIOUS
  <2>4. Len(S \o V) = 2 * (n + 1) + n
    BY <1>9, <1>10, <2>2, Zenon
  <2> QED BY <2>1, <2>2, <2>3, <2>4, Zenon
<1>13. \A i \in 1..n + 1 :
         /\ sp[i] \in Int /\ st[i] \in Int /\ sp[i] < st[i] /\ st[i] <= T
         /\ i # 1 => mv[i] \in Int /\ st[i] < mv[i] /\ mv[i] <= T
  <2>1. \A i \in 1..n + 1 :
          /\ n + 2 * i - 1 \in Int /\ n + 2 * i \in Int /\ n + 2 * i - 1 < n + 2 * i /\ n + 2 * i <= T
          /\ i # 1 => (3 * n + 2) + i - 1 \in Int /\ n + 2 * i < (3 * n + 2) + i - 1 /\ (3 * n + 2) + i - 1 <= T
    BY <1>1, <1>2
  <2> QED BY <1>3, <2>1
<1> DEFINE M == S \o V
<1>14. M = S \o V
  OBVIOUS
<1> HIDE DEF M
<1>15. InOrder(p, (L \o M) \o ForEach("cont", bg \o <<"victim">>) \o ForEach("wait", w) \o ForEach("read", w), U)
  <2>1. M \in Seq([op : Ops, who : U]) /\ Len(M) = 3 * Len(bg) + 2
    BY <1>12, <1>14 DEF X, n
  <2>2. LaidAt(M, Len(bg), <<"victim">> \o bg, Doms(p, Len(bg)), Place(Len(bg), 4 * Len(bg) + 2, sp, st, mv),
               {"spawn", "stopped", "move"})
    BY <1>12, <1>14 DEF n, w, D, pos, T
  <2>3. \A i \in 1..Len(bg) + 1 :
            /\ sp[i] \in Int /\ st[i] \in Int /\ sp[i] < st[i] /\ st[i] <= 4 * Len(bg) + 2
            /\ i # 1 => mv[i] \in Int /\ st[i] < mv[i] /\ mv[i] <= 4 * Len(bg) + 2
    BY <1>13 DEF n, T
  <2> QED BY <2>1, <2>2, <2>3, ControlScript DEF L, w
<1>16. L \o M = (L \o S) \o V
  <2>1. (L \o S) \o V = L \o (S \o V)
    <3>1. L \in Seq(X) /\ S \in Seq(X) /\ V \in Seq(X)
      BY <1>9, <1>10, <1>11
    <3> QED BY <3>1, ConcatAssociative
  <2> QED BY <1>14, <2>1, Zenon
<1> QED BY <1>15, <1>16 DEF L, S, V, w

\* The scripts of oracle_multicandidate_control.c and oracle_cpu_max_sweep.c:
\* the candidates are started and placed one by one.
LEMMA StagedScript ==
  ASSUME NEW p \in {"selective", "multi", "cpumax"}, NEW U, "victim" \in U, NEW bg \in Seq(U),
         Lists(<<"victim">> \o bg, Len(bg) + 1, U)
  PROVE  LET w == <<"victim">> \o bg
         IN  InOrder(p, ForEach("limit", bg) \o ForEachAll(<<"spawn", "stopped">>, <<"victim">>)
                        \o ForEachAll(<<"spawn", "stopped", "move">>, bg)
                        \o ForEach("cont", bg \o <<"victim">>) \o ForEach("wait", w) \o ForEach("read", w), U)
<1> DEFINE n == Len(bg)
           w == <<"victim">> \o bg
           X == [op : Ops, who : U]
           T == 4 * n + 2
           sp == [i \in 1..n + 1 |-> IF i = 1 THEN n + 1 ELSE n + 3 * i - 3]
           st == [i \in 1..n + 1 |-> IF i = 1 THEN n + 2 ELSE n + 3 * i - 2]
           mv == [i \in 1..n + 1 |-> n + 3 * i - 1]
           D == Doms(p, n)
           pos == Place(n, T, sp, st, mv)
           L == ForEach("limit", bg)
           S == ForEachAll(<<"spawn", "stopped">>, <<"victim">>)
           V == ForEachAll(<<"spawn", "stopped", "move">>, bg)
<1>1. /\ n \in Nat /\ T \in Nat /\ w[1] = "victim" /\ \A k \in 1..n : w[k + 1] = bg[k]
  OBVIOUS
<1>2. UsesCgroups(p) /\ T = 4 * n + 2
  BY DEF UsesCgroups
<1>3. \A i \in 1..n + 1 : /\ sp[i] = (IF i = 1 THEN n + 1 ELSE n + 3 * i - 3)
                          /\ st[i] = (IF i = 1 THEN n + 2 ELSE n + 3 * i - 2)
                          /\ mv[i] = n + 3 * i - 1
  OBVIOUS
<1>4. D["move"] = 2..n + 1 /\ D["spawn"] = 1..n + 1 /\ D["stopped"] = 1..n + 1
  BY <1>1, <1>2, DomsIs
<1> HIDE DEF n, w, X, sp, st, mv, T
<1>5. /\ TailAt(n, T, D, pos)
      /\ \A i \in 1..n + 1 : /\ pos["limit"][i] = i - 1 /\ pos["spawn"][i] = sp[i]
                             /\ pos["stopped"][i] = st[i] /\ pos["move"][i] = mv[i]
  BY <1>1, PlaceIs
<1> HIDE DEF D, pos
<1>6. 1 \in 1..n + 1 /\ \A i \in 2..n + 1 : i \in 1..n + 1 /\ i # 1
  BY <1>1
<1>7. Behind(w, bg) /\ "limit" \in Ops /\ "move" \in Ops /\ "spawn" \in Ops /\ "stopped" \in Ops
  BY <1>1 DEF Behind, Ops, n
<1>8. StagedAt(n, n, D, pos)
  <2>1. pos["spawn"][1] = n + 1 /\ pos["stopped"][1] = n + 2
    BY <1>3, <1>5, <1>6
  <2>2. \A i \in 2..n + 1 : /\ pos["spawn"][i] = n + 3 * i - 3 /\ pos["stopped"][i] = n + 3 * i - 2
                            /\ pos["move"][i] = n + 3 * i - 1
    BY <1>3, <1>5, <1>6
  <2> QED BY <1>4, <2>1, <2>2 DEF StagedAt
<1>9. /\ S \o V \in Seq(X) /\ Len(S \o V) = 3 * n + 2
      /\ LaidAt(S \o V, n, w, D, pos, {"spawn", "stopped", "move"})
  <2>1. StagedAt(Len(bg), n, D, pos)
    BY <1>8 DEF n
  <2>2. /\ S \o V \in Seq([op : Ops, who : U]) /\ Len(S \o V) = 3 * Len(bg) + 2
        /\ LaidAt(S \o V, n, w, D, pos, {"spawn", "stopped", "move"})
    BY <1>1, <1>7, <2>1, LaidStaged
  <2> QED BY <2>2 DEF X, n
<1>10. L \in Seq(X)
  <2>1. \A k \in 1..n : Step("limit", bg[k]) \in X
    BY <1>7 DEF X, Step, n
  <2>2. L = [k \in 1..n |-> Step("limit", bg[k])]
    BY DEF ForEach, n
  <2> HIDE DEF L
  <2>3. L = [k \in 1..n |-> L[k]] /\ \A k \in 1..n : L[k] \in X
    BY <2>1, <2>2
  <2> QED BY <1>1, <2>3, FunctionIsSeq
<1>11. \E Y : S \in Seq(Y) /\ V \in Seq(Y) /\ L \in Seq(Y)
  <2> DEFINE N == 3 * n
             sv == [i \in 1..2 |-> Step(<<"spawn", "stopped">>[((i - 1) % 2) + 1], <<"victim">>[((i - 1) \div 2) + 1])]
             vv == [i \in 1..N |-> Step(<<"spawn", "stopped", "move">>[((i - 1) % 3) + 1], bg[((i - 1) \div 3) + 1])]
             Y == (X \cup {sv[i] : i \in 1..2}) \cup {vv[i] : i \in 1..N}
  <2>1. S = sv
    <3>1. Len(<<"spawn", "stopped">>) = 2 /\ Len(<<"victim">>) = 1 /\ 2 * 1 = 2
      OBVIOUS
    <3> QED BY <3>1 DEF ForEachAll
  <2>2. V = vv
    <3>1. Len(<<"spawn", "stopped", "move">>) = 3
      OBVIOUS
    <3> QED BY <3>1 DEF ForEachAll, n
  <2>3. sv = [i \in 1..2 |-> sv[i]] /\ vv = [i \in 1..N |-> vv[i]] /\ 2 \in Nat /\ N \in Nat
    BY <1>1
  <2> HIDE DEF sv, vv, N
  <2>4. (\A i \in 1..2 : sv[i] \in Y) /\ (\A i \in 1..N : vv[i] \in Y) /\ X \subseteq Y
    OBVIOUS
  <2> HIDE DEF Y
  <2>5. sv \in Seq(Y)
    BY <2>3, <2>4, FunctionIsSeq
  <2>6. vv \in Seq(Y)
    BY <2>3, <2>4, FunctionIsSeq
  <2>7. L \in Seq(Y)
    <3> HIDE DEF L
    <3> QED BY <1>10, <2>4
  <2> QED BY <2>1, <2>2, <2>5, <2>6, <2>7
<1> HIDE DEF S, V, L
<1>12. \A i \in 1..n + 1 :
         /\ sp[i] \in Int /\ st[i] \in Int /\ sp[i] < st[i] /\ st[i] <= T
         /\ i # 1 => mv[i] \in Int /\ st[i] < mv[i] /\ mv[i] <= T
  <2>1. \A i \in 1..n + 1 :
          /\ n + 3 * i - 3 \in Int /\ n + 3 * i - 2 \in Int /\ n + 3 * i - 1 \in Int
          /\ n + 3 * i - 3 < n + 3 * i - 2 /\ n + 3 * i - 2 < n + 3 * i - 1
          /\ n + 3 * i - 1 <= T /\ n + 3 * i - 2 <= T
    BY <1>1, <1>2
  <2>2. n + 1 \in Int /\ n + 2 \in Int /\ n + 1 < n + 2 /\ n + 2 <= T
    BY <1>1, <1>2
  <2> TAKE i \in 1..n + 1
  <2>3. CASE i = 1
    BY <1>3, <2>2, <2>3
  <2>4. CASE i # 1
    BY <1>3, <2>1, <2>4
  <2> QED BY <2>3, <2>4
<1> DEFINE M == S \o V
<1>13. M = S \o V
  OBVIOUS
<1> HIDE DEF M
<1>14. InOrder(p, (L \o M) \o ForEach("cont", bg \o <<"victim">>) \o ForEach("wait", w) \o ForEach("read", w), U)
  <2>1. M \in Seq([op : Ops, who : U]) /\ Len(M) = 3 * Len(bg) + 2
    BY <1>9, <1>13 DEF X, n
  <2>2. LaidAt(M, Len(bg), <<"victim">> \o bg, Doms(p, Len(bg)), Place(Len(bg), 4 * Len(bg) + 2, sp, st, mv),
               {"spawn", "stopped", "move"})
    BY <1>9, <1>13 DEF n, w, D, pos, T
  <2>3. \A i \in 1..Len(bg) + 1 :
            /\ sp[i] \in Int /\ st[i] \in Int /\ sp[i] < st[i] /\ st[i] <= 4 * Len(bg) + 2
            /\ i # 1 => mv[i] \in Int /\ st[i] < mv[i] /\ mv[i] <= 4 * Len(bg) + 2
    BY <1>12 DEF n, T
  <2> QED BY <2>1, <2>2, <2>3, ControlScript DEF L, w
<1>15. L \o M = (L \o S) \o V
  <2>1. (L \o S) \o V = L \o (S \o V)
    BY <1>11, ConcatAssociative
  <2> QED BY <1>13, <2>1, Zenon
<1> QED BY <1>14, <1>15 DEF L, S, V, w

\* The candidates are different workers, and the victim is none of them.
Distinct(v) == /\ v \in Seq({"aggressor", "high", "low", "o0", "o25", "o50", "o75", "o100"})
               /\ \A i, j \in 1..Len(v) : v[i] = v[j] => i = j

\* No program has two candidates of one name.
LEMMA CandidatesDistinct ==
  ASSUME NEW p \in Programs
  PROVE  Distinct(Candidates(p)) /\ Distinct(<<>>) /\ (~UsesCgroups(p) => Candidates(p) = <<"aggressor">>)
<1>1. p \in {"overlap", "sweep", "selective", "multi", "cpumax"}
  BY OracleRunAssumption
<1>2. Distinct(<<>>) /\ Distinct(<<"aggressor">>) /\ Distinct(<<"high", "low">>)
  BY DEF Distinct
<1>3. Distinct(Levels)
  <2>1. /\ Levels \in Seq({"aggressor", "high", "low", "o0", "o25", "o50", "o75", "o100"}) /\ Len(Levels) = 5
        /\ Levels[1] = "o0" /\ Levels[2] = "o25" /\ Levels[3] = "o50" /\ Levels[4] = "o75" /\ Levels[5] = "o100"
    BY DEF Levels
  <2>2. \A i \in 1..5 : i = 1 \/ i = 2 \/ i = 3 \/ i = 4 \/ i = 5
    OBVIOUS
  <2> QED BY <2>1, <2>2 DEF Distinct
<1>4. CASE p \in {"overlap", "sweep"}
  <2>1. Candidates(p) = <<"aggressor">>
    BY <1>4 DEF Candidates
  <2> QED BY <1>2, <2>1, Zenon
<1>5. CASE p = "selective"
  <2>1. Candidates(p) = <<"high", "low">>
    BY <1>5 DEF Candidates, Selective!candidate_name
  <2>2. UsesCgroups(p)
    BY <1>5 DEF UsesCgroups
  <2> QED BY <1>2, <2>1, <2>2, Zenon
<1>6. CASE p \in {"multi", "cpumax"}
  <2>1. Candidates(p) = Levels
    BY <1>6 DEF Candidates
  <2>2. UsesCgroups(p)
    BY <1>6 DEF UsesCgroups
  <2> QED BY <1>2, <1>3, <2>1, <2>2, Zenon
<1> QED BY <1>1, <1>4, <1>5, <1>6

\* The victim and candidates of different names are a list of workers.
LEMMA Roster ==
  ASSUME NEW bg, Distinct(bg)
  PROVE  /\ Range(bg) = {bg[i] : i \in 1..Len(bg)} /\ "victim" \notin Range(bg)
         /\ bg \in Seq({"victim"} \cup Range(bg))
         /\ Lists(<<"victim">> \o bg, Len(bg) + 1, {"victim"} \cup Range(bg))
<1> DEFINE N == {"aggressor", "high", "low", "o0", "o25", "o50", "o75", "o100"}
           U == {"victim"} \cup Range(bg)
           n == Len(bg)
           w == <<"victim">> \o bg
<1>1. bg \in Seq(N) /\ n \in Nat /\ (\A i \in 1..n : bg[i] \in N) /\ \A i, j \in 1..n : bg[i] = bg[j] => i = j
  BY DEF Distinct
<1>2. Range(bg) = {bg[i] : i \in 1..n}
  BY <1>1 DEF Range
<1>3. "victim" \notin N
  OBVIOUS
<1> HIDE DEF N, U
<1>4. "victim" \notin Range(bg) /\ "victim" \in U /\ \A i \in 1..n : bg[i] \in U /\ bg[i] # "victim"
  BY <1>1, <1>2, <1>3 DEF U
<1>5. bg \in Seq(U)
  <2>1. bg = [i \in 1..n |-> bg[i]]
    BY <1>1
  <2> QED BY <1>1, <1>4, <2>1, FunctionIsSeq
<1>6. /\ w \in [1..n + 1 -> U] /\ w[1] = "victim" /\ \A k \in 1..n : w[k + 1] = bg[k]
  <2>1. <<"victim">> \in Seq(U)
    BY <1>4
  <2>2. w \in Seq(U) /\ Len(w) = n + 1 /\ w[1] = "victim" /\ \A k \in 1..n : w[k + 1] = bg[k]
    BY <1>1, <1>5, <2>1
  <2> HIDE DEF w, n
  <2> QED BY <2>2
<1>7. \A i \in 1..n + 1 : i = 1 \/ \E k \in 1..n : i = k + 1
  <2> TAKE i \in 1..n + 1
  <2>1. i # 1 => i - 1 \in 1..n /\ i = (i - 1) + 1
    BY <1>1
  <2> QED BY <2>1
<1> HIDE DEF n, w
<1>8. \A r \in U : \E i \in 1..n + 1 : w[i] = r
  <2> TAKE r \in U
  <2>1. CASE r = "victim"
    <3>1. 1 \in 1..n + 1
      BY <1>1
    <3> QED BY <1>6, <2>1, <3>1
  <2>2. CASE r # "victim"
    <3>1. PICK k \in 1..n : r = bg[k]
      BY <1>2, <2>2 DEF U
    <3>2. k + 1 \in 1..n + 1
      BY <1>1
    <3> QED BY <1>6, <3>1, <3>2
  <2> QED BY <2>1, <2>2
<1>9. ASSUME NEW i \in 1..n + 1, NEW l \in 1..n + 1, w[i] = w[l]
      PROVE  i = l
  <2>1. CASE i = 1 \/ l = 1
    BY <1>4, <1>6, <1>7, <1>9, <2>1
  <2>2. CASE ~(i = 1 \/ l = 1)
    <3>1. PICK k \in 1..n : i = k + 1
      BY <1>7, <2>2
    <3>2. PICK k2 \in 1..n : l = k2 + 1
      BY <1>7, <2>2
    <3>3. bg[k] = bg[k2]
      BY <1>6, <1>9, <3>1, <3>2
    <3> QED BY <1>1, <3>1, <3>2, <3>3
  <2> QED BY <2>1, <2>2
<1>10. Lists(w, n + 1, U)
  BY <1>1, <1>6, <1>8, <1>9 DEF Lists
<1> QED BY <1>2, <1>4, <1>5, <1>10 DEF n, w, U

\* The calls of all five programs are in order, in every condition.
LEMMA ScriptsInOrder ==
  ASSUME NEW p \in Programs, NEW c \in Conditions(p)
  PROVE  InOrder(p, Script[p][c], Used(p, c))
<1> DEFINE bg == IF c = "none" THEN <<>> ELSE Candidates(p)
           U == Used(p, c)
           w == <<"victim">> \o bg
<1>1. Distinct(bg)
  BY CandidatesDistinct, Zenon
<1>2. U = {"victim"} \cup Range(bg)
  <2>1. CASE c = "none"
    <3>1. Range(<<>>) = {}
      BY DEF Range
    <3> QED BY <2>1, <3>1 DEF Used
  <2>2. CASE c # "none"
    BY <2>2 DEF Used
  <2> QED BY <2>1, <2>2
<1>3. "victim" \in U /\ bg \in Seq(U) /\ Lists(w, Len(bg) + 1, U)
  BY <1>1, <1>2, Roster
<1>4. Script[p][c] = StepsOf(p, c)
  BY DEF Script
<1>5. p \in {"overlap", "sweep", "selective", "multi", "cpumax"}
  BY OracleRunAssumption
<1> DEFINE C == ForEach("cont", bg \o <<"victim">>)
           W == ForEach("wait", w)
           R == ForEach("read", w)
           S == ForEachAll(<<"spawn", "stopped">>, w) \o C \o W \o R
<1>6. CASE p = "overlap"
  <2>1. bg = IF c = "none" THEN <<>> ELSE <<"aggressor">>
    BY <1>6 DEF Candidates
  <2>2. /\ \A o, v : Overlap!ForEach(o, v) = ForEach(o, v)
        /\ \A o, v : Overlap!ForEachAll(o, v) = ForEachAll(o, v)
    BY DEF Overlap!ForEach, Overlap!ForEachAll, Overlap!Step, ForEach, ForEachAll, Step
  <2>3. StepsOf(p, c) = S
    <3>1. StepsOf(p, c) = Overlap!run_condition(c)
      BY <1>6 DEF StepsOf
    <3> QED BY <2>1, <2>2, <3>1, Zenon DEF Overlap!run_condition, Overlap!candidate_name
  <2>4. <<>> \in Seq([op : Ops, who : U])
    OBVIOUS
  <2>5. S \in Seq([op : Ops, who : U]) /\ InOrder(p, <<>> \o S, U)
    BY <1>3, <1>6, <2>4, PlainScript
  <2> HIDE DEF S, U
  <2>6. <<>> \o S = S
    BY <2>5
  <2> QED BY <1>4, <2>3, <2>5, <2>6 DEF U
<1>7. CASE p = "sweep"
  <2>1. bg = IF c = "none" THEN <<>> ELSE <<"aggressor">>
    BY <1>7 DEF Candidates
  <2>2. /\ \A o, v : Sweep!ForEach(o, v) = ForEach(o, v)
        /\ \A o, v : Sweep!ForEachAll(o, v) = ForEachAll(o, v)
        /\ \A o, r : Sweep!Step(o, r) = Step(o, r)
    BY DEF Sweep!ForEach, Sweep!ForEachAll, Sweep!Step, ForEach, ForEachAll, Step
  <2> DEFINE P == IF c = "none" THEN <<>> ELSE <<Step("build", "aggressor")>>
  <2>3. StepsOf(p, c) = P \o S
    <3>1. StepsOf(p, c) = Sweep!prepare(c) \o Sweep!run_condition(c)
      BY <1>7 DEF StepsOf
    <3>2. Sweep!prepare(c) = P
      BY <2>2, Zenon DEF Sweep!prepare
    <3>3. Sweep!run_condition(c) = S
      BY <2>1, <2>2, Zenon DEF Sweep!run_condition, Sweep!candidate_name
    <3> QED BY <3>1, <3>2, <3>3, Zenon
  <2>4. P \in Seq([op : Ops, who : U]) /\ (\/ P = <<>> /\ (p = "overlap" \/ Len(bg) = 0)
                                           \/ P = <<Step("build", bg[1])>> /\ p = "sweep" /\ Len(bg) = 1)
    <3>1. CASE c = "none"
      <4>1. P = <<>> /\ bg = <<>>
        BY <2>1, <3>1
      <4> QED BY <4>1
    <3>2. CASE c # "none"
      <4>1. P = <<Step("build", "aggressor")>> /\ bg = <<"aggressor">>
        BY <2>1, <3>2
      <4>2. bg[1] = "aggressor" /\ Len(bg) = 1
        BY <4>1
      <4>3. "aggressor" \in U
        BY <1>3, <4>2
      <4> HIDE DEF U
      <4>4. Step("build", "aggressor") \in [op : Ops, who : U]
        BY <4>3 DEF Step, Ops
      <4> HIDE DEF P, bg
      <4> QED BY <1>7, <4>1, <4>2, <4>4
    <3> QED BY <3>1, <3>2
  <2>5. InOrder(p, P \o S, U)
    <3> HIDE DEF P, bg, U
    <3> QED BY <1>3, <1>7, <2>4, PlainScript
  <2> QED BY <1>4, <2>3, <2>5, Zenon
<1>8. CASE p = "selective"
  <2>1. bg = IF c = "none" THEN <<>> ELSE <<"high", "low">>
    BY <1>8 DEF Candidates, Selective!candidate_name
  <2>2. /\ \A o, v : Selective!ForEach(o, v) = ForEach(o, v)
        /\ \A o, v : Selective!ForEachAll(o, v) = ForEachAll(o, v)
    BY DEF Selective!ForEach, Selective!ForEachAll, Selective!Step, ForEach, ForEachAll, Step
  <2>3. StepsOf(p, c) = ForEach("limit", bg) \o ForEachAll(<<"spawn", "stopped">>, w) \o ForEach("move", bg)
                        \o C \o W \o R
    <3>1. StepsOf(p, c) = Selective!run_condition(c)
      BY <1>8 DEF StepsOf
    <3> QED BY <2>1, <2>2, <3>1, Zenon DEF Selective!run_condition, Selective!candidate_name
  <2>4. InOrder(p, ForEach("limit", bg) \o ForEachAll(<<"spawn", "stopped">>, w) \o ForEach("move", bg)
                   \o C \o W \o R, U)
    <3> HIDE DEF bg, U
    <3> QED BY <1>3, <1>8, SelectiveScript
  <2> QED BY <1>4, <2>3, <2>4, Zenon
<1>9. CASE p = "multi"
  <2>1. bg = IF c = "none" THEN <<>> ELSE Levels
    BY <1>9 DEF Candidates
  <2>2. /\ \A o, v : Multi!ForEach(o, v) = ForEach(o, v)
        /\ \A o, v : Multi!ForEachAll(o, v) = ForEachAll(o, v)
        /\ Multi!candidate_name = Levels
    BY DEF Multi!ForEach, Multi!ForEachAll, Multi!Step, ForEach, ForEachAll, Step,
           Multi!candidate_name, Multi!Levels, Levels
  <2>3. StepsOf(p, c) = ForEach("limit", bg) \o ForEachAll(<<"spawn", "stopped">>, <<"victim">>)
                        \o ForEachAll(<<"spawn", "stopped", "move">>, bg) \o C \o W \o R
    <3>1. StepsOf(p, c) = Multi!run_condition(c)
      BY <1>9 DEF StepsOf
    <3> QED BY <2>1, <2>2, <3>1, Zenon DEF Multi!run_condition
  <2>4. InOrder(p, ForEach("limit", bg) \o ForEachAll(<<"spawn", "stopped">>, <<"victim">>)
                   \o ForEachAll(<<"spawn", "stopped", "move">>, bg) \o C \o W \o R, U)
    <3> HIDE DEF bg, U
    <3> QED BY <1>3, <1>9, StagedScript
  <2> QED BY <1>4, <2>3, <2>4, Zenon
<1>10. CASE p = "cpumax"
  <2>1. bg = IF c = "none" THEN <<>> ELSE Levels
    BY <1>10 DEF Candidates
  <2>2. /\ \A o, v : CpuMax!ForEach(o, v) = ForEach(o, v)
        /\ \A o, v : CpuMax!ForEachAll(o, v) = ForEachAll(o, v)
        /\ CpuMax!candidate_name = Levels
    BY DEF CpuMax!ForEach, CpuMax!ForEachAll, CpuMax!Step, ForEach, ForEachAll, Step,
           CpuMax!candidate_name, CpuMax!Levels, Levels
  <2>3. StepsOf(p, c) = ForEach("limit", bg) \o ForEachAll(<<"spawn", "stopped">>, <<"victim">>)
                        \o ForEachAll(<<"spawn", "stopped", "move">>, bg) \o C \o W \o R
    <3>1. StepsOf(p, c) = CpuMax!run_condition(c)
      BY <1>10 DEF StepsOf
    <3> QED BY <2>1, <2>2, <3>1, Zenon DEF CpuMax!run_condition
  <2>4. InOrder(p, ForEach("limit", bg) \o ForEachAll(<<"spawn", "stopped">>, <<"victim">>)
                   \o ForEachAll(<<"spawn", "stopped", "move">>, bg) \o C \o W \o R, U)
    <3> HIDE DEF bg, U
    <3> QED BY <1>3, <1>10, StagedScript
  <2> QED BY <1>4, <2>3, <2>4, Zenon
<1> QED BY <1>5, <1>6, <1>7, <1>8, <1>9, <1>10

-----------------------------------------------------------------------------
(* The inductive invariant.                                                *)

Worker == [state : States, pid : BOOLEAN, fd : BOOLEAN, group : {"root"} \cup Aggressors, data : BOOLEAN]

Types ==
    /\ program \in Programs
    /\ phase \in {"prepare", "cgroups", "loop", "run", "fail", "undo", "exit"}
    /\ todo \subseteq Conditions(program) /\ condition \in Conditions(program)
    /\ phase \in {"run", "fail"} => condition \notin todo
    /\ step \in 1..Len(Steps) + 6 /\ (phase = "run" => step <= Len(Steps) + 1)
    /\ phase = "fail" => step <= Len(Candidates(program)) + 2
    /\ worker \in [Roles -> Worker] /\ out \subseteq Roles
    /\ cpu_max = [a \in Aggressors |-> cpu_max[a]] /\ dirs \subseteq {"run"} \cup Aggressors
    /\ rc \in {"none", "success", "failure"}

\* The calls that run_condition has made so far.
Log == {Steps[j] : j \in 1..(step - 1)}
Did(L, op, r) == Step(op, r) \in L

\* What a child may be doing once it has been told to stop or go on.
Progress(L, r) ==
    IF Did(L, "cont", r) THEN {"running", "exited", "failed"}
    ELSE IF Did(L, "stopped", r) THEN {"stopped", "failed"} ELSE {"starting", "stopped", "failed"}

\* Nothing of a worker is left: no child, pid, pipe or result.
Absent(w) == w.state = "none" /\ ~w.pid /\ ~w.fd /\ ~w.data

\* The result is in the pipe of a child that exited, and perhaps in that of
\* one that died.
DataOk(w) == (w.state = "exited" => w.data) /\ (w.data => w.state \in {"exited", "failed"})

\* The worker of role r and what run_condition knows of it after calls L.
Known(L, w, r) ==
    /\ ~Did(L, "spawn", r) \/ Did(L, "read", r) => Absent(w)
    /\ Did(L, "spawn", r) /\ ~Did(L, "wait", r) =>
         w.pid /\ w.fd /\ w.state \in Progress(L, r) /\ DataOk(w)
    /\ Did(L, "wait", r) /\ ~Did(L, "read", r) => w.state = "none" /\ ~w.pid /\ w.fd /\ w.data
    /\ Did(L, "move", r) /\ ~Did(L, "wait", r) => w.group = r

Running ==
    phase = "run" =>
        /\ \A r \in Roles : Known(Log, worker[r], r)
        /\ \A r \in Roles : r \in out <=> Did(Log, "read", r)
        /\ \A a \in Aggressors : Did(Log, "limit", a) => cpu_max[a] = Limit(program, condition, a)
        /\ \A a \in Aggressors : Did(Log, "build", a) => built = condition

\* Between the conditions and at the end.
Quiet ==
    /\ phase \in {"prepare", "cgroups", "loop"} => \A r \in Roles : Absent(worker[r])
    /\ phase \in {"undo", "exit"} => \A r \in Roles : worker[r].state = "none" /\ ~worker[r].fd
    /\ phase \in {"prepare", "cgroups"} => todo = Conditions(program)
    /\ phase = "loop" /\ todo # Conditions(program) => out = Used(program, condition)
    /\ phase = "exit" => dirs = {}

\* The order in which the clean-up goes through the workers.
Order == <<"victim">> \o Candidates(program)

\* The clean-up has no child or pipe left behind it.
Cleaned ==
    phase = "fail" => \A i \in 1..Len(Order) : i < step => worker[Order[i]].state = "none" /\ ~worker[Order[i]].fd

\* A pid is that of a child, or of one that died.
PidOk(w, r, dead) ==
    /\ w.state = "failed" => r \in dead
    /\ w.state # "none" => w.pid
    /\ w.state = "none" /\ w.pid => r \in dead
Pids == \A r \in Roles : PidOk(worker[r], r, died)

\* The cgroups are there as long as they are needed.
Groups == UsesCgroups(program) /\ phase \in {"loop", "run", "fail"} => {"run"} \cup Aggressors \subseteq dirs

\* A candidate that runs is where its limit is.
Placed ==
    UsesCgroups(program) => \A a \in Aggressors : worker[a].state = "running" =>
        worker[a].group = a /\ cpu_max[a] = Limit(program, condition, a)

OracleIndInv ==
    /\ Types /\ Running /\ Quiet /\ Cleaned /\ Pids /\ Groups /\ Placed
    /\ ChainOfCondition /\ StrayOnlyAfterDeath

-----------------------------------------------------------------------------
(* The calls made so far.                                                  *)

\* Calls L may be followed by call o for worker x: the order of Ready.
Allowed(p, U, L, o, x) ==
    /\ o \in {"limit", "move"} => UsesCgroups(p) /\ x # "victim"
    /\ o = "build" => p = "sweep" /\ L = {}
    /\ o = "spawn" /\ p = "sweep" /\ x # "victim" => Did(L, "build", x)
    /\ o = "stopped" => Did(L, "spawn", x)
    /\ o = "move" => Did(L, "stopped", x)
    /\ o = "cont" =>
         /\ Did(L, "stopped", x)
         /\ UsesCgroups(p) /\ x # "victim" => Did(L, "limit", x) /\ Did(L, "move", x)
         /\ x = "victim" => \A a \in U \ {"victim"} : Did(L, "cont", a)
    /\ o = "wait" => Did(L, "cont", x) /\ (x # "victim" => Did(L, "wait", "victim"))
    /\ o = "read" => Did(L, "wait", x)

\* What follows from a call having been made.
Closed(p, U, L) ==
    \A r :
        /\ \A op : Did(L, op, r) => op \in Ops /\ r \in U
        /\ Did(L, "spawn", r) /\ p = "sweep" /\ r # "victim" => Did(L, "build", r)
        /\ Did(L, "stopped", r) => Did(L, "spawn", r)
        /\ Did(L, "move", r) => Did(L, "stopped", r) /\ r # "victim"
        /\ Did(L, "cont", r) => Did(L, "stopped", r)
        /\ Did(L, "cont", r) /\ UsesCgroups(p) /\ r # "victim" => Did(L, "limit", r) /\ Did(L, "move", r)
        /\ Did(L, "cont", "victim") /\ r \in U \ {"victim"} => Did(L, "cont", r)
        /\ Did(L, "wait", r) => Did(L, "cont", r) /\ Did(L, "wait", "victim")
        /\ Did(L, "read", r) => Did(L, "wait", r)

\* The workers of a condition are among the roles.
LEMMA UsedRoles ==
  ASSUME Types
  PROVE  /\ "victim" \in Roles /\ Used(program, condition) \subseteq Roles
         /\ Aggressors = Range(Candidates(program)) /\ Aggressors = Roles \ {"victim"}
         /\ condition # "none" => Used(program, condition) = Roles
<1>1. program \in Programs
  BY DEF Types
<1>2. Aggressors = Range(Candidates(program))
  BY <1>1 DEF Aggressors, AggressorsOf
<1>3. "victim" \notin Range(Candidates(program))
  BY <1>1, CandidatesDistinct, Roster
<1> QED BY <1>2, <1>3 DEF Roles, Used

\* The calls of the condition that is being run.
LEMMA StepsInOrder ==
  ASSUME Types
  PROVE  InOrder(program, Steps, Used(program, condition))
BY ScriptsInOrder DEF Types, Steps

\* The next call.
LEMMA NextCall ==
  ASSUME Types, NEW o, At(o)
  PROVE  /\ phase = "run" /\ step \in 1..Len(Steps) /\ Len(Steps) \in Nat
         /\ o \in Ops /\ Who \in Used(program, condition) /\ Who \in Roles
         /\ Current = Step(o, Who) /\ Current \notin Log
<1> DEFINE s == Steps
           U == Used(program, condition)
<1>1. InOrder(program, s, U)
  BY StepsInOrder
<1>2. phase = "run" /\ step <= Len(s) /\ Current.op = o /\ Current = s[step]
  BY DEF At, Current
<1>3. Len(s) \in Nat /\ \A k \in 1..Len(s) : s[k] \in [op : Ops, who : U]
  BY <1>1 DEF InOrder
<1>4. \A j, k \in 1..Len(s) : s[j] = s[k] => j = k
  BY <1>1 DEF InOrder
<1>5. step \in 1..Len(s)
  BY <1>2, <1>3 DEF Types
<1>6. Current \in [op : Ops, who : U]
  BY <1>2, <1>3, <1>5
<1>7. o \in Ops /\ Who \in U /\ Current = Step(o, Who)
  BY <1>2, <1>6 DEF Who, Step
<1>8. Current \notin Log
  <2> SUFFICES ASSUME NEW j \in 1..(step - 1), Current = s[j]
               PROVE  FALSE
    BY DEF Log
  <2>1. j \in 1..Len(s) /\ j # step
    BY <1>3, <1>5
  <2> QED BY <1>2, <1>4, <1>5, <2>1
<1> QED BY <1>2, <1>3, <1>5, <1>7, <1>8, UsedRoles

\* What has been called before the k-th call, k at most the next.
LEMMA HasDid ==
  ASSUME NEW k \in Int, NEW op, NEW r, step \in Int, k <= step, Has(Steps, k, op, r)
  PROVE  Did(Log, op, r)
<1>1. PICK j \in 1..(k - 1) : Steps[j] = Step(op, r)
  BY DEF Has
<1>2. j \in 1..(step - 1)
  BY <1>1
<1> QED BY <1>1, <1>2 DEF Did, Log

\* The next call comes after those it builds on.
LEMMA NextAllowed ==
  ASSUME Types, NEW o, At(o)
  PROVE  Allowed(program, Used(program, condition), Log, o, Who)
<1> DEFINE U == Used(program, condition)
<1>1. /\ step \in 1..Len(Steps) /\ step \in Int /\ Current = Step(o, Who) /\ Current = Steps[step]
  BY NextCall DEF Current
<1>2. Steps[step].op = o /\ Steps[step].who = Who
  BY <1>1 DEF Step
<1>3. Ready(program, Steps, U, step)
  BY <1>1, StepsInOrder DEF InOrder
<1>4. \A op, r : Has(Steps, step, op, r) => Did(Log, op, r)
  BY <1>1, HasDid
<1>5. step = 1 => Log = {}
  BY DEF Log
<1> HIDE DEF U
<1>6. /\ o \in {"limit", "move"} => UsesCgroups(program) /\ Who # "victim"
      /\ o = "build" => program = "sweep" /\ Log = {}
      /\ o = "spawn" /\ program = "sweep" /\ Who # "victim" => Did(Log, "build", Who)
      /\ o = "stopped" => Did(Log, "spawn", Who)
      /\ o = "move" => Did(Log, "stopped", Who)
  BY <1>2, <1>3, <1>4, <1>5 DEF Ready
<1>7. o = "cont" =>
         /\ Did(Log, "stopped", Who)
         /\ UsesCgroups(program) /\ Who # "victim" => Did(Log, "limit", Who) /\ Did(Log, "move", Who)
         /\ Who = "victim" => \A a \in U \ {"victim"} : Did(Log, "cont", a)
  BY <1>2, <1>3, <1>4 DEF Ready
<1>8. /\ o = "wait" => Did(Log, "cont", Who) /\ (Who # "victim" => Did(Log, "wait", "victim"))
      /\ o = "read" => Did(Log, "wait", Who)
  BY <1>2, <1>3, <1>4 DEF Ready
<1> QED BY <1>6, <1>7, <1>8 DEF Allowed, U

\* So did every call that has been made.
LEMMA LogClosed ==
  ASSUME Types, phase = "run"
  PROVE  Closed(program, Used(program, condition), Log)
<1> DEFINE s == Steps
           U == Used(program, condition)
<1>1. InOrder(program, s, U)
  BY StepsInOrder
<1>2. Len(s) \in Nat /\ (\A k \in 1..Len(s) : s[k] \in [op : Ops, who : U]) /\ \A k \in 1..Len(s) : Ready(program, s, U, k)
  BY <1>1 DEF InOrder
<1>3. step \in Int /\ step <= Len(s) + 1
  BY <1>2 DEF Types
<1>4. \A op, r : Step(op, r).op = op /\ Step(op, r).who = r
  BY DEF Step
<1>5. ASSUME NEW op, NEW r, Did(Log, op, r)
      PROVE  \E k \in 1..Len(s) : k <= step /\ s[k].op = op /\ s[k].who = r /\ op \in Ops /\ r \in U
                                  /\ Ready(program, s, U, k)
  <2>1. PICK k \in 1..(step - 1) : s[k] = Step(op, r)
    BY <1>5 DEF Did, Log
  <2>2. k \in 1..Len(s) /\ k <= step
    BY <1>2, <1>3
  <2>3. s[k].op = op /\ s[k].who = r
    BY <1>4, <2>1
  <2>4. op \in Ops /\ r \in U
    BY <1>2, <2>2, <2>3
  <2> QED BY <1>2, <2>2, <2>3, <2>4
<1>6. \A k \in 1..Len(s) : k <= step => \A op, r : Has(s, k, op, r) => Did(Log, op, r)
  BY <1>2, <1>3, HasDid
<1> HIDE DEF s, U
<1>7. ASSUME NEW r
      PROVE  /\ \A op : Did(Log, op, r) => op \in Ops /\ r \in U
             /\ Did(Log, "spawn", r) /\ program = "sweep" /\ r # "victim" => Did(Log, "build", r)
             /\ Did(Log, "stopped", r) => Did(Log, "spawn", r)
             /\ Did(Log, "move", r) => Did(Log, "stopped", r) /\ r # "victim"
  <2>1. \A op : Did(Log, op, r) => op \in Ops /\ r \in U
    BY <1>5
  <2>2. Did(Log, "spawn", r) /\ program = "sweep" /\ r # "victim" => Did(Log, "build", r)
    BY <1>5, <1>6 DEF Ready
  <2>3. Did(Log, "stopped", r) => Did(Log, "spawn", r)
    BY <1>5, <1>6 DEF Ready
  <2>4. Did(Log, "move", r) => Did(Log, "stopped", r) /\ r # "victim"
    BY <1>5, <1>6 DEF Ready
  <2> QED BY <2>1, <2>2, <2>3, <2>4
<1>8. ASSUME NEW r
      PROVE  /\ Did(Log, "cont", r) => Did(Log, "stopped", r)
             /\ Did(Log, "cont", r) /\ UsesCgroups(program) /\ r # "victim" =>
                  Did(Log, "limit", r) /\ Did(Log, "move", r)
             /\ Did(Log, "cont", "victim") /\ r \in U \ {"victim"} => Did(Log, "cont", r)
             /\ Did(Log, "read", r) => Did(Log, "wait", r)
  <2>1. Did(Log, "cont", r) => Did(Log, "stopped", r)
    BY <1>5, <1>6 DEF Ready
  <2>2. Did(Log, "cont", r) /\ UsesCgroups(program) /\ r # "victim" => Did(Log, "limit", r) /\ Did(Log, "move", r)
    BY <1>5, <1>6 DEF Ready
  <2>3. Did(Log, "cont", "victim") /\ r \in U \ {"victim"} => Did(Log, "cont", r)
    BY <1>5, <1>6 DEF Ready
  <2>4. Did(Log, "read", r) => Did(Log, "wait", r)
    BY <1>5, <1>6 DEF Ready
  <2> QED BY <2>1, <2>2, <2>3, <2>4
<1>9. ASSUME NEW r
      PROVE  Did(Log, "wait", r) => Did(Log, "cont", r) /\ Did(Log, "wait", "victim")
  <2>1. Did(Log, "wait", r) => Did(Log, "cont", r) /\ (r # "victim" => Did(Log, "wait", "victim"))
    BY <1>5, <1>6 DEF Ready
  <2> QED BY <2>1
<1> QED BY <1>7, <1>8, <1>9 DEF Closed, U

\* The next call joins those made.
LEMMA LogNext ==
  ASSUME Types, NEW o, At(o), step' = step + 1, program' = program, condition' = condition
  PROVE  /\ \A op, r : Did(Log', op, r) <=> Did(Log, op, r) \/ (op = o /\ r = Who)
         /\ ~Did(Log, o, Who)
<1>1. /\ step \in 1..Len(Steps) /\ Len(Steps) \in Nat /\ Current = Step(o, Who) /\ Current \notin Log
      /\ Current = Steps[step]
  BY NextCall DEF Current
<1>2. Steps' = Steps
  BY DEF Steps
<1>3. \A j : j \in 1..(step' - 1) <=> j \in 1..(step - 1) \/ j = step
  BY <1>1
<1>4. Log' = Log \cup {Current}
  <2>1. Log' = {Steps[j] : j \in 1..(step' - 1)}
    BY <1>2 DEF Log
  <2> QED BY <1>1, <1>3, <2>1 DEF Log
<1>5. \A op, r : Step(op, r) = Step(o, Who) <=> op = o /\ r = Who
  BY DEF Step
<1> QED BY <1>1, <1>4, <1>5 DEF Did

-----------------------------------------------------------------------------
(* Next-state forms of the invariant.                                      *)

\* What is known of a worker depends on the calls made for it only.
LEMMA KnownSame ==
  ASSUME NEW L, NEW M, NEW w, NEW r, Known(L, w, r), \A op : Did(M, op, r) <=> Did(L, op, r)
  PROVE  Known(M, w, r)
<1>1. Progress(M, r) = Progress(L, r)
  BY DEF Progress
<1> QED BY <1>1 DEF Known

\* The roles and their records do not change.
LEMMA RolesNext ==
  ASSUME program' = program
  PROVE  Roles' = Roles /\ Aggressors' = Aggressors /\ Worker' = Worker /\ Order' = Order
BY DEF Roles, Aggressors, Worker, Order, States

\* The types, from those of the new values.
LEMMA TypesNext ==
  ASSUME Types, program' = program, condition' \in Conditions(program), todo' \subseteq Conditions(program),
         phase' \in {"prepare", "cgroups", "loop", "run", "fail", "undo", "exit"},
         phase' \in {"run", "fail"} => condition' \notin todo',
         step' \in 1..Len(Steps') + 6, phase' = "run" => step' <= Len(Steps') + 1,
         phase' = "fail" => step' <= Len(Candidates(program)) + 2,
         worker' \in [Roles -> Worker], out' \subseteq Roles,
         cpu_max' = [a \in Aggressors |-> cpu_max'[a]], dirs' \subseteq {"run"} \cup Aggressors,
         rc' \in {"none", "success", "failure"}
  PROVE  Types'
<1>1. Roles' = Roles /\ Aggressors' = Aggressors /\ Worker' = Worker
  BY RolesNext
<1>2. worker' \in [Roles' -> Worker'] /\ out' \subseteq Roles' /\ dirs' \subseteq {"run"} \cup Aggressors'
  BY <1>1
<1>3. cpu_max' = [a \in Aggressors' |-> cpu_max'[a]]
  BY <1>1
<1> QED BY <1>2, <1>3 DEF Types

\* The aggressor of the sweep is its only candidate.
LEMMA SweepRoles ==
  ASSUME Types, program = "sweep"
  PROVE  Aggressors = {"aggressor"} /\ "aggressor" \in Roles
<1>1. Candidates(program) = <<"aggressor">>
  BY CandidatesDistinct DEF Types, UsesCgroups
<1>2. Range(<<"aggressor">>) = {"aggressor"}
  BY DEF Range
<1> QED BY <1>1, <1>2, UsedRoles

\* A step of run_condition, made or failed, that touches one worker.
LEMMA RunStep ==
  ASSUME OracleIndInv, NEW o, At(o), UNCHANGED <<program, period, todo, condition, dirs, rc, died, stray>>,
         \/ phase' = "run" /\ step' = step + 1
         \/ phase' = "fail" /\ step' = 1,
         NEW w \in Worker, worker' = [worker EXCEPT ![Who] = w], PidOk(w, Who, died),
         phase' = "run" => Known(Log', w, Who),
         w.state = "running" /\ UsesCgroups(program) /\ Who # "victim" =>
            w.group = Who /\ cpu_max'[Who] = Limit(program, condition, Who),
         cpu_max' = [a \in Aggressors |-> cpu_max'[a]], \A a \in Aggressors : a # Who => cpu_max'[a] = cpu_max[a],
         phase' = "run" /\ Who \in Aggressors /\ (Did(Log, "limit", Who) \/ o = "limit") =>
            cpu_max'[Who] = Limit(program, condition, Who),
         built' \in {built, condition}, phase' = "run" /\ o = "build" => built' = condition,
         program = "sweep" /\ Who = "aggressor" /\ w.state # "none" => built' = condition,
         out' \subseteq Roles, phase' = "run" => \A r \in Roles : r \in out' <=> r \in out \/ (o = "read" /\ r = Who)
  PROVE  OracleIndInv'
<1>1. /\ Types /\ Running /\ Quiet /\ Cleaned /\ Pids /\ Groups /\ Placed
      /\ ChainOfCondition /\ StrayOnlyAfterDeath
  BY DEF OracleIndInv
<1>2. /\ phase = "run" /\ step \in 1..Len(Steps) /\ Len(Steps) \in Nat /\ Who \in Roles
  BY <1>1, NextCall
<1>3. Roles' = Roles /\ Aggressors' = Aggressors /\ Worker' = Worker /\ Order' = Order /\ Steps' = Steps
  BY RolesNext DEF Steps
<1>4. /\ worker' \in [Roles -> Worker] /\ worker'[Who] = w
      /\ \A r \in Roles : r # Who => worker'[r] = worker[r]
  <2>1. worker \in [Roles -> Worker]
    BY <1>1 DEF Types
  <2> HIDE DEF Worker, Roles, Who
  <2> QED BY <1>2, <2>1
<1>5. Aggressors = Roles \ {"victim"}
  BY <1>1, UsedRoles
<1>14. \A a : Limit(program, condition, a)' = Limit(program, condition, a)
  BY DEF Limit
<1>6. Types'
  <2>1. step' \in 1..Len(Steps') + 6 /\ (phase' = "run" => step' <= Len(Steps') + 1)
    BY <1>2, <1>3
  <2>2. Len(Candidates(program)) \in Nat
    BY <1>1, CandidatesDistinct DEF Types, Distinct
  <2>3. phase' = "fail" => step' <= Len(Candidates(program)) + 2
    BY <1>2, <2>2
  <2>4. /\ condition' \in Conditions(program) /\ todo' \subseteq Conditions(program) /\ condition' \notin todo'
        /\ dirs' \subseteq {"run"} \cup Aggressors /\ rc' \in {"none", "success", "failure"}
    BY <1>1, <1>2 DEF Types
  <2> QED BY <1>1, <1>4, <2>1, <2>3, <2>4, TypesNext
<1>7. Running'
  <2> SUFFICES ASSUME phase' = "run"
               PROVE  /\ \A r \in Roles : Known(Log', worker'[r], r)
                      /\ \A r \in Roles : r \in out' <=> Did(Log', "read", r)
                      /\ \A a \in Aggressors : Did(Log', "limit", a) => cpu_max'[a] = Limit(program, condition, a)'
                      /\ \A a \in Aggressors : Did(Log', "build", a) => built' = condition'
    BY <1>3 DEF Running
  <2>1. step' = step + 1
    OBVIOUS
  <2>2. \A op, r : Did(Log', op, r) <=> Did(Log, op, r) \/ (op = o /\ r = Who)
    BY <1>1, <2>1, LogNext
  <2>3. /\ \A r \in Roles : Known(Log, worker[r], r)
        /\ \A r \in Roles : r \in out <=> Did(Log, "read", r)
        /\ \A a \in Aggressors : Did(Log, "limit", a) => cpu_max[a] = Limit(program, condition, a)
        /\ \A a \in Aggressors : Did(Log, "build", a) => built = condition
    BY <1>1, <1>2 DEF Running
  <2>4. ASSUME NEW r \in Roles
        PROVE  Known(Log', worker'[r], r)
    <3>1. CASE r = Who
      BY <1>4, <3>1
    <3>2. CASE r # Who
      <4>1. Known(Log, worker'[r], r) /\ \A op : Did(Log', op, r) <=> Did(Log, op, r)
        BY <1>4, <2>2, <2>3, <3>2
      <4> QED BY <4>1, KnownSame
    <3> QED BY <3>1, <3>2
  <2>5. \A r \in Roles : r \in out' <=> Did(Log', "read", r)
    BY <2>2, <2>3
  <2>7. \A a \in Aggressors : Did(Log', "limit", a) => cpu_max'[a] = Limit(program, condition, a)
    BY <2>2, <2>3
  <2>8. \A a \in Aggressors : Did(Log', "build", a) => built' = condition'
    BY <2>2, <2>3
  <2> QED BY <1>14, <2>4, <2>5, <2>7, <2>8
<1>8. Quiet' /\ Cleaned'
  <2>1. \A i \in 1..Len(Order) : ~(i < 1)
    OBVIOUS
  <2> QED BY <1>3, <2>1 DEF Quiet, Cleaned
<1>9. Pids'
  BY <1>1, <1>3, <1>4 DEF Pids
<1>10. Groups'
  BY <1>1, <1>2, <1>3 DEF Groups
<1>11. Placed'
  BY <1>1, <1>3, <1>4, <1>5, <1>14 DEF Placed
<1>12. ChainOfCondition'
  <2> SUFFICES ASSUME program = "sweep", worker'["aggressor"].state # "none"
               PROVE  built' = condition
    BY DEF ChainOfCondition, Child
  <2>1. "aggressor" \in Roles
    BY <1>1, SweepRoles
  <2> QED BY <1>1, <1>4, <2>1 DEF ChainOfCondition, Child
<1>13. StrayOnlyAfterDeath'
  BY <1>1 DEF StrayOnlyAfterDeath
<1> QED BY <1>6, <1>7, <1>8, <1>9, <1>10, <1>11, <1>12, <1>13 DEF OracleIndInv

-----------------------------------------------------------------------------
(* The steps of run_condition.                                             *)

\* What is known when call o is about to be made for worker Who.
LEMMA BeforeCall ==
  ASSUME OracleIndInv, NEW o, At(o)
  PROVE  /\ Types /\ phase = "run" /\ Who \in Roles /\ Who \in Used(program, condition)
         /\ worker \in [Roles -> Worker] /\ worker[Who] \in Worker
         /\ worker = [worker EXCEPT ![Who] = worker[Who]]
         /\ Known(Log, worker[Who], Who) /\ PidOk(worker[Who], Who, died)
         /\ Closed(program, Used(program, condition), Log)
         /\ Allowed(program, Used(program, condition), Log, o, Who) /\ ~Did(Log, o, Who)
         /\ cpu_max = [a \in Aggressors |-> cpu_max[a]] /\ out \subseteq Roles
         /\ Who \in Aggressors <=> Who # "victim"
<1>1. /\ Types /\ Running /\ Pids
  BY DEF OracleIndInv
<1>2. phase = "run" /\ Who \in Roles /\ Who \in Used(program, condition) /\ Current = Step(o, Who) /\ Current \notin Log
  BY <1>1, NextCall
<1>3. worker \in [Roles -> Worker] /\ cpu_max = [a \in Aggressors |-> cpu_max[a]] /\ out \subseteq Roles
  BY <1>1 DEF Types
<1> HIDE DEF Worker, Roles, Who
<1>4. worker[Who] \in Worker /\ worker = [worker EXCEPT ![Who] = worker[Who]]
  BY <1>2, <1>3
<1>5. Known(Log, worker[Who], Who) /\ PidOk(worker[Who], Who, died)
  BY <1>1, <1>2 DEF Running, Pids
<1>6. ~Did(Log, o, Who)
  BY <1>2 DEF Did
<1>7. Aggressors = Roles \ {"victim"}
  BY <1>1, UsedRoles
<1> QED BY <1>1, <1>2, <1>3, <1>4, <1>5, <1>6, <1>7, NextAllowed, LogClosed

\* What is known of the limits, the chain and the results.
LEMMA BeforeCallRest ==
  ASSUME OracleIndInv, NEW o, At(o)
  PROVE  /\ Who \in Aggressors /\ Did(Log, "limit", Who) => cpu_max[Who] = Limit(program, condition, Who)
         /\ Who \in Aggressors /\ Did(Log, "build", Who) => built = condition
         /\ program = "sweep" /\ Who = "aggressor" /\ worker[Who].state # "none" => built = condition
         /\ worker[Who].state = "running" /\ UsesCgroups(program) /\ Who # "victim" =>
              worker[Who].group = Who /\ cpu_max[Who] = Limit(program, condition, Who)
<1>1. phase = "run" /\ (Who \in Aggressors <=> Who # "victim")
  BY BeforeCall
<1> QED BY <1>1 DEF OracleIndInv, Running, ChainOfCondition, Child, Placed

\* A step that changes nothing but its worker.
LEMMA WorkerStep ==
  ASSUME OracleIndInv, NEW o, At(o), o \notin {"limit", "build", "read"},
         UNCHANGED <<program, period, todo, condition, cpu_max, dirs, built, out, rc, died, stray>>,
         \/ phase' = "run" /\ step' = step + 1
         \/ phase' = "fail" /\ step' = 1,
         NEW w \in Worker, worker' = [worker EXCEPT ![Who] = w], PidOk(w, Who, died),
         phase' = "run" => Known(Log', w, Who),
         w.state = "running" /\ UsesCgroups(program) /\ Who # "victim" =>
            w.group = Who /\ cpu_max[Who] = Limit(program, condition, Who),
         program = "sweep" /\ Who = "aggressor" /\ w.state # "none" => built = condition
  PROVE  OracleIndInv'
<1>1. cpu_max' = [a \in Aggressors |-> cpu_max'[a]] /\ \A a \in Aggressors : a # Who => cpu_max'[a] = cpu_max[a]
  BY BeforeCall
<1>2. phase' = "run" /\ Who \in Aggressors /\ (Did(Log, "limit", Who) \/ o = "limit") =>
         cpu_max'[Who] = Limit(program, condition, Who)
  BY BeforeCallRest
<1>3. /\ built' \in {built, condition} /\ (phase' = "run" /\ o = "build" => built' = condition)
      /\ program = "sweep" /\ Who = "aggressor" /\ w.state # "none" => built' = condition
  OBVIOUS
<1>4. out' \subseteq Roles /\ (phase' = "run" => \A r \in Roles : r \in out' <=> r \in out \/ (o = "read" /\ r = Who))
  BY BeforeCall
<1>5. w.state = "running" /\ UsesCgroups(program) /\ Who # "victim" =>
         w.group = Who /\ cpu_max'[Who] = Limit(program, condition, Who)
  OBVIOUS
<1>6. UNCHANGED <<program, period, todo, condition, dirs, rc, died, stray>>
  OBVIOUS
<1> HIDE DEF Who, Worker
<1> QED BY <1>1, <1>2, <1>3, <1>4, <1>5, <1>6, RunStep

\* A call that fails leaves everything but the program counter.
LEMMA CallFails ==
  ASSUME OracleIndInv, NEW o, At(o), Fail,
         UNCHANGED <<program, period, todo, condition, worker, cpu_max, dirs, built, out, rc, died, stray>>
  PROVE  OracleIndInv'
<1>1. phase' = "fail" /\ step' = 1 /\ phase' # "run"
  BY DEF Fail
<1>2. worker[Who] \in Worker /\ worker' = [worker EXCEPT ![Who] = worker[Who]] /\ PidOk(worker[Who], Who, died)
  BY BeforeCall
<1>3. cpu_max' = [a \in Aggressors |-> cpu_max'[a]] /\ out' \subseteq Roles
  BY BeforeCall
<1> HIDE DEF Who, Worker
<1> QED BY <1>1, <1>2, <1>3, BeforeCallRest, RunStep

\* cpu.max is written before any candidate has been started.
LEMMA LimitKeeps ==
  ASSUME OracleIndInv, cgroup_set_cpu_max
  PROVE  OracleIndInv'
<1>1. /\ At("limit")
      /\ UNCHANGED <<program, period, todo, condition, worker, dirs, built, out, rc, died, stray>>
  BY DEF cgroup_set_cpu_max
<1>2. CASE cpu_max' = [cpu_max EXCEPT ![Who] = Limit(program, condition, Who)] /\ Done
  <2>1. phase' = "run" /\ step' = step + 1
    BY <1>1, <1>2, BeforeCall DEF Done
  <2>2. /\ Who \in Roles /\ worker[Who] \in Worker /\ worker' = [worker EXCEPT ![Who] = worker[Who]]
        /\ PidOk(worker[Who], Who, died) /\ out' \subseteq Roles
    BY <1>1, BeforeCall
  <2>3. Closed(program, Used(program, condition), Log) /\ ~Did(Log, "limit", Who)
        /\ Allowed(program, Used(program, condition), Log, "limit", Who) /\ Known(Log, worker[Who], Who)
    BY <1>1, BeforeCall
  <2>4. UsesCgroups(program) /\ Who # "victim" /\ Who \in Aggressors
    BY <1>1, <2>3, BeforeCall DEF Allowed
  <2>5. cpu_max = [a \in Aggressors |-> cpu_max[a]]
    BY <1>1, BeforeCall
  <2>6. \A op, r : Did(Log', op, r) <=> Did(Log, op, r) \/ (op = "limit" /\ r = Who)
    BY <1>1, <2>1, BeforeCall, LogNext
  <2> HIDE DEF Who, Worker
  <2>7. /\ cpu_max' = [a \in Aggressors |-> cpu_max'[a]] /\ cpu_max'[Who] = Limit(program, condition, Who)
        /\ \A a \in Aggressors : a # Who => cpu_max'[a] = cpu_max[a]
    BY <1>2, <2>4, <2>5
  <2>8. Known(Log', worker[Who], Who)
    <3>1. \A op : op # "limit" => (Did(Log', op, Who) <=> Did(Log, op, Who))
      BY <2>6
    <3>2. Progress(Log', Who) = Progress(Log, Who)
      BY <3>1 DEF Progress
    <3> QED BY <2>3, <3>1, <3>2 DEF Known
  <2>9. worker[Who].state # "running"
    BY <2>3, <2>4 DEF Known, Closed, Progress, Absent
  <2> DEFINE o == "limit"
  <2> HIDE DEF o
  <2>10. /\ built' \in {built, condition} /\ (phase' = "run" /\ o = "build" => built' = condition)
         /\ program = "sweep" /\ Who = "aggressor" /\ worker[Who].state # "none" => built' = condition
    BY <1>1, BeforeCallRest DEF o
  <2>11. phase' = "run" => \A r \in Roles : r \in out' <=> r \in out \/ (o = "read" /\ r = Who)
    BY <1>1 DEF o
  <2>12. phase' = "run" /\ Who \in Aggressors /\ (Did(Log, "limit", Who) \/ o = "limit") =>
            cpu_max'[Who] = Limit(program, condition, Who)
    BY <2>7
  <2>13. At(o) /\ UNCHANGED <<program, period, todo, condition, dirs, rc, died, stray>>
    BY <1>1 DEF o
  <2> QED BY <2>1, <2>2, <2>7, <2>8, <2>9, <2>10, <2>11, <2>12, <2>13, RunStep
<1>3. CASE Fail /\ UNCHANGED cpu_max
  BY <1>1, <1>3, CallFails
<1> QED BY <1>2, <1>3 DEF cgroup_set_cpu_max

\* A new child has no past: its role had no child, pipe or result.
LEMMA SpawnKeeps ==
  ASSUME OracleIndInv, spawn
  PROVE  OracleIndInv'
<1> DEFINE w == [NoWorker EXCEPT !.state = "starting", !.pid = TRUE, !.fd = TRUE]
<1>1. /\ At("spawn")
      /\ UNCHANGED <<program, period, todo, condition, cpu_max, dirs, built, out, rc, died, stray>>
  BY DEF spawn, kernelVars
<1>2. CASE worker' = [worker EXCEPT ![Who] = w] /\ Done
  <2>1. phase' = "run" /\ step' = step + 1
    BY <1>1, <1>2, BeforeCall DEF Done
  <2>2. /\ Closed(program, Used(program, condition), Log) /\ ~Did(Log, "spawn", Who)
        /\ Allowed(program, Used(program, condition), Log, "spawn", Who) /\ Known(Log, worker[Who], Who)
        /\ (Who \in Aggressors <=> Who # "victim")
    BY <1>1, BeforeCall
  <2>4. \A op, r : Did(Log', op, r) <=> Did(Log, op, r) \/ (op = "spawn" /\ r = Who)
    BY <1>1, <2>1, BeforeCall, LogNext
  <2>5. /\ w \in Worker /\ w.state = "starting" /\ w.pid /\ w.fd /\ ~w.data /\ w.group = "root"
    BY DEF Worker, NoWorker, States
  <2> HIDE DEF w, Who, Worker
  <2>6. PidOk(w, Who, died)
    BY <2>5 DEF PidOk
  <2>7. /\ ~Did(Log, "stopped", Who) /\ ~Did(Log, "cont", Who) /\ ~Did(Log, "wait", Who)
        /\ ~Did(Log, "read", Who) /\ ~Did(Log, "move", Who)
    BY <2>2 DEF Closed
  <2>8. Known(Log', w, Who)
    <3>1. /\ Did(Log', "spawn", Who) /\ ~Did(Log', "stopped", Who) /\ ~Did(Log', "cont", Who)
          /\ ~Did(Log', "wait", Who) /\ ~Did(Log', "read", Who) /\ ~Did(Log', "move", Who)
      BY <2>4, <2>7
    <3> QED BY <2>5, <3>1 DEF Known, Progress, DataOk
  <2>9. program = "sweep" /\ Who = "aggressor" => built' = condition
    BY <1>1, <2>2, BeforeCallRest DEF Allowed
  <2> QED BY <1>1, <1>2, <2>1, <2>5, <2>6, <2>8, <2>9, WorkerStep
<1>3. CASE Fail /\ UNCHANGED worker
  BY <1>1, <1>3, CallFails
<1> QED BY <1>2, <1>3 DEF spawn

\* A child that ended instead of stopping leaves its pid to the clean-up.
LEMMA WaitStoppedKeeps ==
  ASSUME OracleIndInv, wait_until_stopped
  PROVE  OracleIndInv'
<1>1. /\ At("stopped")
      /\ UNCHANGED <<program, period, todo, condition, cpu_max, dirs, built, out, rc, died, stray>>
  BY DEF wait_until_stopped, kernelVars, history
<1>2. /\ Closed(program, Used(program, condition), Log) /\ ~Did(Log, "stopped", Who)
      /\ Allowed(program, Used(program, condition), Log, "stopped", Who) /\ Known(Log, worker[Who], Who)
      /\ worker[Who] \in Worker /\ PidOk(worker[Who], Who, died)
  BY <1>1, BeforeCall
<1>4. /\ Did(Log, "spawn", Who) /\ ~Did(Log, "cont", Who) /\ ~Did(Log, "wait", Who)
      /\ ~Did(Log, "read", Who) /\ ~Did(Log, "move", Who)
  BY <1>2 DEF Closed, Allowed
<1>5. worker[Who].pid /\ worker[Who].fd /\ worker[Who].state \in {"starting", "stopped", "failed"}
      /\ DataOk(worker[Who])
  BY <1>2, <1>4 DEF Known, Progress
<1>6. CASE worker[Who].state = "stopped" /\ Done /\ UNCHANGED worker
  <2>1. phase' = "run" /\ step' = step + 1 /\ worker' = [worker EXCEPT ![Who] = worker[Who]]
    BY <1>1, <1>6, BeforeCall DEF Done
  <2>2. \A op, r : Did(Log', op, r) <=> Did(Log, op, r) \/ (op = "stopped" /\ r = Who)
    BY <1>1, <2>1, BeforeCall, LogNext
  <2> HIDE DEF Who, Worker
  <2>3. Known(Log', worker[Who], Who)
    <3>1. /\ Did(Log', "spawn", Who) /\ Did(Log', "stopped", Who) /\ ~Did(Log', "cont", Who)
          /\ ~Did(Log', "wait", Who) /\ ~Did(Log', "read", Who) /\ ~Did(Log', "move", Who)
      BY <1>4, <2>2
    <3> QED BY <1>5, <1>6, <3>1 DEF Known, Progress
  <2> QED BY <1>1, <1>2, <2>1, <2>3, BeforeCallRest, WorkerStep
<1>7. CASE /\ worker[Who].state \in {"exited", "failed"}
           /\ worker' = [worker EXCEPT ![Who].state = "none"] /\ Fail
  <2> DEFINE w == [worker[Who] EXCEPT !.state = "none"]
  <2>1. phase' = "fail" /\ step' = 1 /\ worker' = [worker EXCEPT ![Who] = w]
    BY <1>7 DEF Fail
  <2>2. w \in Worker /\ w.state = "none"
    BY <1>2 DEF Worker, States
  <2>3. worker[Who].state = "failed"
    BY <1>5, <1>7
  <2> HIDE DEF w, Worker
  <2>4. PidOk(w, Who, died)
    BY <1>2, <2>2, <2>3 DEF PidOk
  <2> HIDE DEF Who
  <2> QED BY <1>1, <2>1, <2>2, <2>4, WorkerStep
<1> QED BY <1>6, <1>7 DEF wait_until_stopped

\* A candidate is moved while it is stopped.
LEMMA MoveKeeps ==
  ASSUME OracleIndInv, cgroup_move_pid
  PROVE  OracleIndInv'
<1>1. /\ At("move")
      /\ UNCHANGED <<program, period, todo, condition, cpu_max, dirs, built, out, rc, died, stray>>
  BY DEF cgroup_move_pid, kernelVars
<1>2. CASE worker' = [worker EXCEPT ![Who].group = Who] /\ Done
  <2> DEFINE w == [worker[Who] EXCEPT !.group = Who]
  <2>1. phase' = "run" /\ step' = step + 1 /\ worker' = [worker EXCEPT ![Who] = w]
    BY <1>1, <1>2, BeforeCall DEF Done
  <2>2. /\ Closed(program, Used(program, condition), Log) /\ ~Did(Log, "move", Who)
        /\ Allowed(program, Used(program, condition), Log, "move", Who) /\ Known(Log, worker[Who], Who)
        /\ worker[Who] \in Worker /\ PidOk(worker[Who], Who, died) /\ (Who \in Aggressors <=> Who # "victim")
    BY <1>1, BeforeCall
  <2>3. /\ Did(Log, "spawn", Who) /\ Did(Log, "stopped", Who) /\ ~Did(Log, "cont", Who)
        /\ ~Did(Log, "wait", Who) /\ ~Did(Log, "read", Who) /\ Who # "victim" /\ UsesCgroups(program)
    BY <2>2 DEF Closed, Allowed
  <2>4. worker[Who].pid /\ worker[Who].fd /\ worker[Who].state \in {"stopped", "failed"} /\ DataOk(worker[Who])
    BY <2>2, <2>3 DEF Known, Progress
  <2>5. /\ w \in Worker /\ w.state = worker[Who].state /\ w.pid /\ w.fd /\ DataOk(w) /\ w.group = Who
    BY <2>2, <2>3, <2>4 DEF Worker, DataOk
  <2>6. \A op, r : Did(Log', op, r) <=> Did(Log, op, r) \/ (op = "move" /\ r = Who)
    BY <1>1, <2>1, BeforeCall, LogNext
  <2> HIDE DEF w, Who, Worker
  <2>7. PidOk(w, Who, died)
    BY <2>2, <2>4, <2>5 DEF PidOk
  <2>8. Known(Log', w, Who)
    <3>1. /\ Did(Log', "spawn", Who) /\ Did(Log', "stopped", Who) /\ ~Did(Log', "cont", Who)
          /\ ~Did(Log', "wait", Who) /\ ~Did(Log', "read", Who)
      BY <2>3, <2>6
    <3> QED BY <2>4, <2>5, <3>1 DEF Known, Progress
  <2>9. w.state # "running" /\ (program = "sweep" => ~UsesCgroups(program))
    BY <2>4, <2>5 DEF UsesCgroups
  <2> QED BY <1>1, <2>1, <2>3, <2>5, <2>7, <2>8, <2>9, WorkerStep
<1>3. CASE Fail /\ UNCHANGED worker
  BY <1>1, <1>3, CallFails
<1> QED BY <1>2, <1>3 DEF cgroup_move_pid

\* What is let go is placed, and its limit written.
LEMMA ContinueKeeps ==
  ASSUME OracleIndInv, Continue
  PROVE  OracleIndInv'
<1> DEFINE w == [worker[Who] EXCEPT !.state = IF @ = "stopped" THEN "running" ELSE @]
<1>1. /\ At("cont")
      /\ UNCHANGED <<program, period, todo, condition, cpu_max, dirs, built, out, rc, died, stray>>
      /\ worker' = [worker EXCEPT ![Who] = w]
  BY DEF Continue, kernelVars, history
<1>2. phase' = "run" /\ step' = step + 1
  BY <1>1, BeforeCall DEF Continue, Done
<1>3. /\ Closed(program, Used(program, condition), Log) /\ ~Did(Log, "cont", Who)
      /\ Allowed(program, Used(program, condition), Log, "cont", Who) /\ Known(Log, worker[Who], Who)
      /\ worker[Who] \in Worker /\ PidOk(worker[Who], Who, died) /\ (Who \in Aggressors <=> Who # "victim")
  BY <1>1, BeforeCall
<1>4. /\ Did(Log, "spawn", Who) /\ Did(Log, "stopped", Who) /\ ~Did(Log, "wait", Who) /\ ~Did(Log, "read", Who)
      /\ UsesCgroups(program) /\ Who # "victim" => Did(Log, "limit", Who) /\ Did(Log, "move", Who)
  BY <1>3 DEF Closed, Allowed
<1>5. worker[Who].pid /\ worker[Who].fd /\ worker[Who].state \in {"stopped", "failed"} /\ DataOk(worker[Who])
  BY <1>3, <1>4 DEF Known, Progress
<1>6. /\ w \in Worker /\ w.pid /\ w.fd /\ DataOk(w) /\ w.group = worker[Who].group
      /\ w.state = IF worker[Who].state = "stopped" THEN "running" ELSE worker[Who].state
  BY <1>3, <1>5 DEF Worker, States, DataOk
<1>7. \A op, r : Did(Log', op, r) <=> Did(Log, op, r) \/ (op = "cont" /\ r = Who)
  BY <1>1, <1>2, BeforeCall, LogNext
<1> HIDE DEF w, Who, Worker
<1>8. w.state \in {"running", "failed"} /\ (w.state = "failed" => worker[Who].state = "failed")
  BY <1>5, <1>6
<1>9. PidOk(w, Who, died)
  BY <1>3, <1>6, <1>8 DEF PidOk
<1>10. Known(Log', w, Who)
  <2>1. /\ Did(Log', "spawn", Who) /\ Did(Log', "cont", Who) /\ ~Did(Log', "wait", Who) /\ ~Did(Log', "read", Who)
        /\ Did(Log', "move", Who) <=> Did(Log, "move", Who)
    BY <1>4, <1>7
  <2>2. Did(Log, "move", Who) => w.group = Who
    BY <1>3, <1>4, <1>6 DEF Known
  <2> QED BY <1>6, <1>8, <2>1, <2>2 DEF Known, Progress
<1>11. UsesCgroups(program) /\ Who # "victim" => w.group = Who /\ cpu_max[Who] = Limit(program, condition, Who)
  BY <1>1, <1>3, <1>4, <1>6, BeforeCallRest DEF Known
<1>12. program = "sweep" /\ Who = "aggressor" => built = condition
  BY <1>1, <1>5, BeforeCallRest
<1> QED BY <1>1, <1>2, <1>6, <1>9, <1>10, <1>11, <1>12, WorkerStep

\* A child that ended well has left its result in the pipe.
LEMMA WaitKeeps ==
  ASSUME OracleIndInv, wait_success
  PROVE  OracleIndInv'
<1>1. /\ At("wait")
      /\ UNCHANGED <<program, period, todo, condition, cpu_max, dirs, built, out, rc, died, stray>>
  BY DEF wait_success, kernelVars, history
<1>2. /\ Closed(program, Used(program, condition), Log) /\ ~Did(Log, "wait", Who)
      /\ Allowed(program, Used(program, condition), Log, "wait", Who) /\ Known(Log, worker[Who], Who)
      /\ worker[Who] \in Worker /\ PidOk(worker[Who], Who, died)
  BY <1>1, BeforeCall
<1>3. Did(Log, "spawn", Who) /\ Did(Log, "cont", Who) /\ ~Did(Log, "read", Who)
  BY <1>2 DEF Closed, Allowed
<1>4. worker[Who].pid /\ worker[Who].fd /\ (worker[Who].state = "exited" => worker[Who].data)
  BY <1>2, <1>3 DEF Known, DataOk
<1>5. CASE /\ worker[Who].state = "exited" /\ Done
           /\ worker' = [worker EXCEPT ![Who].state = "none", ![Who].pid = FALSE]
  <2> DEFINE w == [worker[Who] EXCEPT !.state = "none", !.pid = FALSE]
  <2>1. phase' = "run" /\ step' = step + 1
    BY <1>1, <1>5, BeforeCall DEF Done
  <2>2. worker' = [worker EXCEPT ![Who] = w]
    <3>1. worker \in [Roles -> Worker] /\ Who \in Roles
      BY <1>1, BeforeCall
    <3> QED BY <1>5, <3>1
  <2>3. w \in Worker /\ w.state = "none" /\ ~w.pid /\ w.fd /\ w.data
    BY <1>2, <1>4, <1>5 DEF Worker, States
  <2>4. \A op, r : Did(Log', op, r) <=> Did(Log, op, r) \/ (op = "wait" /\ r = Who)
    BY <1>1, <2>1, BeforeCall, LogNext
  <2> HIDE DEF w, Who, Worker
  <2>5. PidOk(w, Who, died)
    BY <2>3 DEF PidOk
  <2>6. Known(Log', w, Who)
    <3>1. Did(Log', "spawn", Who) /\ Did(Log', "wait", Who) /\ ~Did(Log', "read", Who)
      BY <1>3, <2>4
    <3> QED BY <2>3, <3>1 DEF Known
  <2> QED BY <1>1, <2>1, <2>2, <2>3, <2>5, <2>6, WorkerStep
<1>6. CASE /\ worker[Who].state = "failed" /\ Fail
           /\ worker' = [worker EXCEPT ![Who].state = "none"]
  <2> DEFINE w == [worker[Who] EXCEPT !.state = "none"]
  <2>1. phase' = "fail" /\ step' = 1 /\ worker' = [worker EXCEPT ![Who] = w]
    BY <1>6 DEF Fail
  <2>2. w \in Worker /\ w.state = "none"
    BY <1>2 DEF Worker, States
  <2> HIDE DEF w, Worker
  <2>3. PidOk(w, Who, died)
    BY <1>2, <1>6, <2>2 DEF PidOk
  <2> HIDE DEF Who
  <2> QED BY <1>1, <2>1, <2>2, <2>3, WorkerStep
<1> QED BY <1>5, <1>6 DEF wait_success

\* The result of a worker that was waited for is there.
LEMMA ReadKeeps ==
  ASSUME OracleIndInv, read_full
  PROVE  OracleIndInv'
<1>1. /\ At("read")
      /\ UNCHANGED <<program, period, todo, condition, cpu_max, dirs, built, rc, died, stray>>
  BY DEF read_full, kernelVars, history
<1>2. /\ Closed(program, Used(program, condition), Log) /\ ~Did(Log, "read", Who)
      /\ Allowed(program, Used(program, condition), Log, "read", Who) /\ Known(Log, worker[Who], Who)
      /\ worker[Who] \in Worker /\ PidOk(worker[Who], Who, died) /\ Who \in Roles /\ worker \in [Roles -> Worker]
      /\ cpu_max = [a \in Aggressors |-> cpu_max[a]] /\ out \subseteq Roles
  BY <1>1, BeforeCall
<1>3. CASE /\ worker[Who].data /\ Done /\ out' = out \cup {Who}
           /\ worker' = [worker EXCEPT ![Who].fd = FALSE, ![Who].data = FALSE]
  <2> DEFINE w == [worker[Who] EXCEPT !.fd = FALSE, !.data = FALSE]
             o == "read"
  <2>1. phase' = "run" /\ step' = step + 1
    BY <1>1, <1>3, BeforeCall DEF Done
  <2>2. worker' = [worker EXCEPT ![Who] = w]
    BY <1>2, <1>3
  <2>3. Did(Log, "spawn", Who) /\ Did(Log, "wait", Who)
    BY <1>2 DEF Closed, Allowed
  <2>4. worker[Who].state = "none" /\ ~worker[Who].pid
    BY <1>2, <2>3 DEF Known
  <2>5. w \in Worker /\ w.state = "none" /\ ~w.pid /\ ~w.fd /\ ~w.data
    BY <1>2, <2>4 DEF Worker
  <2>6. \A op, r : Did(Log', op, r) <=> Did(Log, op, r) \/ (op = "read" /\ r = Who)
    BY <1>1, <2>1, BeforeCall, LogNext
  <2> HIDE DEF w, Who, Worker, o
  <2>7. PidOk(w, Who, died)
    BY <2>5 DEF PidOk
  <2>8. Known(Log', w, Who)
    <3>1. Did(Log', "read", Who) /\ Did(Log', "wait", Who)
      BY <2>3, <2>6
    <3> QED BY <2>5, <3>1 DEF Known, Absent
  <2>9. /\ built' \in {built, condition} /\ (phase' = "run" /\ o = "build" => built' = condition)
    BY <1>1 DEF o
  <2>10. out' \subseteq Roles /\ (phase' = "run" => \A r \in Roles : r \in out' <=> r \in out \/ (o = "read" /\ r = Who))
    BY <1>2, <1>3 DEF o
  <2>11. phase' = "run" /\ Who \in Aggressors /\ (Did(Log, "limit", Who) \/ o = "limit") =>
            cpu_max'[Who] = Limit(program, condition, Who)
    BY <1>1, BeforeCallRest DEF o
  <2>12. At(o) /\ UNCHANGED <<program, period, todo, condition, dirs, rc, died, stray>>
    BY <1>1 DEF o
  <2>13. cpu_max' = [a \in Aggressors |-> cpu_max'[a]] /\ \A a \in Aggressors : a # Who => cpu_max'[a] = cpu_max[a]
    BY <1>1, <1>2
  <2>14. w.state # "running"
    BY <2>5
  <2> QED BY <2>1, <2>2, <2>5, <2>7, <2>8, <2>9, <2>10, <2>11, <2>12, <2>13, <2>14, RunStep
<1>4. CASE Fail /\ UNCHANGED <<worker, out>>
  BY <1>1, <1>4, CallFails
<1> QED BY <1>3, <1>4 DEF read_full

-----------------------------------------------------------------------------
(* Steps of main while there is no child.                                  *)

\* A step of main that leaves the workers alone when none of them is there.
LEMMA QuietStep ==
  ASSUME OracleIndInv, UNCHANGED <<program, todo, condition, step, worker, cpu_max, out, died, stray>>,
         \A r \in Roles : worker[r].state = "none" /\ ~worker[r].fd,
         phase' \in {"cgroups", "loop", "undo", "exit"},
         phase' \in {"cgroups", "loop"} => \A r \in Roles : Absent(worker[r]),
         phase' = "cgroups" => todo = Conditions(program),
         phase' = "loop" /\ todo # Conditions(program) => out = Used(program, condition),
         UsesCgroups(program) /\ phase' = "loop" => {"run"} \cup Aggressors \subseteq dirs',
         phase' = "exit" => dirs' = {}, dirs' \subseteq {"run"} \cup Aggressors,
         rc' \in {"none", "success", "failure"}
  PROVE  OracleIndInv'
<1>1. Types /\ Pids /\ StrayOnlyAfterDeath
  BY DEF OracleIndInv
<1>2. Roles' = Roles /\ Aggressors' = Aggressors /\ Steps' = Steps
  BY RolesNext DEF Steps
<1>3. phase' \notin {"run", "fail", "prepare"}
  OBVIOUS
<1>4. Types'
  <2>1. /\ condition' \in Conditions(program) /\ todo' \subseteq Conditions(program) /\ step' \in 1..Len(Steps') + 6
        /\ worker' \in [Roles -> Worker] /\ out' \subseteq Roles /\ cpu_max' = [a \in Aggressors |-> cpu_max'[a]]
    BY <1>1, <1>2 DEF Types
  <2>2. phase' \in {"prepare", "cgroups", "loop", "run", "fail", "undo", "exit"}
    OBVIOUS
  <2> QED BY <1>1, <1>3, <2>1, <2>2, TypesNext
<1>5. Running' /\ Cleaned'
  BY <1>3 DEF Running, Cleaned
<1>6. Quiet'
  <2>1. Used(program, condition)' = Used(program, condition) /\ Conditions(program)' = Conditions(program)
    BY DEF Used
  <2> QED BY <1>2, <1>3, <2>1 DEF Quiet
<1>7. Pids'
  BY <1>1, <1>2 DEF Pids
<1>8. Groups'
  BY <1>2, <1>3 DEF Groups
<1>9. Placed'
  <2>1. \A a \in Aggressors : worker[a].state # "running"
    BY DEF Roles
  <2> QED BY <1>2, <2>1 DEF Placed
<1>10. ChainOfCondition'
  <2>1. program = "sweep" => worker["aggressor"].state = "none"
    BY <1>1, SweepRoles
  <2> QED BY <2>1 DEF ChainOfCondition, Child
<1>11. StrayOnlyAfterDeath'
  BY <1>1 DEF StrayOnlyAfterDeath
<1> QED BY <1>4, <1>5, <1>6, <1>7, <1>8, <1>9, <1>10, <1>11 DEF OracleIndInv

\* The parts of the invariant that concern the quiet phases.
LEMMA QuietParts ==
  ASSUME OracleIndInv
  PROVE  /\ Types /\ Quiet /\ Groups /\ dirs \subseteq {"run"} \cup Aggressors /\ rc \in {"none", "success", "failure"}
         /\ phase \in {"prepare", "cgroups", "loop"} => \A r \in Roles : Absent(worker[r])
         /\ phase \in {"prepare", "cgroups", "loop", "undo", "exit"} =>
              \A r \in Roles : worker[r].state = "none" /\ ~worker[r].fd
         /\ phase \in {"prepare", "cgroups"} => todo = Conditions(program)
BY DEF OracleIndInv, Types, Quiet, Absent

\* The sweep builds its chain when no worker has been started.
LEMMA BuildKeeps ==
  ASSUME OracleIndInv, BuildLevel
  PROVE  OracleIndInv'
<1>1. /\ At("build")
      /\ UNCHANGED <<program, period, todo, condition, worker, cpu_max, dirs, out, rc, died, stray>>
  BY DEF BuildLevel, kernelVars
<1>2. /\ Closed(program, Used(program, condition), Log) /\ Known(Log, worker[Who], Who)
      /\ Allowed(program, Used(program, condition), Log, "build", Who)
      /\ worker[Who] \in Worker /\ PidOk(worker[Who], Who, died) /\ Who \in Roles
      /\ worker' = [worker EXCEPT ![Who] = worker[Who]]
      /\ cpu_max = [a \in Aggressors |-> cpu_max[a]] /\ out \subseteq Roles
  BY <1>1, BeforeCall
<1>3. program = "sweep" /\ Log = {} /\ ~UsesCgroups(program)
  BY <1>2 DEF Allowed, UsesCgroups
<1>4. \A r \in Roles : Absent(worker[r])
  <2>1. \A r \in Roles : Known(Log, worker[r], r)
    BY <1>1, BeforeCall DEF OracleIndInv, Running
  <2>2. \A r : ~Did(Log, "spawn", r)
    BY <1>3 DEF Did
  <2> QED BY <2>1, <2>2 DEF Known
<1>5. CASE built' = condition /\ Done
  <2> DEFINE o == "build"
  <2>1. phase' = "run" /\ step' = step + 1
    BY <1>1, <1>5, BeforeCall DEF Done
  <2>2. \A op, r : Did(Log', op, r) <=> Did(Log, op, r) \/ (op = "build" /\ r = Who)
    BY <1>1, <2>1, BeforeCall, LogNext
  <2> HIDE DEF Who, Worker, o
  <2>3. Absent(worker[Who]) /\ worker[Who].state = "none"
    BY <1>2, <1>4 DEF Absent
  <2>4. Known(Log', worker[Who], Who)
    <3>1. /\ ~Did(Log', "spawn", Who) /\ ~Did(Log', "wait", Who) /\ ~Did(Log', "move", Who)
      BY <1>3, <2>2 DEF Did
    <3> QED BY <2>3, <3>1 DEF Known
  <2>5. /\ built' \in {built, condition} /\ (phase' = "run" /\ o = "build" => built' = condition)
        /\ program = "sweep" /\ Who = "aggressor" /\ worker[Who].state # "none" => built' = condition
    BY <1>5 DEF o
  <2>6. out' \subseteq Roles /\ (phase' = "run" => \A r \in Roles : r \in out' <=> r \in out \/ (o = "read" /\ r = Who))
    BY <1>1, <1>2 DEF o
  <2>7. phase' = "run" /\ Who \in Aggressors /\ (Did(Log, "limit", Who) \/ o = "limit") =>
            cpu_max'[Who] = Limit(program, condition, Who)
    BY <1>3 DEF o, Did
  <2>8. At(o) /\ UNCHANGED <<program, period, todo, condition, dirs, rc, died, stray>>
    BY <1>1 DEF o
  <2>9. cpu_max' = [a \in Aggressors |-> cpu_max'[a]] /\ \A a \in Aggressors : a # Who => cpu_max'[a] = cpu_max[a]
    BY <1>1, <1>2
  <2>10. worker[Who].state # "running"
    BY <2>3
  <2> QED BY <1>2, <2>1, <2>4, <2>5, <2>6, <2>7, <2>8, <2>9, <2>10, RunStep
<1>6. CASE phase' = "undo" /\ UNCHANGED step
  <2>1. \A r \in Roles : worker[r].state = "none" /\ ~worker[r].fd
    BY <1>4 DEF Absent
  <2>2. dirs' \subseteq {"run"} \cup Aggressors /\ rc' \in {"none", "success", "failure"}
    BY <1>1, QuietParts
  <2> QED BY <1>1, <1>4, <1>6, <2>1, <2>2, QuietStep
<1> QED BY <1>5, <1>6 DEF BuildLevel

-----------------------------------------------------------------------------
(* The steps of the children.                                              *)

\* A child is there only while a condition is run or cleaned up.
LEMMA ChildIsKnown ==
  ASSUME OracleIndInv, NEW r \in Roles, Live(r)
  PROVE  /\ phase \in {"run", "fail"} /\ worker[r] \in Worker /\ worker[r].pid
         /\ phase = "run" => /\ Known(Log, worker[r], r) /\ Did(Log, "spawn", r) /\ ~Did(Log, "wait", r)
                             /\ ~Did(Log, "read", r) /\ worker[r].fd /\ ~worker[r].data
                             /\ worker[r].state \in Progress(Log, r)
<1>1. worker[r].state \in {"starting", "stopped", "running"}
  BY DEF Live
<1>2. Types /\ Running /\ Pids
  BY DEF OracleIndInv
<1>3. worker \in [Roles -> Worker] /\ phase \in {"prepare", "cgroups", "loop", "run", "fail", "undo", "exit"}
  BY <1>2 DEF Types
<1>4. phase \in {"run", "fail"}
  BY <1>1, <1>3, QuietParts
<1>5. worker[r].pid
  BY <1>1, <1>2 DEF Pids, PidOk
<1> HIDE DEF Worker, Roles
<1>6. worker[r] \in Worker
  BY <1>3
<1>7. ASSUME phase = "run"
      PROVE  /\ Known(Log, worker[r], r) /\ Did(Log, "spawn", r) /\ ~Did(Log, "wait", r) /\ ~Did(Log, "read", r)
             /\ worker[r].fd /\ ~worker[r].data /\ worker[r].state \in Progress(Log, r)
  <2>1. Known(Log, worker[r], r)
    BY <1>2, <1>7 DEF Running
  <2>2. Did(Log, "spawn", r) /\ ~Did(Log, "read", r)
    BY <1>1, <2>1 DEF Known, Absent
  <2>3. ~Did(Log, "wait", r)
    BY <1>1, <2>1, <2>2 DEF Known
  <2> QED BY <1>1, <2>1, <2>2, <2>3 DEF Known, DataOk
<1> QED BY <1>4, <1>5, <1>6, <1>7

\* A step of a child that goes on, ends or dies.
LEMMA ChildStep ==
  ASSUME OracleIndInv, NEW r \in Roles, Live(r), died \subseteq died',
         UNCHANGED <<program, period, phase, todo, condition, step, dirs, cpu_max, built, out, rc, stray>>,
         NEW w \in Worker, worker' = [worker EXCEPT ![r] = w],
         w.pid, w.state \notin {"none", "running"}, w.state = "failed" => r \in died',
         phase = "run" => Known(Log, w, r)
  PROVE  OracleIndInv'
<1>1. /\ Types /\ Running /\ Quiet /\ Cleaned /\ Pids /\ Groups /\ Placed
      /\ ChainOfCondition /\ StrayOnlyAfterDeath
  BY DEF OracleIndInv
<1>2. phase \in {"run", "fail"} /\ worker[r].state # "none"
  BY ChildIsKnown DEF Live
<1>3. Roles' = Roles /\ Aggressors' = Aggressors /\ Order' = Order /\ Steps' = Steps
  BY RolesNext DEF Steps
<1>4. Log' = Log
  BY <1>3 DEF Log
<1>5. worker' \in [Roles -> Worker] /\ worker'[r] = w /\ \A x \in Roles : x # r => worker'[x] = worker[x]
  <2>1. worker \in [Roles -> Worker]
    BY <1>1 DEF Types
  <2> HIDE DEF Worker, Roles
  <2> QED BY <2>1
<1>6. \A a : Limit(program, condition, a)' = Limit(program, condition, a)
  BY DEF Limit
<1>7. Types'
  <2>1. /\ condition' \in Conditions(program) /\ todo' \subseteq Conditions(program) /\ step' \in 1..Len(Steps') + 6
        /\ out' \subseteq Roles /\ cpu_max' = [a \in Aggressors |-> cpu_max'[a]]
        /\ phase' \in {"prepare", "cgroups", "loop", "run", "fail", "undo", "exit"}
        /\ dirs' \subseteq {"run"} \cup Aggressors /\ rc' \in {"none", "success", "failure"}
    BY <1>1, <1>3 DEF Types
  <2>2. /\ phase' \in {"run", "fail"} => condition' \notin todo'
        /\ phase' = "run" => step' <= Len(Steps') + 1
        /\ phase' = "fail" => step' <= Len(Candidates(program)) + 2
    BY <1>1, <1>3 DEF Types
  <2> QED BY <1>1, <1>5, <2>1, <2>2, TypesNext
<1>8. Running'
  <2>1. phase = "run" => \A x \in Roles : Known(Log, worker'[x], x)
    BY <1>1, <1>5 DEF Running
  <2> QED BY <1>1, <1>3, <1>4, <1>6, <2>1 DEF Running
<1>9. Quiet'
  BY <1>2 DEF Quiet
<1>10. Cleaned'
  <2> SUFFICES ASSUME phase = "fail", NEW i \in 1..Len(Order), i < step
               PROVE  worker'[Order[i]].state = "none" /\ ~worker'[Order[i]].fd
    BY <1>3 DEF Cleaned
  <2>1. worker[Order[i]].state = "none" /\ ~worker[Order[i]].fd
    BY <1>1 DEF Cleaned
  <2>2. Order[i] \in Roles
    <3>1. Distinct(Candidates(program)) /\ Roles = {"victim"} \cup Range(Candidates(program))
      BY <1>1, CandidatesDistinct, UsedRoles DEF Types, Roles
    <3>2. Lists(Order, Len(Candidates(program)) + 1, Roles)
      BY <3>1, Roster DEF Order
    <3> HIDE DEF Order
    <3> QED BY <3>2 DEF Lists
  <2> QED BY <1>2, <1>5, <2>1, <2>2
<1>11. Pids'
  BY <1>1, <1>3, <1>5 DEF Pids, PidOk
<1>12. Groups'
  BY <1>1, <1>3 DEF Groups
<1>13. Placed'
  <2>1. \A a \in Aggressors : a \in Roles
    BY DEF Roles
  <2> QED BY <1>1, <1>3, <1>5, <1>6, <2>1 DEF Placed
<1>14. ChainOfCondition'
  <2> SUFFICES ASSUME program = "sweep", worker'["aggressor"].state # "none"
               PROVE  built = condition
    BY DEF ChainOfCondition, Child
  <2>1. "aggressor" \in Roles
    BY <1>1, SweepRoles
  <2>2. worker["aggressor"].state # "none"
    BY <1>2, <1>5, <2>1
  <2> QED BY <1>1, <2>2 DEF ChainOfCondition, Child
<1>15. StrayOnlyAfterDeath'
  BY <1>1 DEF StrayOnlyAfterDeath
<1> QED BY <1>7, <1>8, <1>9, <1>10, <1>11, <1>12, <1>13, <1>14, <1>15 DEF OracleIndInv

\* A child stops only once.
LEMMA StopKeeps ==
  ASSUME OracleIndInv, NEW r \in Roles, Stop(r)
  PROVE  OracleIndInv'
<1> DEFINE w == [worker[r] EXCEPT !.state = "stopped"]
<1>1. /\ worker[r].state = "starting" /\ worker' = [worker EXCEPT ![r] = w] /\ Live(r)
      /\ UNCHANGED <<program, period, phase, todo, condition, step, dirs, cpu_max, built, out, rc, stray>>
      /\ died \subseteq died'
  BY DEF Stop, Live, kernelVars, history
<1>2. /\ worker[r] \in Worker /\ worker[r].pid
      /\ phase = "run" => /\ Known(Log, worker[r], r) /\ Did(Log, "spawn", r) /\ ~Did(Log, "wait", r)
                          /\ ~Did(Log, "read", r) /\ worker[r].fd /\ ~worker[r].data
                          /\ worker[r].state \in Progress(Log, r)
  BY <1>1, ChildIsKnown
<1>3. /\ w \in Worker /\ w.pid = worker[r].pid /\ w.fd = worker[r].fd /\ w.data = worker[r].data
      /\ w.group = worker[r].group /\ w.state = "stopped"
  BY <1>2 DEF Worker, States
<1> HIDE DEF w
<1>4. phase = "run" => Known(Log, w, r)
  <2>1. phase = "run" => w.state \in Progress(Log, r)
    BY <1>1, <1>2, <1>3 DEF Progress
  <2> QED BY <1>2, <1>3, <2>1 DEF Known, DataOk
<1> HIDE DEF Worker, Roles
<1> QED BY <1>1, <1>2, <1>3, <1>4, ChildStep

\* A child ends only after it was let go.
LEMMA FinishKeeps ==
  ASSUME OracleIndInv, NEW r \in Roles, Finish(r)
  PROVE  OracleIndInv'
<1> DEFINE w == [worker[r] EXCEPT !.state = "exited", !.data = TRUE]
<1>1. worker[r].state = "running" /\ Live(r)
      /\ UNCHANGED <<program, period, phase, todo, condition, step, dirs, cpu_max, built, out, rc, stray>>
      /\ died \subseteq died'
  BY DEF Finish, Live, kernelVars, history
<1>2. /\ worker[r] \in Worker /\ worker[r].pid
      /\ phase = "run" => /\ Known(Log, worker[r], r) /\ Did(Log, "spawn", r) /\ ~Did(Log, "wait", r)
                          /\ ~Did(Log, "read", r) /\ worker[r].fd /\ ~worker[r].data
                          /\ worker[r].state \in Progress(Log, r)
  BY <1>1, ChildIsKnown
<1>3. /\ w \in Worker /\ w.pid = worker[r].pid /\ w.fd = worker[r].fd /\ w.data
      /\ w.group = worker[r].group /\ w.state = "exited"
  BY <1>2 DEF Worker, States
<1>4. worker' = [worker EXCEPT ![r] = w]
  <2>1. worker \in [Roles -> Worker]
    BY DEF OracleIndInv, Types
  <2>2. worker' = [worker EXCEPT ![r].state = "exited", ![r].data = TRUE]
    BY DEF Finish
  <2> QED BY <2>1, <2>2
<1> HIDE DEF w
<1>5. phase = "run" => Known(Log, w, r)
  <2>1. phase = "run" => w.state \in Progress(Log, r)
    BY <1>1, <1>2, <1>3 DEF Progress
  <2> QED BY <1>2, <1>3, <2>1 DEF Known, DataOk
<1> HIDE DEF Worker, Roles
<1> QED BY <1>1, <1>2, <1>3, <1>4, <1>5, ChildStep

\* A child may die at any time before it has ended.
LEMMA DieKeeps ==
  ASSUME OracleIndInv, NEW r \in Roles, Die(r)
  PROVE  OracleIndInv'
<1>0. PICK sent \in {FALSE, worker[r].state = "running"} :
           worker' = [worker EXCEPT ![r].state = "failed", ![r].data = sent]
  BY DEF Die
<1> DEFINE w == [worker[r] EXCEPT !.state = "failed", !.data = sent]
<1>1. /\ Live(r)
      /\ UNCHANGED <<program, period, phase, todo, condition, step, dirs, cpu_max, built, out, rc, stray>>
      /\ died \subseteq died' /\ r \in died'
  BY DEF Die, kernelVars
<1>2. /\ worker[r] \in Worker /\ worker[r].pid
      /\ phase = "run" => /\ Known(Log, worker[r], r) /\ Did(Log, "spawn", r) /\ ~Did(Log, "wait", r)
                          /\ ~Did(Log, "read", r) /\ worker[r].fd /\ ~worker[r].data
                          /\ worker[r].state \in Progress(Log, r)
  BY <1>1, ChildIsKnown
<1>3. /\ w \in Worker /\ w.pid = worker[r].pid /\ w.fd = worker[r].fd
      /\ w.group = worker[r].group /\ w.state = "failed"
  <2>1. sent \in BOOLEAN
    BY <1>0
  <2> QED BY <1>2, <2>1 DEF Worker, States
<1>5. worker' = [worker EXCEPT ![r] = w]
  <2>1. worker \in [Roles -> Worker]
    BY DEF OracleIndInv, Types
  <2> QED BY <1>0, <2>1
<1> HIDE DEF w
<1>4. phase = "run" => Known(Log, w, r)
  <2>1. w.state \in Progress(Log, r)
    BY <1>3 DEF Progress
  <2> QED BY <1>2, <1>3, <2>1 DEF Known, DataOk
<1> HIDE DEF Worker, Roles
<1> QED BY <1>1, <1>2, <1>3, <1>4, <1>5, ChildStep

-----------------------------------------------------------------------------
(* The clean-up.                                                           *)

\* The clean-up goes through all workers, at most six of them.
LEMMA OrderIsRoles ==
  ASSUME Types
  PROVE  /\ Len(Candidates(program)) \in 0..5 /\ Len(Order) = Len(Candidates(program)) + 1
         /\ \A i \in 1..Len(Order) : Order[i] \in Roles
         /\ \A r \in Roles : \E i \in 1..Len(Order) : Order[i] = r
         /\ \A i, j \in 1..Len(Order) : Order[i] = Order[j] => i = j
<1>1. Distinct(Candidates(program)) /\ Roles = {"victim"} \cup Range(Candidates(program)) /\ program \in Programs
  BY CandidatesDistinct, UsedRoles DEF Types, Roles
<1>2. Lists(Order, Len(Candidates(program)) + 1, Roles)
  BY <1>1, Roster DEF Order
<1>3. Len(Candidates(program)) \in 0..5
  <2>1. program \in {"overlap", "sweep", "selective", "multi", "cpumax"}
    BY <1>1, OracleRunAssumption
  <2> QED BY <2>1 DEF Candidates, Levels, Selective!candidate_name
<1>4. Len(Order) = Len(Candidates(program)) + 1
  <2>1. Candidates(program) \in Seq(Roles)
    BY <1>1, Roster
  <2>2. <<"victim">> \in Seq(Roles) /\ Len(<<"victim">>) = 1
    BY DEF Roles
  <2> HIDE DEF Roles
  <2> QED BY <1>3, <2>1, <2>2 DEF Order
<1> HIDE DEF Order, Roles
<1> QED BY <1>2, <1>3, <1>4 DEF Lists

\* One round of the clean-up takes away one child and its pipe.
LEMMA CleanUpKeeps ==
  ASSUME OracleIndInv, CleanUp
  PROVE  OracleIndInv'
<1> DEFINE r == Order[step]
           w == IF worker[r].pid THEN NoWorker ELSE [worker[r] EXCEPT !.fd = FALSE]
<1>1. /\ Types /\ Running /\ Quiet /\ Cleaned /\ Pids /\ Groups /\ Placed
      /\ ChainOfCondition /\ StrayOnlyAfterDeath
  BY DEF OracleIndInv
<1>2. /\ phase = "fail" /\ step <= Len(Candidates(program)) + 1 /\ phase' = "fail" /\ step' = step + 1
      /\ stray' = stray \cup (IF worker[r].pid /\ ~Child(r) THEN {r} ELSE {})
      /\ worker' = [worker EXCEPT ![r] = w]
      /\ UNCHANGED <<program, period, phase, todo, condition, dirs, cpu_max, built, out, rc, died>>
  BY DEF CleanUp, Order, kernelVars
<1>3. /\ step \in 1..Len(Order) /\ r \in Roles /\ Len(Order) = Len(Candidates(program)) + 1
      /\ Len(Candidates(program)) \in 0..5
      /\ \A i \in 1..Len(Order) : Order[i] \in Roles
      /\ \A i \in 1..Len(Order) : Order[i] = r => i = step
  <2>1. step \in 1..Len(Order)
    <3>1. step \in Int /\ step >= 1
      <4>1. step \in 1..Len(Steps) + 6
        BY <1>1 DEF Types
      <4> QED BY <4>1
    <3> QED BY <1>1, <1>2, <3>1, OrderIsRoles
  <2> HIDE DEF Order
  <2> QED BY <1>1, <2>1, OrderIsRoles
<1>4. Roles' = Roles /\ Aggressors' = Aggressors /\ Order' = Order /\ Steps' = Steps
  BY <1>2, RolesNext DEF Steps
<1> HIDE DEF r
<1>5. worker \in [Roles -> Worker] /\ worker[r] \in Worker
  <2>1. worker \in [Roles -> Worker]
    BY <1>1 DEF Types
  <2> HIDE DEF Worker, Roles
  <2> QED BY <1>3, <2>1
<1>6. PidOk(worker[r], r, died)
  BY <1>1, <1>3 DEF Pids
<1>7. /\ w \in Worker /\ w.state = "none" /\ ~w.fd /\ ~w.pid
  <2>1. CASE worker[r].pid
    BY <2>1 DEF NoWorker, Worker, States
  <2>2. CASE ~worker[r].pid
    <3>1. worker[r].state = "none"
      BY <1>6, <2>2 DEF PidOk
    <3> QED BY <1>5, <2>2, <3>1 DEF Worker
  <2> QED BY <2>1, <2>2
<1> HIDE DEF w, Worker
<1>8. worker' \in [Roles -> Worker] /\ worker'[r] = w /\ \A x \in Roles : x # r => worker'[x] = worker[x]
  <2> HIDE DEF Roles
  <2> QED BY <1>2, <1>3, <1>5, <1>7
<1>9. \A a : Limit(program, condition, a)' = Limit(program, condition, a)
  BY <1>2 DEF Limit
<1>10. Types'
  <2>1. /\ condition' \in Conditions(program) /\ todo' \subseteq Conditions(program)
        /\ out' \subseteq Roles /\ cpu_max' = [a \in Aggressors |-> cpu_max'[a]]
        /\ phase' \in {"prepare", "cgroups", "loop", "run", "fail", "undo", "exit"}
        /\ dirs' \subseteq {"run"} \cup Aggressors /\ rc' \in {"none", "success", "failure"}
    BY <1>1, <1>2 DEF Types
  <2>2. condition' \notin todo'
    BY <1>1, <1>2 DEF Types
  <2>3. Len(Steps) \in Nat /\ 1 <= Len(Steps)
    BY <1>1, StepsInOrder DEF InOrder
  <2>4. step' \in 1..Len(Steps') + 6
    <3>1. step' \in 1..7
      <4>1. \A n \in 0..5 : \A k \in 1..n + 1 : k + 1 \in 1..7
        OBVIOUS
      <4>2. step \in 1..Len(Candidates(program)) + 1
        BY <1>3
      <4> QED BY <1>2, <1>3, <4>1, <4>2
    <3>2. step' \in 1..Len(Steps) + 6
      BY <2>3, <3>1
    <3> QED BY <1>4, <3>2
  <2>5. step' <= Len(Candidates(program)) + 2
    BY <1>2, <1>3
  <2> QED BY <1>1, <1>2, <1>8, <2>1, <2>2, <2>4, <2>5, TypesNext
<1>11. Running' /\ Quiet'
  BY <1>2 DEF Running, Quiet
<1>12. Cleaned'
  <2> SUFFICES ASSUME NEW i \in 1..Len(Order), i < step'
               PROVE  worker'[Order[i]].state = "none" /\ ~worker'[Order[i]].fd
    BY <1>4 DEF Cleaned
  <2>1. i < step \/ i = step
    BY <1>2, <1>3
  <2>2. CASE i = step
    BY <1>7, <1>8, <2>2 DEF r
  <2>3. CASE i < step
    <3>1. Order[i] \in Roles /\ Order[i] # r
      BY <1>3, <2>3
    <3>2. worker[Order[i]].state = "none" /\ ~worker[Order[i]].fd
      BY <1>1, <1>2, <2>3 DEF Cleaned
    <3> QED BY <1>8, <3>1, <3>2
  <2> QED BY <2>1, <2>2, <2>3
<1>13. Pids'
  <2>1. PidOk(w, r, died)
    BY <1>7 DEF PidOk
  <2> QED BY <1>1, <1>2, <1>4, <1>8, <2>1 DEF Pids
<1>14. Groups'
  BY <1>1, <1>2, <1>4 DEF Groups
<1>15. Placed'
  <2>1. \A a \in Aggressors : a \in Roles
    BY DEF Roles
  <2> QED BY <1>1, <1>2, <1>4, <1>7, <1>8, <1>9, <2>1 DEF Placed
<1>16. ChainOfCondition'
  <2> SUFFICES ASSUME program = "sweep", worker'["aggressor"].state # "none"
               PROVE  built = condition
    BY <1>2 DEF ChainOfCondition, Child
  <2>1. "aggressor" \in Roles
    BY <1>1, SweepRoles
  <2>2. worker["aggressor"].state # "none"
    BY <1>7, <1>8, <2>1
  <2> QED BY <1>1, <2>2 DEF ChainOfCondition, Child
<1>17. StrayOnlyAfterDeath'
  <2>1. worker[r].pid /\ ~Child(r) => r \in died
    BY <1>6 DEF PidOk, Child
  <2> QED BY <1>1, <1>2, <2>1 DEF StrayOnlyAfterDeath
<1> QED BY <1>10, <1>11, <1>12, <1>13, <1>14, <1>15, <1>16, <1>17 DEF OracleIndInv

\* After the last round no role has a child or a pipe.
LEMMA ReturnFailureKeeps ==
  ASSUME OracleIndInv, ReturnFailure
  PROVE  OracleIndInv'
<1>1. /\ phase = "fail" /\ step > Len(Candidates(program)) + 1 /\ phase' = "undo"
      /\ UNCHANGED <<program, todo, condition, step, worker, cpu_max, out, died, stray>>
      /\ UNCHANGED <<dirs, rc>>
  BY DEF ReturnFailure, kernelVars, history
<1>2. Types /\ Cleaned
  BY DEF OracleIndInv
<1>3. \A r \in Roles : worker[r].state = "none" /\ ~worker[r].fd
  <2> TAKE r \in Roles
  <2>1. PICK i \in 1..Len(Order) : Order[i] = r
    BY <1>2, OrderIsRoles
  <2>2. step \in Int
    <3>1. step \in 1..Len(Steps) + 6
      BY <1>2 DEF Types
    <3> QED BY <3>1
  <2>3. i < step
    BY <1>1, <1>2, <2>2, OrderIsRoles
  <2> QED BY <1>1, <1>2, <2>1, <2>3 DEF Cleaned
<1>4. dirs' \subseteq {"run"} \cup Aggressors /\ rc' \in {"none", "success", "failure"}
  BY <1>1, QuietParts
<1> QED BY <1>1, <1>3, <1>4, QuietStep

-----------------------------------------------------------------------------
(* The steps of main.                                                      *)

\* Nothing has been started yet.
LEMMA PrepareKeeps ==
  ASSUME OracleIndInv, Prepare
  PROVE  OracleIndInv'
<1>1. /\ phase = "prepare"
      /\ \/ phase' = (IF UsesCgroups(program) THEN "cgroups" ELSE "loop")
         \/ phase' = "undo"
      /\ UNCHANGED <<program, todo, condition, step, worker, cpu_max, out, died, stray>>
      /\ UNCHANGED <<dirs, rc>>
  BY DEF Prepare, kernelVars
<1>2. /\ \A r \in Roles : worker[r].state = "none" /\ ~worker[r].fd
      /\ \A r \in Roles : Absent(worker[r])
      /\ todo = Conditions(program)
      /\ dirs' \subseteq {"run"} \cup Aggressors /\ rc' \in {"none", "success", "failure"}
  BY <1>1, QuietParts
<1>3. phase' \in {"cgroups", "loop", "undo"} /\ (UsesCgroups(program) => phase' # "loop")
  BY <1>1
<1> QED BY <1>1, <1>2, <1>3, QuietStep

\* One pass of rmdir removes every directory when no child is left.
LEMMA DestroyLeavesNothing ==
  ASSUME \A r \in Roles : worker[r].state = "none"
  PROVE  cgroup_context_destroy = {}
BY DEF cgroup_context_destroy, Child

\* main goes on only when all the cgroups are there.
LEMMA CreateKeeps ==
  ASSUME OracleIndInv, cgroup_context_create
  PROVE  OracleIndInv'
<1> DEFINE wanted == <<"run">> \o Candidates(program)
           missing == {i \in 1..Len(wanted) : wanted[i] \notin dirs}
<1>1. /\ phase = "cgroups"
      /\ \/ (\E i \in missing : dirs' = dirs \cup {wanted[i]}) /\ UNCHANGED phase
         \/ missing = {} /\ phase' = "loop" /\ UNCHANGED dirs
         \/ dirs' = cgroup_context_destroy /\ phase' = "undo"
      /\ UNCHANGED <<program, todo, condition, step, worker, cpu_max, out, died, stray, rc>>
  BY DEF cgroup_context_create
<1>2. /\ Types /\ \A r \in Roles : worker[r].state = "none" /\ ~worker[r].fd
      /\ \A r \in Roles : Absent(worker[r])
      /\ todo = Conditions(program)
      /\ dirs \subseteq {"run"} \cup Aggressors /\ rc' \in {"none", "success", "failure"}
  BY <1>1, QuietParts
<1>3. /\ \A i \in 1..Len(wanted) : wanted[i] \in {"run"} \cup Aggressors
      /\ \A d \in {"run"} \cup Aggressors : \E i \in 1..Len(wanted) : wanted[i] = d
  <2> DEFINE D == {"run"} \cup Aggressors
             c == Candidates(program)
  <2>1. c \in Seq(Aggressors) /\ Aggressors = {c[i] : i \in 1..Len(c)}
    <3>1. Distinct(c)
      BY <1>2, CandidatesDistinct DEF Types
    <3>2. Aggressors = {c[i] : i \in 1..Len(c)}
      BY <1>2, <3>1, UsedRoles, Roster
    <3>3. Len(c) \in Nat /\ c = [i \in 1..Len(c) |-> c[i]]
      BY <3>1 DEF Distinct
    <3>4. \A i \in 1..Len(c) : c[i] \in Aggressors
      BY <3>2
    <3> HIDE DEF c
    <3> QED BY <3>2, <3>3, <3>4, FunctionIsSeq
  <2> HIDE DEF c
  <2>2. c \in Seq(D) /\ <<"run">> \in Seq(D)
    BY <2>1
  <2>3. /\ wanted \in Seq(D) /\ Len(wanted) = Len(c) + 1 /\ wanted[1] = "run"
        /\ Len(c) \in Nat /\ \A k \in 1..Len(c) : wanted[k + 1] = c[k]
    <3> HIDE DEF D
    <3> QED BY <2>2 DEF c
  <2> HIDE DEF wanted
  <2>4. \A i \in 1..Len(wanted) : wanted[i] \in D
    BY <2>3
  <2>5. ASSUME NEW d \in D
        PROVE  \E i \in 1..Len(wanted) : wanted[i] = d
    <3>1. CASE d = "run"
      <4>1. 1 \in 1..Len(wanted)
        BY <2>3
      <4> QED BY <2>3, <3>1, <4>1
    <3>2. CASE d # "run"
      <4>1. PICK k \in 1..Len(c) : d = c[k]
        BY <2>1, <3>2
      <4>2. k + 1 \in 1..Len(wanted)
        BY <2>3
      <4> QED BY <2>3, <4>1, <4>2
    <3> QED BY <3>1, <3>2
  <2> QED BY <2>4, <2>5
<1> HIDE DEF wanted
<1>4. CASE (\E i \in missing : dirs' = dirs \cup {wanted[i]}) /\ UNCHANGED phase
  <2>1. dirs' \subseteq {"run"} \cup Aggressors /\ phase' = "cgroups"
    BY <1>1, <1>2, <1>3, <1>4
  <2> QED BY <1>1, <1>2, <2>1, QuietStep
<1>5. CASE missing = {} /\ phase' = "loop" /\ UNCHANGED dirs
  <2>1. dirs' \subseteq {"run"} \cup Aggressors /\ {"run"} \cup Aggressors \subseteq dirs'
    BY <1>2, <1>3, <1>5
  <2> QED BY <1>1, <1>2, <1>5, <2>1, QuietStep
<1>6. CASE dirs' = cgroup_context_destroy /\ phase' = "undo"
  <2>1. dirs' \subseteq {"run"} \cup Aggressors
    BY <1>2, <1>6, DestroyLeavesNothing
  <2> QED BY <1>1, <1>2, <1>6, <2>1, QuietStep
<1> QED BY <1>1, <1>4, <1>5, <1>6

\* The last look at the pages has nothing to undo but the cgroups.
LEMMA VerifyKeeps ==
  ASSUME OracleIndInv, Verify
  PROVE  OracleIndInv'
<1>1. /\ phase = "loop" /\ phase' = "undo" /\ rc' \in {"success", "failure"}
      /\ UNCHANGED <<program, todo, condition, step, worker, cpu_max, out, died, stray>> /\ UNCHANGED dirs
  BY DEF Verify, kernelVars
<1>2. /\ \A r \in Roles : worker[r].state = "none" /\ ~worker[r].fd
      /\ dirs' \subseteq {"run"} \cup Aggressors /\ rc' \in {"none", "success", "failure"}
  BY <1>1, QuietParts
<1> QED BY <1>1, <1>2, QuietStep

\* The end of main finds every cgroup empty.
LEMMA ExitKeeps ==
  ASSUME OracleIndInv, Exit
  PROVE  OracleIndInv'
<1>1. /\ phase = "undo" /\ phase' = "exit" /\ dirs' = cgroup_context_destroy
      /\ rc' = IF rc = "none" THEN "failure" ELSE rc
      /\ UNCHANGED <<program, todo, condition, step, worker, cpu_max, out, died, stray>>
  BY DEF Exit, history
<1>2. /\ \A r \in Roles : worker[r].state = "none" /\ ~worker[r].fd
      /\ rc \in {"none", "success", "failure"}
  BY <1>1, QuietParts
<1>3. dirs' = {} /\ dirs' \subseteq {"run"} \cup Aggressors /\ rc' \in {"none", "success", "failure"}
  BY <1>1, <1>2, DestroyLeavesNothing
<1> QED BY <1>1, <1>2, <1>3, QuietStep

\* After the last call every worker of the condition has been read, and no
\* other was started.
LEMMA ReturnKeeps ==
  ASSUME OracleIndInv, Return
  PROVE  OracleIndInv'
<1>1. /\ phase = "run" /\ step > Len(Steps) /\ phase' = "loop"
      /\ UNCHANGED <<program, todo, condition, step, worker, cpu_max, out, died, stray>> /\ UNCHANGED <<dirs, rc>>
  BY DEF Return, kernelVars, history
<1>2. Types /\ Running /\ Groups
  BY DEF OracleIndInv
<1>3. InOrder(program, Steps, Used(program, condition)) /\ Closed(program, Used(program, condition), Log)
  BY <1>1, <1>2, StepsInOrder, LogClosed
<1>4. step \in Int /\ Len(Steps) + 1 <= step /\ Len(Steps) + 1 \in Int
  <2>1. Len(Steps) \in Nat /\ step \in 1..Len(Steps) + 6
    BY <1>2, <1>3 DEF Types, InOrder
  <2> QED BY <1>1, <2>1
<1>5. \A r \in Used(program, condition) : Did(Log, "read", r)
  BY <1>3, <1>4, HasDid DEF InOrder
<1>6. \A r : Did(Log, "spawn", r) \/ Did(Log, "read", r) => r \in Used(program, condition)
  BY <1>3 DEF Closed
<1>7. \A r \in Roles : Absent(worker[r])
  <2> TAKE r \in Roles
  <2>1. Known(Log, worker[r], r)
    BY <1>1, <1>2 DEF Running
  <2> QED BY <1>5, <1>6, <2>1 DEF Known
<1>8. out = Used(program, condition)
  <2>1. out \subseteq Roles /\ Used(program, condition) \subseteq Roles
    BY <1>2, UsedRoles DEF Types
  <2>2. \A r \in Roles : r \in out <=> Did(Log, "read", r)
    BY <1>1, <1>2 DEF Running
  <2> QED BY <1>5, <1>6, <2>1, <2>2
<1>9. /\ \A r \in Roles : worker[r].state = "none" /\ ~worker[r].fd
      /\ dirs' \subseteq {"run"} \cup Aggressors /\ rc' \in {"none", "success", "failure"}
      /\ UsesCgroups(program) => {"run"} \cup Aggressors \subseteq dirs'
  <2>1. \A r \in Roles : worker[r].state = "none" /\ ~worker[r].fd
    BY <1>7 DEF Absent
  <2> QED BY <1>1, <1>2, <2>1, QuietParts DEF Groups
<1> QED BY <1>1, <1>7, <1>8, <1>9, QuietStep

\* A condition begins without calls made, workers or results.
LEMMA BeginKeeps ==
  ASSUME OracleIndInv, Begin
  PROVE  OracleIndInv'
<1>1. Types /\ Pids /\ Groups /\ StrayOnlyAfterDeath
  BY DEF OracleIndInv
<1>2. /\ phase = "loop" /\ phase' \in {"run", "undo"} /\ step' = 1 /\ out' = {}
      /\ condition' \in todo /\ todo' = todo \ {condition'}
      /\ worker' = [r \in Roles |-> [worker[r] EXCEPT !.pid = FALSE, !.fd = FALSE]]
      /\ UNCHANGED <<program, period, dirs, cpu_max, built, rc, died, stray>>
  BY DEF Begin, kernelVars, history
<1>3. Roles' = Roles /\ Aggressors' = Aggressors
  BY <1>2, RolesNext
<1>4. worker' \in [Roles -> Worker] /\ \A r \in Roles : Absent(worker'[r])
  <2>1. worker \in [Roles -> Worker] /\ \A r \in Roles : Absent(worker[r])
    BY <1>1, <1>2, QuietParts DEF Types
  <2>2. ASSUME NEW r \in Roles
        PROVE  worker'[r] \in Worker /\ Absent(worker'[r])
    <3> DEFINE v == worker[r]
    <3>1. v \in Worker /\ Absent(v)
      BY <2>1
    <3>2. worker'[r] = [v EXCEPT !.pid = FALSE, !.fd = FALSE]
      BY <1>2
    <3> HIDE DEF v
    <3> QED BY <3>1, <3>2 DEF Worker, Absent
  <2> HIDE DEF Worker, Roles
  <2> QED BY <1>2, <2>2
<1>5. condition' \in Conditions(program) /\ todo' \subseteq Conditions(program) /\ condition' \notin todo'
  BY <1>1, <1>2 DEF Types
<1>6. Len(Steps') \in Nat \ {0}
  <2>1. InOrder(program, Script[program][condition'], Used(program, condition'))
    BY <1>1, <1>5, ScriptsInOrder DEF Types
  <2>2. Steps' = Script[program][condition']
    BY <1>2 DEF Steps
  <2> QED BY <2>1, <2>2 DEF InOrder
<1>7. Types'
  <2>1. step' \in 1..Len(Steps') + 6 /\ step' <= Len(Steps') + 1
    <3>1. \A n \in Nat \ {0} : 1 \in 1..n + 6 /\ 1 <= n + 1
      OBVIOUS
    <3> QED BY <1>2, <1>6, <3>1
  <2>2. /\ cpu_max' = [a \in Aggressors |-> cpu_max'[a]] /\ dirs' \subseteq {"run"} \cup Aggressors
        /\ rc' \in {"none", "success", "failure"}
    BY <1>1, <1>2 DEF Types
  <2>3. out' \subseteq Roles /\ phase' # "fail" /\ program' = program
        /\ phase' \in {"prepare", "cgroups", "loop", "run", "fail", "undo", "exit"}
    BY <1>2
  <2> QED BY <1>1, <1>4, <1>5, <2>1, <2>2, <2>3, TypesNext
<1>8. Running'
  <2>1. \A j : j \notin 1..(1 - 1)
    OBVIOUS
  <2>2. \A op, r : ~Did(Log', op, r)
    BY <1>2, <2>1 DEF Did, Log
  <2>3. \A r \in Roles : Known(Log', worker'[r], r)
    BY <1>4, <2>2 DEF Known
  <2> QED BY <1>2, <1>3, <2>2, <2>3 DEF Running
<1>9. Quiet' /\ Cleaned'
  <2>1. \A r \in Roles : worker'[r].state = "none" /\ ~worker'[r].fd
    BY <1>4 DEF Absent
  <2> QED BY <1>2, <1>3, <2>1 DEF Quiet, Cleaned
<1>10. Pids'
  <2>1. \A r \in Roles : PidOk(worker'[r], r, died')
    BY <1>4 DEF Absent, PidOk
  <2> QED BY <1>3, <2>1 DEF Pids
<1>11. Groups'
  BY <1>1, <1>2, <1>3 DEF Groups
<1>12. Placed'
  <2>1. \A a \in Aggressors : worker'[a].state # "running"
    BY <1>4 DEF Absent, Roles
  <2> QED BY <1>3, <2>1 DEF Placed
<1>13. ChainOfCondition'
  <2>1. program = "sweep" => worker'["aggressor"].state = "none"
    BY <1>1, <1>4, SweepRoles DEF Absent
  <2> QED BY <1>2, <2>1 DEF ChainOfCondition, Child
<1>14. StrayOnlyAfterDeath'
  BY <1>1, <1>2 DEF StrayOnlyAfterDeath
<1> QED BY <1>7, <1>8, <1>9, <1>10, <1>11, <1>12, <1>13, <1>14 DEF OracleIndInv

-----------------------------------------------------------------------------
(* The invariant and what follows from it.                                 *)

\* The invariant holds when main begins.
LEMMA OracleInit ==
  ASSUME Init
  PROVE  OracleIndInv
<1>1. /\ program \in Programs /\ phase = "prepare" /\ todo = Conditions(program) /\ condition = "none" /\ step = 1
      /\ worker = [r \in Roles |-> NoWorker] /\ dirs = {} /\ cpu_max = [a \in Aggressors |-> Unlimited]
      /\ out = {} /\ rc = "none" /\ died = {} /\ stray = {}
  BY DEF Init
<1>2. \A r \in Roles : worker[r] = NoWorker
  BY <1>1
<1>3. NoWorker \in Worker /\ Absent(NoWorker)
  BY DEF NoWorker, Worker, Absent, States
<1>4. condition \in Conditions(program)
  <2>1. program \in {"overlap", "sweep", "selective", "multi", "cpumax"}
    BY <1>1, OracleRunAssumption
  <2> QED BY <1>1, <2>1 DEF Conditions, Overlap!Conditions, Sweep!Conditions, Selective!Conditions,
         Multi!Conditions, CpuMax!Conditions
<1>5. Len(Steps) \in Nat \ {0}
  BY <1>1, <1>4, ScriptsInOrder DEF Steps, InOrder
<1>6. Types
  <2>1. worker \in [Roles -> Worker]
    <3> HIDE DEF Worker, Roles
    <3> QED BY <1>1, <1>3
  <2>2. step \in 1..Len(Steps) + 6
    BY <1>1, <1>5
  <2>3. cpu_max = [a \in Aggressors |-> cpu_max[a]]
    BY <1>1
  <2> HIDE DEF Worker, Roles
  <2> QED BY <1>1, <1>4, <2>1, <2>2, <2>3 DEF Types
<1>7. Running /\ Cleaned /\ Groups
  BY <1>1 DEF Running, Cleaned, Groups
<1>8. Quiet
  BY <1>1, <1>2, <1>3 DEF Quiet
<1>9. Pids
  BY <1>2, <1>3 DEF Pids, PidOk, Absent
<1>10. Placed
  <2>1. \A a \in Aggressors : worker[a].state # "running"
    BY <1>2, <1>3 DEF Absent, Roles
  <2> QED BY <2>1 DEF Placed
<1>11. ChainOfCondition
  <2>1. program = "sweep" => worker["aggressor"].state = "none"
    BY <1>2, <1>3, <1>6, SweepRoles DEF Absent
  <2> QED BY <2>1 DEF ChainOfCondition, Child
<1>12. StrayOnlyAfterDeath
  BY <1>1 DEF StrayOnlyAfterDeath
<1> QED BY <1>6, <1>7, <1>8, <1>9, <1>10, <1>11, <1>12 DEF OracleIndInv

\* Nothing changes.
LEMMA OracleStutters ==
  ASSUME OracleIndInv, UNCHANGED vars
  PROVE  OracleIndInv'
<1>1. /\ Types /\ Running /\ Quiet /\ Cleaned /\ Pids /\ Groups /\ Placed
      /\ ChainOfCondition /\ StrayOnlyAfterDeath
  BY DEF OracleIndInv
<1>2. UNCHANGED <<program, period, phase, todo, condition, step, worker, dirs, cpu_max, built, out, rc, died, stray>>
  BY DEF vars
<1>3. /\ Roles' = Roles /\ Aggressors' = Aggressors /\ Worker' = Worker /\ Order' = Order /\ Steps' = Steps
      /\ Log' = Log /\ \A a : Limit(program, condition, a)' = Limit(program, condition, a)
  BY <1>2, RolesNext DEF Steps, Log, Limit
<1>4. Types'
  BY <1>1, <1>2, <1>3 DEF Types
<1>5. Running'
  BY <1>1, <1>2, <1>3 DEF Running
<1>6. Quiet' /\ Cleaned'
  BY <1>1, <1>2, <1>3 DEF Quiet, Cleaned, Used
<1>7. Pids' /\ Groups' /\ Placed'
  BY <1>1, <1>2, <1>3 DEF Pids, Groups, Placed
<1>8. ChainOfCondition' /\ StrayOnlyAfterDeath'
  BY <1>1, <1>2 DEF ChainOfCondition, StrayOnlyAfterDeath, Child
<1> QED BY <1>4, <1>5, <1>6, <1>7, <1>8 DEF OracleIndInv

\* Every step of the parent or of a child keeps the invariant.
LEMMA OracleStep ==
  ASSUME OracleIndInv, [Next]_vars
  PROVE  OracleIndInv'
<1>1. ASSUME Parent
      PROVE  OracleIndInv'
  BY <1>1, PrepareKeeps, CreateKeeps, BeginKeeps, ReturnKeeps, VerifyKeeps, ExitKeeps, LimitKeeps, SpawnKeeps,
     WaitStoppedKeeps, MoveKeeps, ContinueKeeps, WaitKeeps, ReadKeeps, BuildKeeps, CleanUpKeeps,
     ReturnFailureKeeps, Zenon DEF Parent
<1>2. ASSUME NEW r \in Roles, Stop(r) \/ Finish(r) \/ Die(r)
      PROVE  OracleIndInv'
  BY <1>2, StopKeeps, FinishKeeps, DieKeeps, Zenon
<1>3. CASE Finished \/ UNCHANGED vars
  BY <1>3, OracleStutters DEF Finished
<1> QED BY <1>1, <1>2, <1>3, Zenon DEF Next

\* In every reachable state of every experiment, whatever fails and whoever
\* dies, each worker is where the calls made so far have brought it, and the
\* clean-up has nothing behind it.
THEOREM OracleInductive == Spec => []OracleIndInv
<1>1. Init => OracleIndInv
  BY OracleInit
<1>2. OracleIndInv /\ [Next]_vars => OracleIndInv'
  BY OracleStep
<1> QED BY <1>1, <1>2, PTL DEF Spec

\* A death does not go unnoticed: until run_condition looks at it, the dead
\* worker is there to be waited for, and then the condition fails.
Deaths ==
    /\ phase \in {"prepare", "cgroups", "loop"} => died = {}
    /\ phase = "run" => \A r \in died : r \in Roles /\ worker[r].state = "failed"
    /\ rc = "success" => phase \in {"undo", "exit"} /\ died = {}

\* A condition whose quota is zero is not run.
Accepts == phase \in {"run", "fail"} /\ program = "cpumax" => ~CpuMax!Refused(condition, period)

\* A call of run_condition that leaves the dead as they are, or gives up.
LEMMA DeadStayDead ==
  ASSUME Deaths, Accepts, phase = "run", phase' \in {"run", "fail", "undo"},
         UNCHANGED <<program, period, condition, rc, died>>,
         phase' = "run" => \A r \in Roles : worker[r].state = "failed" => worker'[r].state = "failed"
  PROVE  Deaths' /\ Accepts'
<1>1. Roles' = Roles
  BY RolesNext
<1> QED BY <1>1 DEF Deaths, Accepts

\* A call that changes one worker, and not one that died.
LEMMA DeadUntouched ==
  ASSUME OracleIndInv, Deaths, Accepts, NEW o, At(o), UNCHANGED <<program, period, condition, rc, died>>,
         phase' \in {"run", "fail", "undo"},
         phase' = "run" => \E w : /\ worker' = [worker EXCEPT ![Who] = w]
                                  /\ worker[Who].state = "failed" => w.state = "failed"
  PROVE  Deaths' /\ Accepts'
<1>1. phase = "run" /\ worker \in [Roles -> Worker] /\ Who \in Roles
  BY BeforeCall
<1>2. ASSUME phase' = "run", NEW r \in Roles, worker[r].state = "failed"
      PROVE  worker'[r].state = "failed"
  <2>1. PICK w : worker' = [worker EXCEPT ![Who] = w] /\ (worker[Who].state = "failed" => w.state = "failed")
    BY <1>2
  <2> HIDE DEF Who, Roles, Worker
  <2>2. worker'[r] = IF r = Who THEN w ELSE worker[r]
    BY <1>1, <2>1
  <2> QED BY <1>2, <2>1, <2>2
<1> QED BY <1>1, <1>2, DeadStayDead

\* Every step keeps the dead in sight and refuses a quota of zero.
LEMMA DeathStep ==
  ASSUME OracleIndInv, Deaths, Accepts, [Next]_vars
  PROVE  Deaths' /\ Accepts'
<1>1. CASE Prepare \/ cgroup_context_create \/ Verify
  BY <1>1 DEF Prepare, cgroup_context_create, Verify, Deaths, Accepts
<1>2. CASE Exit \/ ReturnFailure
  BY <1>2 DEF Exit, ReturnFailure, Deaths, Accepts, history
<1>3. CASE Begin
  <2>1. /\ phase = "loop" /\ phase' \in {"run", "undo"} /\ UNCHANGED <<program, period, rc, died>>
        /\ phase' = "run" => ~(program = "cpumax" /\ CpuMax!Refused(condition', period))
    BY <1>3 DEF Begin, history
  <2> QED BY <2>1 DEF Deaths, Accepts
<1>4. CASE Return
  <2>1. phase = "run" /\ phase' = "loop" /\ UNCHANGED <<program, worker, died, rc>>
    BY <1>4 DEF Return, history
  <2>2. OracleIndInv' /\ Roles' = Roles
    BY <1>4, <2>1, ReturnKeeps, RolesNext
  <2>3. \A r \in Roles : worker[r].state = "none"
    BY <2>1, <2>2 DEF OracleIndInv, Quiet, Absent
  <2> QED BY <2>1, <2>3 DEF Deaths, Accepts
<1>5. CASE cgroup_set_cpu_max
  <2>1. At("limit") /\ UNCHANGED <<program, period, condition, rc, died, worker>> /\ phase' \in {"run", "fail"}
    BY <1>5 DEF cgroup_set_cpu_max, Done, Fail, At
  <2> QED BY <2>1, DeadStayDead DEF At
<1>6. CASE BuildLevel
  <2>1. At("build") /\ UNCHANGED <<program, period, condition, rc, died, worker>> /\ phase' \in {"run", "undo"}
    BY <1>6 DEF BuildLevel, Done, At
  <2> QED BY <2>1, DeadStayDead DEF At
<1>7. CASE spawn
  <2> DEFINE w == [NoWorker EXCEPT !.state = "starting", !.pid = TRUE, !.fd = TRUE]
  <2>1. /\ At("spawn") /\ UNCHANGED <<program, period, condition, rc, died>> /\ phase' \in {"run", "fail"}
        /\ phase' = "run" => worker' = [worker EXCEPT ![Who] = w]
    BY <1>7 DEF spawn, Done, Fail, At
  <2>2. Known(Log, worker[Who], Who) /\ ~Did(Log, "spawn", Who)
    BY <2>1, BeforeCall
  <2>3. worker[Who].state # "failed"
    BY <2>2 DEF Known, Absent
  <2> HIDE DEF w, Who
  <2> QED BY <2>1, <2>3, DeadUntouched
<1>8. CASE wait_until_stopped
  <2>1. /\ At("stopped") /\ UNCHANGED <<program, period, condition, rc, died>> /\ phase' \in {"run", "fail"}
        /\ phase' = "run" => worker' = worker
    BY <1>8 DEF wait_until_stopped, Done, Fail, At, history
  <2> QED BY <2>1, DeadStayDead DEF At
<1>9. CASE cgroup_move_pid
  <2> DEFINE w == [worker[Who] EXCEPT !.group = Who]
  <2>1. /\ At("move") /\ UNCHANGED <<program, period, condition, rc, died>> /\ phase' \in {"run", "fail"}
        /\ phase' = "run" => worker' = [worker EXCEPT ![Who] = w]
    BY <1>9 DEF cgroup_move_pid, Done, Fail, At
  <2>2. worker[Who] \in Worker
    BY <2>1, BeforeCall
  <2>3. w.state = worker[Who].state
    BY <2>2 DEF Worker
  <2> HIDE DEF w, Who
  <2> QED BY <2>1, <2>3, DeadUntouched
<1>10. CASE Continue
  <2> DEFINE w == [worker[Who] EXCEPT !.state = IF @ = "stopped" THEN "running" ELSE @]
  <2>1. /\ At("cont") /\ UNCHANGED <<program, period, condition, rc, died>> /\ phase' = "run"
        /\ worker' = [worker EXCEPT ![Who] = w]
    BY <1>10 DEF Continue, Done, At, history
  <2>2. worker[Who] \in Worker
    BY <2>1, BeforeCall
  <2>3. worker[Who].state = "failed" => w.state = "failed"
    BY <2>2 DEF Worker
  <2> HIDE DEF w, Who
  <2> QED BY <2>1, <2>3, DeadUntouched
<1>11. CASE wait_success
  <2> DEFINE w == [worker[Who] EXCEPT !.state = "none", !.pid = FALSE]
  <2>1. /\ At("wait") /\ UNCHANGED <<program, period, condition, rc, died>> /\ phase' \in {"run", "fail"}
        /\ phase' = "run" => worker[Who].state = "exited"
                             /\ worker' = [worker EXCEPT ![Who].state = "none", ![Who].pid = FALSE]
    BY <1>11 DEF wait_success, Done, Fail, At, history
  <2>2. worker \in [Roles -> Worker] /\ Who \in Roles
    BY <2>1, BeforeCall
  <2>3. phase' = "run" => worker' = [worker EXCEPT ![Who] = w]
    BY <2>1, <2>2
  <2> HIDE DEF w, Who
  <2> QED BY <2>1, <2>3, DeadUntouched
<1>12. CASE read_full
  <2> DEFINE w == [worker[Who] EXCEPT !.fd = FALSE, !.data = FALSE]
  <2>1. /\ At("read") /\ UNCHANGED <<program, period, condition, rc, died>> /\ phase' \in {"run", "fail"}
        /\ phase' = "run" => worker' = [worker EXCEPT ![Who].fd = FALSE, ![Who].data = FALSE]
    BY <1>12 DEF read_full, Done, Fail, At, history
  <2>2. worker \in [Roles -> Worker] /\ Who \in Roles /\ worker[Who] \in Worker
    BY <2>1, BeforeCall
  <2>3. phase' = "run" => worker' = [worker EXCEPT ![Who] = w]
    BY <2>1, <2>2
  <2>4. w.state = worker[Who].state
    BY <2>2 DEF Worker
  <2> HIDE DEF w, Who
  <2> QED BY <2>1, <2>3, <2>4, DeadUntouched
<1>13. CASE CleanUp
  BY <1>13 DEF CleanUp, Deaths, Accepts
<1>14. ASSUME NEW r \in Roles, Stop(r) \/ Finish(r) \/ Die(r)
       PROVE  Deaths' /\ Accepts'
  <2>1. Live(r) /\ UNCHANGED <<program, period, phase, condition, rc>> /\ Roles' = Roles
    BY <1>14, RolesNext DEF Stop, Finish, Die, Live
  <2>2. phase \in {"run", "fail"} /\ worker \in [Roles -> Worker]
    BY <2>1, ChildIsKnown DEF OracleIndInv, Types
  <2>3. worker[r].state # "failed"
    BY <2>1 DEF Live
  <2>4. \E w : /\ worker' = [worker EXCEPT ![r] = w]
               /\ died' = died \/ (died' = died \cup {r} /\ w.state = "failed")
    <3>1. CASE Stop(r)
      BY <3>1 DEF Stop, history
    <3>2. CASE Finish(r)
      <4>1. worker' = [worker EXCEPT ![r] = [worker[r] EXCEPT !.state = "exited", !.data = TRUE]] /\ died' = died
        BY <2>2, <3>2 DEF Finish, history
      <4> QED BY <4>1
    <3>3. CASE Die(r)
      <4>1. PICK sent : worker' = [worker EXCEPT ![r].state = "failed", ![r].data = sent] /\ died' = died \cup {r}
        BY <3>3 DEF Die
      <4> DEFINE w == [worker[r] EXCEPT !.state = "failed", !.data = sent]
      <4>2. worker' = [worker EXCEPT ![r] = w]
        BY <2>2, <4>1
      <4>3. w.state = "failed"
        <5>1. worker[r] \in Worker
          BY <2>1, ChildIsKnown
        <5> QED BY <5>1 DEF Worker
      <4> HIDE DEF w
      <4> QED BY <4>1, <4>2, <4>3
    <3> QED BY <1>14, <3>1, <3>2, <3>3
  <2>5. ASSUME phase = "run", NEW x \in died'
        PROVE  x \in Roles /\ worker'[x].state = "failed"
    <3>1. PICK w : /\ worker' = [worker EXCEPT ![r] = w]
                   /\ died' = died \/ (died' = died \cup {r} /\ w.state = "failed")
      BY <2>4
    <3>2. x \in died => x \in Roles /\ worker[x].state = "failed"
      BY <2>5 DEF Deaths
    <3> HIDE DEF Roles, Worker
    <3> QED BY <2>2, <2>3, <2>5, <3>1, <3>2
  <2> QED BY <2>1, <2>2, <2>5 DEF Deaths, Accepts
<1>15. CASE Finished \/ UNCHANGED vars
  BY <1>15 DEF Finished, vars, Deaths, Accepts, Roles, Aggressors
<1> QED BY <1>1, <1>2, <1>3, <1>4, <1>5, <1>6, <1>7, <1>8, <1>9, <1>10, <1>11, <1>12, <1>13, <1>14, <1>15, Zenon
        DEF Next, Parent

\* In every reachable state the dead are still to be waited for while their
\* condition runs, and no condition runs whose quota is zero.
THEOREM DeathsAreSeen == Spec => [](Deaths /\ Accepts)
<1>1. Init => Deaths /\ Accepts
  BY DEF Init, Deaths, Accepts
<1>2. OracleIndInv /\ Deaths /\ Accepts /\ [Next]_vars => (Deaths /\ Accepts)'
  BY DeathStep
<1> QED BY <1>1, <1>2, OracleInductive, PTL DEF Spec

\* What run_condition writes to cpu.max is what the condition is named for.
LEMMA LimitIsPromised ==
  ASSUME Types, UsesCgroups(program), NEW a \in Aggressors
  PROVE  Limit(program, condition, a) = Promised(a)
<1>1. condition \in Conditions(program) /\ Aggressors = Range(Candidates(program))
  BY UsedRoles DEF Types
<1>2. Range(Levels) = {"o0", "o25", "o50", "o75", "o100"} /\ Levels[1] = "o0" /\ Levels[4] = "o75"
      /\ Levels[5] = "o100" /\ Len(Levels) = 5
  <2>1. /\ Len(Levels) = 5 /\ DOMAIN Levels = 1..5
        /\ Levels[1] = "o0" /\ Levels[2] = "o25" /\ Levels[3] = "o50" /\ Levels[4] = "o75" /\ Levels[5] = "o100"
    BY DEF Levels
  <2>2. \A i : i \in 1..5 <=> i = 1 \/ i = 2 \/ i = 3 \/ i = 4 \/ i = 5
    OBVIOUS
  <2>3. Range(Levels) = {Levels[i] : i \in 1..5}
    BY <2>1 DEF Range
  <2> HIDE DEF Levels
  <2> QED BY <2>1, <2>2, <2>3
<1>3. CASE program = "selective"
  <2>1. a \in {"high", "low"}
    <3>1. Range(<<"high", "low">>) = {"high", "low"}
      BY DEF Range
    <3> QED BY <1>1, <1>3, <3>1 DEF Candidates, Selective!candidate_name
  <2> QED BY <1>3, <2>1 DEF Limit, Promised, Selective!throttled
<1>4. CASE program = "multi"
  <2>1. a \in Range(Levels)
    BY <1>1, <1>4 DEF Candidates
  <2>2. condition \in {"none", "uncontrolled", "lowest", "highest", "top2", "all"}
    BY <1>1, <1>4 DEF Conditions, Multi!Conditions
  <2>3. a \in Multi!throttled(condition) <=>
           \/ condition = "all"
           \/ condition = "lowest" /\ a = "o0"
           \/ condition \in {"highest", "top2"} /\ a = "o100"
           \/ condition = "top2" /\ a = "o75"
    <3>1. Multi!candidate_name = Levels /\ Multi!Range(Levels) = Range(Levels)
      BY DEF Multi!candidate_name, Multi!Levels, Levels, Multi!Range, Range
    <3> HIDE DEF Levels
    <3> QED BY <1>2, <2>1, <2>2, <3>1 DEF Multi!throttled
  <2> QED BY <1>4, <2>3 DEF Limit, Promised
<1>5. CASE program = "cpumax"
  <2>1. condition \in {"none", "uncontrolled", "cpu75", "cpu50", "cpu25", "cpu10"}
    BY <1>1, <1>5 DEF Conditions, CpuMax!Conditions
  <2>2. a \in CpuMax!throttled(condition) <=> ~(a # "o100" \/ condition \in {"none", "uncontrolled"})
    <3>1. CpuMax!candidate_name = Levels
      BY DEF CpuMax!candidate_name, CpuMax!Levels, Levels
    <3> HIDE DEF Levels
    <3> QED BY <1>2, <2>1, <3>1 DEF CpuMax!throttled, CpuMax!Swept, CpuMax!Conditions
  <2>3. condition \notin {"none", "uncontrolled"} =>
           CpuMax!quota_us(condition, period) =
             (period * [cpu75 |-> 75, cpu50 |-> 50, cpu25 |-> 25, cpu10 |-> 10][condition]) \div 100
    BY <2>1 DEF CpuMax!quota_us, CpuMax!condition_cpu_allow_pct
  <2> QED BY <1>5, <2>2, <2>3 DEF Limit, Promised
<1> QED BY <1>3, <1>4, <1>5 DEF UsesCgroups

\* It is never zero for a condition that is run.
LEMMA LimitIsNotZero ==
  ASSUME UsesCgroups(program), program = "cpumax" => ~CpuMax!Refused(condition, period), NEW a
  PROVE  Limit(program, condition, a) # 0
<1>1. throttle_quota_us # 0 /\ Unlimited # 0
  BY OracleRunAssumption DEF Unlimited
<1>2. a \in CpuMax!throttled(condition) => condition \in CpuMax!Swept
  BY DEF CpuMax!throttled
<1> QED BY <1>1, <1>2 DEF Limit, UsesCgroups, CpuMax!Refused

\* The limits and the chain that the name of a condition promises are in
\* force whenever one of its aggressors runs, and the victim runs only after
\* all of them were let go: in all five programs, for every order of the
\* conditions, any period and any quota, and however many calls fail and
\* workers die.
THEOREM MeasuredAsNamed == Spec => []RunInv
<1>1. ASSUME OracleIndInv, Accepts
      PROVE  RunInv
  <2>1. /\ Types /\ Running /\ Quiet /\ Cleaned /\ Pids /\ Groups /\ Placed /\ ChainOfCondition
    BY <1>1 DEF OracleIndInv
  <2>2. TypeOK
    <3>1. worker \in [Roles -> Worker]
      BY <2>1 DEF Types
    <3>2. \A r \in Roles : worker[r].state \in States /\ worker[r].group \in {"root"} \cup Aggressors
      <4> HIDE DEF Roles
      <4> QED BY <3>1 DEF Worker
    <3> QED BY <2>1, <3>2 DEF Types, TypeOK
  <2>3. LimitInForce
    <3> SUFFICES ASSUME UsesCgroups(program), NEW a \in Aggressors, worker[a].state = "running"
                 PROVE  worker[a].group = a /\ a \in dirs /\ cpu_max[a] = Promised(a) /\ cpu_max[a] # 0
      BY DEF LimitInForce
    <3>1. worker[a].group = a /\ cpu_max[a] = Limit(program, condition, a)
      BY <2>1 DEF Placed
    <3>2. a \in Roles /\ Live(a)
      BY DEF Roles, Live
    <3>3. phase \in {"run", "fail"}
      BY <1>1, <3>2, ChildIsKnown
    <3>4. Limit(program, condition, a) # 0
      BY <1>1, <3>3, LimitIsNotZero DEF Accepts
    <3> QED BY <2>1, <3>1, <3>3, <3>4, LimitIsPromised DEF Groups
  <2>4. VictimComesLast
    <3> SUFFICES ASSUME worker["victim"].state = "running", phase = "run", condition # "none",
                        NEW a \in Aggressors
                 PROVE  worker[a].state \in {"running", "exited", "failed"} /\ worker[a].pid
      BY DEF VictimComesLast
    <3>1. "victim" \in Roles /\ a \in Roles /\ a # "victim" /\ a \in Used(program, condition)
      BY <2>1, UsedRoles
    <3>2. Live("victim")
      BY DEF Live
    <3>3. ~Did(Log, "wait", "victim") /\ worker["victim"].state \in Progress(Log, "victim")
      BY <1>1, <3>1, <3>2, ChildIsKnown
    <3>4. Did(Log, "cont", "victim")
      BY <3>3 DEF Progress
    <3>5. Closed(program, Used(program, condition), Log)
      BY <2>1, LogClosed
    <3>6. Did(Log, "cont", a)
      BY <3>1, <3>4, <3>5 DEF Closed
    <3>7. Did(Log, "spawn", a) /\ ~Did(Log, "wait", a)
      BY <3>3, <3>5, <3>6 DEF Closed
    <3>8. worker[a].pid /\ worker[a].state \in Progress(Log, a)
      BY <2>1, <3>1, <3>7 DEF Running, Known
    <3> QED BY <3>6, <3>8 DEF Progress
  <2> QED BY <2>1, <2>2, <2>3, <2>4 DEF RunInv
<1> QED BY <1>1, OracleInductive, DeathsAreSeen, PTL

\* When run_condition returns 0, the results of the victim and of all its
\* aggressors have been read, those of this condition and no others, and
\* none of its workers died, however late; the program succeeds only if no
\* worker of any condition did.
THEOREM NoResultMissing == Spec => []ResultsComplete
<1>1. ASSUME OracleIndInv, Deaths
      PROVE  ResultsComplete
  <2>1. Types /\ Quiet
    BY <1>1 DEF OracleIndInv
  <2>2. ASSUME phase = "loop", todo # Conditions(program)
        PROVE  /\ out = IF condition = "none" THEN {"victim"} ELSE Roles
               /\ \A r \in Roles : ~worker[r].data
    <3>1. out = Used(program, condition) /\ \A r \in Roles : Absent(worker[r])
      BY <2>1, <2>2 DEF Quiet
    <3>2. condition # "none" => Used(program, condition) = Roles
      BY <2>1, UsedRoles
    <3>3. condition = "none" => Used(program, condition) = {"victim"}
      BY DEF Used
    <3>4. \A r \in Roles : ~worker[r].data
      BY <3>1 DEF Absent
    <3> QED BY <3>1, <3>2, <3>3, <3>4
  <2>3. phase = "loop" \/ rc = "success" => died = {}
    BY <1>1 DEF Deaths
  <2> QED BY <2>2, <2>3 DEF ResultsComplete
<1> QED BY <1>1, OracleInductive, DeathsAreSeen, PTL

\* Neither a child nor a pipe outlives run_condition, whichever of its calls
\* failed, and no cgroup outlives the program.
THEOREM EverythingIsUndone == Spec => []NothingLeft
<1>1. ASSUME OracleIndInv
      PROVE  NothingLeft
  <2>1. phase \in {"loop", "undo", "exit"} => \A r \in Roles : ~Child(r) /\ ~worker[r].fd
    BY <1>1, QuietParts DEF Child
  <2>2. phase = "exit" => dirs = {}
    BY <1>1 DEF OracleIndInv, Quiet
  <2> QED BY <2>1, <2>2 DEF NothingLeft
<1> QED BY <1>1, OracleInductive, PTL

\* The clean-up of run_condition signals a pid that has been reaped only if
\* that very worker had died.
THEOREM NoStraySignal == Spec => []StrayOnlyAfterDeath
<1>1. OracleIndInv => StrayOnlyAfterDeath
  BY DEF OracleIndInv
<1> QED BY <1>1, OracleInductive, PTL
=============================================================================
