---------------------------- MODULE OracleClasses ----------------------------
(***************************************************************************)
(* The algorithms with which the oracle experiments pick cache lines by    *)
(* bank class and link them into pointer chains.  They are copied from     *)
(* program to program and modelled from oracle_cpu_max_sweep.c.            *)
(*                                                                         *)
(* A page is the set of the one bits of its physical base address, {} for  *)
(* a page whose frame number cannot be read.  Line l of a page is at the   *)
(* offset whose bits are those of l (the unit is a cache line), and an     *)
(* address in a pool is <<page, line>>.  A pool is its sequence of pages.  *)
(***************************************************************************)
EXTENDS BankClasses, SequencesExt, FiniteSetsExt

\* The word 1 << n.
Pow2[n \in Nat] == IF n = 0 THEN 1 ELSE 2 * Pow2[n - 1]

\* The k-th smallest of a set of numbers, the elements of a sequence at a
\* set of positions, and those that pass a test.
Nth(I, k) == CHOOSE i \in I : Cardinality({j \in I : j <= i}) = k
Pick(s, I) == [k \in 1..Cardinality(I) |-> s[Nth(I, k)]]
Matching(s, Test(_)) == Pick(s, {i \in 1..Len(s) : Test(s[i])})

\* The bits of the offset of a line, in pages of 2^width lines, whose class
\* build_offset_classes tabulates.
Offset(line, width) == {b \in 0..(width - 1) : (line \div Pow2[b]) % 2 = 1}

Addresses(pool, width) == (1..Len(pool)) \X (0..(Pow2[width] - 1))

\* The classes of a mapping in numerical order.
ClassNumber(n, masks) == {i \in 1..Len(masks) : (n \div Pow2[i - 1]) % 2 = 1}
class_space(masks) == [n \in 1..Pow2[Len(masks)] |-> ClassNumber(n - 1, masks)]

\* Pagemap gives a frame number: the page is present, not swapped out, and
\* the kernel does not hide the number.
read_one_pfn(page) == page # {}

\* rng_next reduced modulo i + 1: any stream will do.
rng_next(seed, i) == (seed * (2 * i + 3) + i * i) % (i + 1)

\* shuffle_size_t and shuffle_u64: Fisher-Yates from the end.
shuffle(values, seed) ==
    LET after[k \in 0..(Len(values) - 1)] ==
            IF k = 0 THEN values
            ELSE LET i == Len(values) - k
                     j == rng_next(seed, i)
                     s == after[k - 1]
                 IN  [s EXCEPT ![i + 1] = s[j + 1], ![j + 1] = s[i + 1]]
    IN  IF Len(values) < 2 THEN values ELSE after[Len(values) - 1]

\* Seeds of the calls are the configured one XORed with a number of the call.
Seed(seed, call) == 5 * seed + call

ClassAt(pool, masks, width, a) == LineClass(masks, pool[a[1]], Offset(a[2], width))

count_line_classes(pool, masks, width) ==
    [c \in Range(class_space(masks)) |->
        Quantify(Addresses(pool, width), LAMBDA a : ClassAt(pool, masks, width, a) = c)]

\* The end of choose_class_sets: too few candidates, or the two groups.
TooFew(candidates, group) == Len(candidates) < 2 * group
Split(candidates, group, seed) ==
    LET order == shuffle(candidates, seed)
    IN  [victim |-> SubSeq(order, 1, group), disjoint |-> SubSeq(order, group + 1, 2 * group)]

\* The lines of the pool in the order in which they are looked at.
ScanOrder(pool, width, seed) ==
    LET pages == shuffle([p \in 1..Len(pool) |-> p], Seed(seed, 1))
        order == shuffle([l \in 1..Pow2[width] |-> l - 1], Seed(seed, 2))
        n == Pow2[width]
    IN  [i \in 1..Len(pool) * n |-> <<pages[((i - 1) \div n) + 1], order[((i - 1) % n) + 1]>>]

\* Every slot takes the first quota lines of its class; of two slots with
\* one class, only the last gets any.
collect_line_set(pool, masks, width, classes, quota, seed) ==
    LET scan == ScanOrder(pool, width, seed)
        found(s) == IF \E t \in (s + 1)..Len(classes) : classes[t] = classes[s] THEN <<>>
                    ELSE Matching(scan, LAMBDA a : ClassAt(pool, masks, width, a) = classes[s])
    IN  [s \in 1..Len(classes) |-> SubSeq(found(s), 1, Min({quota, Len(found(s))}))]

\* remaining = 0 at the end of collect_line_set.
AllFilled(slots, quota) == \A s \in DOMAIN slots : Len(slots[s]) = quota

\* Line i of slot s is at slot * quota_lines + i.
LineSet(slots, quota) ==
    [i \in 1..Len(slots) * quota |-> slots[((i - 1) \div quota) + 1][((i - 1) % quota) + 1]]

\* Here the class is that of the whole physical address.
address_bank_class(pool, masks, width, a) ==
    BankClass(masks, pool[a[1]] \cup Offset(a[2], width))

build_histogram(pool, masks, width, addresses) ==
    [c \in Range(class_space(masks)) |->
        Quantify(DOMAIN addresses, LAMBDA i : address_bank_class(pool, masks, width, addresses[i]) = c)]

\* The two counts of histogram_jaccard.
Intersection(a, b) == Cardinality(UNION {{c} \X (1..Min({a[c], b[c]})) : c \in DOMAIN a})
Union(a, b) == Cardinality(UNION {{c} \X (1..Max({a[c], b[c]})) : c \in DOMAIN a})

histogram_unique_classes(a) == Quantify(DOMAIN a, LAMBDA c : a[c] # 0)
histogram_shared_classes(a, b) == Quantify(DOMAIN a, LAMBDA c : a[c] # 0 /\ b[c] # 0)

\* The five overlap levels.
candidate_shared_classes(level, group) ==
    CASE level = "o0" -> 0
      [] level = "o25" -> group \div 4
      [] level = "o50" -> group \div 2
      [] level = "o75" -> (group * 3) \div 4
      [] level = "o100" -> group

\* The test of an overlap level: v and a are histograms.
LevelIsExact(v, a, shared, group, quota) ==
    /\ histogram_unique_classes(a) = group
    /\ histogram_shared_classes(v, a) = shared
    /\ Intersection(v, a) = shared * quota
    /\ Union(v, a) = (2 * group - shared) * quota

make_permutation(count, seed) == shuffle([i \in 1..count |-> i], seed)

\* The words the chains put in the lines, as functions from address to address.
\* Defect: the last line is not linked to the first.
Bug_OpenChain(addresses, permutation) ==
    [k \in Range(addresses) |->
        LET n == Len(addresses)
            i == CHOOSE i \in 1..n : addresses[permutation[i]] = k
        IN  addresses[permutation[IF i = n THEN n ELSE i + 1]]]

build_single_chain(addresses, permutation) ==
    [k \in Range(addresses) |->
        LET n == Len(addresses)
            i == CHOOSE i \in 1..n : addresses[permutation[i]] = k
        IN  addresses[permutation[(i % n) + 1]]]

\* Position i is followed by i + streams, the last of a stream by its first.
build_multi_chain(addresses, permutation, streams) ==
    [k \in Range(addresses) |->
        LET n == Len(addresses)
            i == CHOOSE i \in 1..n : addresses[permutation[i]] = k
        IN  addresses[permutation[IF i + streams <= n THEN i + streams
                                  ELSE ((i - 1) % streams) + 1]]]

\* What one pass of verify_pool_pfns finds.
verify_pool_pfns(pool, now) ==
    [moved |-> {p \in DOMAIN pool : read_one_pfn(now[p]) /\ now[p] # pool[p]},
     unreadable |-> {p \in DOMAIN pool : ~read_one_pfn(now[p])}]
=============================================================================
