--------------------------- MODULE DetectorProofs ---------------------------
(***************************************************************************)
(* TLAPS proofs about run_once of interference_detector.c, for every list  *)
(* of processes, every configuration and every number of intervals, while  *)
(* processes exit and pids are reused.                                     *)
(*                                                                         *)
(* The counters of a run are compared only when it ends; the inductive     *)
(* invariant says what they are in each of its three loops.                *)
(***************************************************************************)
EXTENDS InterferenceDetector, FiniteSetTheorems, WellFoundedInduction, TLAPS

-----------------------------------------------------------------------------
(* Sorting the candidates.                                                 *)

\* A sample of a stat file, and an active candidate: its samples are of one
\* process, as far as start times tell.
Sample == [life : Nat, start : Int]
Candidate == [pid : Pids, score : Int, of : {o \in SUBSET Sample : \A s, t \in o : s.start = t.start}]

\* The order of both qsorts: a higher score, or an equal one and a lower pid.
Ahead(score, pid, i, j) == score[i] > score[j] \/ (score[i] = score[j] /\ pid[i] < pid[j])

\* p puts all of 1..n in that order.
Orders(p, n, score, pid) ==
    /\ p \in [1..n -> 1..n]
    /\ \A i \in 1..n : \E k \in 1..n : p[k] = i
    /\ \A k, l \in 1..n : k < l => ~Ahead(score, pid, p[l], p[k])

\* Any number of candidates can be put in order: place each behind those
\* that come before it or, if equal, stood before it.
LEMMA OrderExists ==
  ASSUME NEW n \in Nat, NEW score \in [1..n -> Int], NEW pid \in [1..n -> Int]
  PROVE  \E p : Orders(p, n, score, pid)
<1> DEFINE I == 1..n
           Prec(i, j) == Ahead(score, pid, i, j) \/ (~Ahead(score, pid, j, i) /\ i < j)
           Below(i) == {j \in I : Prec(j, i)}
           rank == [i \in I |-> Cardinality(Below(i)) + 1]
<1>1. \A i \in I : score[i] \in Int /\ pid[i] \in Int /\ i \in Int
  OBVIOUS
<1>2. \A i \in I : ~Prec(i, i)
  BY <1>1 DEF Ahead
<1>3. \A i, j \in I : i # j => Prec(i, j) \/ Prec(j, i)
  BY <1>1 DEF Ahead
<1>4. \A i, j, k \in I : Prec(i, j) /\ Prec(j, k) => Prec(i, k)
  BY <1>1 DEF Ahead
<1>5. \A i, j \in I : Prec(i, j) => ~Ahead(score, pid, j, i)
  BY <1>1 DEF Ahead
<1> HIDE DEF Prec
<1>6. IsFiniteSet(I) /\ Cardinality(I) = n
  <2>1. 1 \in Int /\ n \in Int
    BY <1>1
  <2>2. IsFiniteSet(I) /\ Cardinality(I) = IF 1 > n THEN 0 ELSE n - 1 + 1
    BY <2>1, FS_Interval
  <2> QED BY <1>1, <2>2
<1>7. \A i \in I : IsFiniteSet(Below(i)) /\ Cardinality(Below(i)) \in Nat
  <2> TAKE i \in I
  <2>1. Below(i) \subseteq I
    OBVIOUS
  <2> HIDE DEF Below
  <2> QED BY <1>6, <2>1, FS_Subset, FS_CardinalityType
<1>8. \A i, j \in I : Prec(i, j) => Cardinality(Below(i)) < Cardinality(Below(j))
  <2> TAKE i, j \in I
  <2> HAVE Prec(i, j)
  <2>1. Below(i) \subseteq Below(j)
    BY <1>4
  <2>2. i \in Below(j) /\ i \notin Below(i)
    BY <1>2
  <2>3. Below(i) # Below(j)
    BY <2>2
  <2>4. IsFiniteSet(Below(j))
    BY <1>7
  <2> HIDE DEF Below
  <2> QED BY <2>1, <2>3, <2>4, FS_Subset, FS_CardinalityType
<1>9. \A i \in I : Cardinality(Below(i)) < n
  <2> TAKE i \in I
  <2>1. Below(i) \subseteq I /\ i \notin Below(i) /\ i \in I
    BY <1>2
  <2>2. Below(i) # I
    BY <2>1
  <2> HIDE DEF Below
  <2> QED BY <1>6, <2>1, <2>2, FS_Subset, FS_CardinalityType
<1> HIDE DEF Below
<1>10. rank \in [I -> I]
  BY <1>1, <1>7, <1>9
<1>11. \A i, j \in I : rank[i] < rank[j] <=> Cardinality(Below(i)) < Cardinality(Below(j))
  BY <1>7
<1>12. \A i, j \in I : rank[i] = rank[j] => i = j
  <2> SUFFICES ASSUME NEW i \in I, NEW j \in I, i # j PROVE rank[i] # rank[j]
    OBVIOUS
  <2>1. rank[i] < rank[j] \/ rank[j] < rank[i]
    BY <1>3, <1>8, <1>11
  <2> HIDE DEF rank
  <2> QED BY <1>1, <1>10, <2>1
<1> HIDE DEF rank
<1>13. \A r \in I : \E i \in I : rank[i] = r
  <2>1. rank \in Injection(I, I)
    BY <1>10, <1>12, Zenon DEF Injection, IsInjective
  <2>2. rank \in Surjection(I, I)
    BY <1>6, <2>1, FS_Injection
  <2> QED BY <2>2 DEF Surjection
<1> DEFINE p == [r \in I |-> CHOOSE i \in I : rank[i] = r]
<1>14. p \in [I -> I] /\ \A r \in I : rank[p[r]] = r
  BY <1>13
<1> HIDE DEF p
<1>15. \A i \in I : \E k \in I : p[k] = i
  <2> TAKE i \in I
  <2>1. rank[i] \in I /\ p[rank[i]] \in I /\ rank[p[rank[i]]] = rank[i]
    BY <1>10, <1>14
  <2>2. p[rank[i]] = i
    BY <1>12, <2>1
  <2> QED BY <2>1, <2>2
<1>16. \A k, l \in I : k < l => ~Ahead(score, pid, p[l], p[k])
  <2> TAKE k, l \in I
  <2> HAVE k < l
  <2>1. p[k] \in I /\ p[l] \in I /\ rank[p[k]] = k /\ rank[p[l]] = l
    BY <1>14
  <2>2. p[k] # p[l] /\ ~(rank[p[l]] < rank[p[k]])
    BY <1>1, <2>1
  <2>3. ~Prec(p[l], p[k])
    BY <1>8, <1>11, <2>1, <2>2
  <2>4. Prec(p[k], p[l])
    BY <1>3, <2>1, <2>2, <2>3
  <2> QED BY <1>5, <2>1, <2>4
<1> QED BY <1>14, <1>15, <1>16 DEF Orders

\* qsort with compare_active_candidate_desc loses no candidate and puts none
\* before a better one.
LEMMA SortedIs ==
  ASSUME NEW seq \in Seq(Candidate)
  PROVE  /\ Sorted(seq) \in Seq(Candidate) /\ Len(Sorted(seq)) = Len(seq)
         /\ \A k, l \in 1..Len(seq) : k < l => ~Before(Sorted(seq)[l], Sorted(seq)[k])
<1> DEFINE I == 1..Len(seq)
           Ok(p) == /\ \A i \in I : \E k \in I : p[k] = i
                    /\ \A k, l \in I : k < l => ~Before(seq[p[l]], seq[p[k]])
           order == CHOOSE p \in [I -> I] : Ok(p)
<1>1. \E p \in [I -> I] : Ok(p)
  <2> DEFINE score == [i \in I |-> seq[i].score]
             pid == [i \in I |-> seq[i].pid]
  <2>1. Len(seq) \in Nat /\ \A i \in I : seq[i].score \in Int /\ seq[i].pid \in Nat
    <3>1. Len(seq) \in Nat /\ \A i \in I : seq[i] \in Candidate
      OBVIOUS
    <3> QED BY <3>1, ProfileAssumption DEF Candidate
  <2>2. score \in [I -> Int] /\ pid \in [I -> Int]
    BY <2>1
  <2>3. \A i, j \in I : Ahead(score, pid, i, j) <=> Before(seq[i], seq[j])
    BY DEF Ahead, Before
  <2> HIDE DEF score, pid
  <2>4. PICK p : Orders(p, Len(seq), score, pid)
    BY <2>1, <2>2, OrderExists
  <2>5. p \in [I -> I] /\ (\A i \in I : \E k \in I : p[k] = i) /\ \A k, l \in I : k < l => ~Ahead(score, pid, p[l], p[k])
    BY <2>4 DEF Orders
  <2>6. \A k, l \in I : k < l => ~Before(seq[p[l]], seq[p[k]])
    BY <2>3, <2>5
  <2> QED BY <2>5, <2>6
<1>2. Sorted(seq) = [k \in I |-> seq[order[k]]]
  BY DEF Sorted
<1> HIDE DEF Ok
<1>3. order \in [I -> I] /\ Ok(order)
  BY <1>1
<1> HIDE DEF order
<1>4. \A k \in I : seq[order[k]] \in Candidate
  BY <1>3
<1>5. Sorted(seq) \in Seq(Candidate) /\ Len(Sorted(seq)) = Len(seq)
  BY <1>2, <1>4
<1> QED BY <1>2, <1>3, <1>5 DEF Ok

-----------------------------------------------------------------------------
(* bank_profile_build.                                                     *)

Entry == [bank_class : {class_of[f] : f \in Nat}, page_count : Nat]
Profile == [entries : Seq(Entry), pages_sampled : Nat, pages_translated : Nat, skipped : [Skips -> Nat]]
BuildCode == {"OK", "ADDR_OPEN", "OPEN_MAPS", "IO", "NO_SAMPLES", "TOO_MANY_CLASSES"}
BuildState == [pc : {"idle", "opening", "maps", "pages", "ending", "done"}, pid : Nat, life : Nat, lines : Nat,
               page : Nat, pages : Nat, rc : BuildCode]

KernelOK == kernel \in [Pids -> [exists : BOOLEAN, life : Nat \ {0}, start : Nat]]

\* The profile being built fits its array and the budget, and the files are
\* open only while it is being built.
BuildOK ==
    /\ profile \in Profile /\ build \in BuildState /\ build_files \subseteq {"maps", "pagemap"}
    /\ Len(profile.entries) <= BANK_PROFILE_MAX_ENTRIES
    /\ SampleBudgetKept /\ BuildClosesFiles

\* An empty profile has room and budget left.
LEMMA ResetProfile ==
  /\ bank_profile_reset \in Profile /\ Len(bank_profile_reset.entries) <= BANK_PROFILE_MAX_ENTRIES
  /\ max_pages_to_sample > 0 => bank_profile_reset.pages_sampled <= max_pages_to_sample
<1>1. <<>> \in Seq(Entry) /\ Len(<<>>) = 0 /\ [x \in Skips |-> 0] \in [Skips -> Nat]
  OBVIOUS
<1> QED BY <1>1, ProfileAssumption DEF bank_profile_reset, Profile

\* profile_add_bank_class_count never outgrows the array, and does not count
\* sampled pages.
LEMMA AddKeeps ==
  ASSUME NEW q \in Profile, Len(q.entries) <= BANK_PROFILE_MAX_ENTRIES,
         NEW class \in {class_of[f] : f \in Nat}, NEW count \in Nat
  PROVE  LET r == profile_add_bank_class_count(q, class, count)
         IN  /\ r.p \in Profile /\ Len(r.p.entries) <= BANK_PROFILE_MAX_ENTRIES
             /\ r.p.pages_sampled = q.pages_sampled /\ r.rc \in {"OK", "TOO_MANY_CLASSES"}
<1> DEFINE found == EntriesOf(q, class)
           m == Min(found)
           one == [q EXCEPT !.entries[m].page_count = @ + count]
           e == [bank_class |-> class, page_count |-> count]
           more == [q EXCEPT !.entries = Append(@, e)]
           r == profile_add_bank_class_count(q, class, count)
<1> SUFFICES /\ r.p \in Profile /\ Len(r.p.entries) <= BANK_PROFILE_MAX_ENTRIES
             /\ r.p.pages_sampled = q.pages_sampled /\ r.rc \in {"OK", "TOO_MANY_CLASSES"}
  OBVIOUS
<1>1. q.entries \in Seq(Entry) /\ Len(q.entries) \in Nat
  BY DEF Profile
<1>2. one \in Profile /\ Len(one.entries) = Len(q.entries) /\ one.pages_sampled = q.pages_sampled
  <2> DEFINE new == [q.entries[m] EXCEPT !.page_count = @ + count]
             es == [q.entries EXCEPT ![m] = new]
  <2>1. one = [q EXCEPT !.entries = es]
    OBVIOUS
  <2> HIDE DEF m
  <2>2. m \in 1..Len(q.entries) => new \in Entry
    <3>1. m \in 1..Len(q.entries) => q.entries[m] \in Entry
      BY <1>1
    <3> QED BY <3>1 DEF Entry
  <2> HIDE DEF new
  <2>3. es \in [1..Len(q.entries) -> Entry]
    <3> DEFINE f == q.entries
               D == 1..Len(q.entries)
    <3>1. f \in [D -> Entry]
      BY <1>1
    <3>2. es = [f EXCEPT ![m] = new] /\ (m \in D => new \in Entry)
      BY <2>2
    <3> HIDE DEF f, D, es
    <3>3. es \in [D -> Entry]
      BY <3>1, <3>2
    <3> QED BY <3>3 DEF D
  <2>4. es \in Seq(Entry) /\ Len(es) = Len(q.entries)
    BY <1>1, <2>3
  <2> HIDE DEF es, one
  <2> QED BY <2>1, <2>4 DEF Profile
<1>3. Len(q.entries) < BANK_PROFILE_MAX_ENTRIES =>
        /\ more \in Profile /\ Len(more.entries) <= BANK_PROFILE_MAX_ENTRIES
        /\ more.pages_sampled = q.pages_sampled
  <2>1. e \in Entry
    BY DEF Entry
  <2> HIDE DEF e
  <2>2. Append(q.entries, e) \in Seq(Entry) /\ Len(Append(q.entries, e)) = Len(q.entries) + 1
    BY <1>1, <2>1
  <2> DEFINE es == Append(q.entries, e)
  <2>3. more = [q EXCEPT !.entries = es]
    OBVIOUS
  <2>4. es \in Seq(Entry) /\ Len(es) = Len(q.entries) + 1
    BY <2>2
  <2> HIDE DEF es, more
  <2>5. more \in Profile /\ more.entries = es /\ more.pages_sampled = q.pages_sampled
    BY <2>3, <2>4 DEF Profile
  <2> QED BY <1>1, <2>4, <2>5, ProfileAssumption
<1>4. r = IF count = 0 THEN [rc |-> "OK", p |-> q]
          ELSE IF found # {} THEN [rc |-> "OK", p |-> one]
          ELSE IF Len(q.entries) >= BANK_PROFILE_MAX_ENTRIES THEN [rc |-> "TOO_MANY_CLASSES", p |-> q]
          ELSE [rc |-> "OK", p |-> more]
  BY DEF profile_add_bank_class_count
<1> HIDE DEF found, one, more, r
<1>5. CASE Len(q.entries) >= BANK_PROFILE_MAX_ENTRIES
  BY <1>2, <1>4, <1>5
<1>6. CASE ~(Len(q.entries) >= BANK_PROFILE_MAX_ENTRIES)
  <2>1. Len(q.entries) < BANK_PROFILE_MAX_ENTRIES
    BY <1>1, <1>6, ProfileAssumption
  <2> QED BY <1>2, <1>3, <1>4, <2>1
<1> QED BY <1>5, <1>6

\* count_translation_skip only counts the reason.
LEMMA SkipKeeps ==
  ASSUME NEW q \in Profile, NEW code
  PROVE  LET r == count_translation_skip(q, code)
         IN  r \in Profile /\ r.entries = q.entries /\ r.pages_sampled = q.pages_sampled
<1> DEFINE kind == IF code = "NOT_PRESENT" THEN "not_present"
                   ELSE IF code = "SWAPPED" THEN "swapped"
                   ELSE IF code = "PFN_UNAVAILABLE" THEN "pfn_unavailable"
                   ELSE "translation_error"
           sk == [q.skipped EXCEPT ![kind] = @ + 1]
<1>1. kind \in Skips
  BY DEF Skips
<1>2. count_translation_skip(q, code) = [q EXCEPT !.skipped = sk]
  BY DEF count_translation_skip
<1> HIDE DEF kind
<1>3. sk \in [Skips -> Nat]
  BY <1>1 DEF Profile
<1> HIDE DEF sk
<1> QED BY <1>2, <1>3 DEF Profile

\* bank_profile_build starts: it has the maps open or has failed.
LEMMA BuildOpenKeeps ==
  ASSUME KernelOK, BuildOK, NEW pid \in Pids, BuildOpen(pid)
  PROVE  BuildOK' /\ build.pc = "idle" /\ build'.pc # "idle"
<1>1. build.pc = "idle" /\ build_files = {} /\ profile' = bank_profile_reset
  BY DEF BuildOpen, BuildOK, BuildClosesFiles
<1>2. pid \in Nat /\ kernel[pid].life \in Nat
  BY ProfileAssumption DEF KernelOK
<1>3. Idle \in BuildState
  BY DEF Idle, BuildState, BuildCode
<1>4. CASE /\ build' = [Idle EXCEPT !.pc = "opening", !.pid = pid, !.life = kernel[pid].life]
           /\ build_files' = {"maps"}
  <2>1. build' \in BuildState /\ build'.pc = "opening"
    BY <1>2, <1>3, <1>4 DEF BuildState
  <2> QED BY <1>1, <1>4, <2>1, ResetProfile DEF BuildOK, SampleBudgetKept, BuildClosesFiles, Profile, BuildState,
             Entry, BuildCode, Skips
<1>5. CASE /\ build' = [Idle EXCEPT !.pc = "done", !.pid = pid, !.rc = "OPEN_MAPS"]
           /\ UNCHANGED build_files
  <2>1. build' \in BuildState /\ build'.pc = "done"
    BY <1>2, <1>3, <1>5 DEF BuildState, BuildCode
  <2> QED BY <1>1, <1>5, <2>1, ResetProfile DEF BuildOK, SampleBudgetKept, BuildClosesFiles, Profile, BuildState,
             Entry, BuildCode, Skips
<1> QED BY <1>1, <1>4, <1>5 DEF BuildOpen

\* The caller takes the finished profile.
LEMMA BuildConsumedKeeps ==
  ASSUME BuildOK, build.pc = "done", BuildConsumed
  PROVE  BuildOK' /\ build'.pc = "idle"
<1>1. Idle \in BuildState /\ Idle.pc = "idle"
  BY DEF Idle, BuildState, BuildCode
<1>2. build' = Idle /\ profile' = bank_profile_reset /\ build_files' = build_files /\ build_files = {}
  BY DEF BuildConsumed, BuildOK, BuildClosesFiles
<1> QED BY <1>1, <1>2, ResetProfile DEF BuildOK, SampleBudgetKept, BuildClosesFiles, Profile, BuildState,
           Entry, BuildCode, Skips

\* What BuildOK says of the next state, in terms of primed variables.
LEMMA BuildOKNext ==
  ASSUME profile' \in Profile, build' \in BuildState, build_files' \subseteq {"maps", "pagemap"},
         Len(profile'.entries) <= BANK_PROFILE_MAX_ENTRIES,
         max_pages_to_sample > 0 => profile'.pages_sampled <= max_pages_to_sample,
         build'.pc \in {"idle", "done"} => build_files' = {}
  PROVE  BuildOK'
BY DEF BuildOK, SampleBudgetKept, BuildClosesFiles, Profile, BuildState, Entry, BuildCode, Skips

\* Every path out of bank_profile_build closes both files.
LEMMA ReturnIs ==
  ASSUME BuildOK, NEW code \in BuildCode, Return(code)
  PROVE  build' \in BuildState /\ build'.pc = "done" /\ build_files' = {}
BY DEF BuildOK, Return, BuildState

\* One page: it is counted within the budget, and the histogram keeps its
\* bound.
LEMMA BuildPageKeeps ==
  ASSUME BuildOK, BuildPage
  PROVE  BuildOK' /\ build.pc # "idle" /\ build'.pc # "idle"
<1>1. /\ profile \in Profile /\ build \in BuildState /\ build_files \subseteq {"maps", "pagemap"}
      /\ Len(profile.entries) <= BANK_PROFILE_MAX_ENTRIES /\ build.pc = "pages" /\ SamplesLeft
  BY DEF BuildOK, BuildPage, MorePages
<1> DEFINE sampled == [profile EXCEPT !.pages_sampled = @ + 1]
           counted == [sampled EXCEPT !.pages_translated = @ + 1]
           added(e) == profile_add_bank_class_count(counted, class_of[e.pfn], 1)
<1>2. PICK e \in IF Readable THEN PageEntries ELSE {Unreadable} :
        \/ /\ TranslateCode(e) # "OK"
           /\ profile' = count_translation_skip(sampled, TranslateCode(e))
           /\ build' = [build EXCEPT !.page = @ + Larger(sample_stride_pages, 1)]
           /\ UNCHANGED build_files
        \/ /\ TranslateCode(e) = "OK" /\ added(e).rc = "OK"
           /\ profile' = added(e).p
           /\ build' = [build EXCEPT !.page = @ + Larger(sample_stride_pages, 1)]
           /\ UNCHANGED build_files
        \/ /\ TranslateCode(e) = "OK" /\ added(e).rc # "OK"
           /\ profile' = added(e).p
           /\ Return(added(e).rc)
  BY DEF BuildPage
<1>3. /\ sampled \in Profile /\ sampled.entries = profile.entries
      /\ sampled.pages_sampled = profile.pages_sampled + 1
  BY <1>1 DEF Profile
<1> HIDE DEF sampled
<1>4. /\ counted \in Profile /\ counted.entries = profile.entries
      /\ counted.pages_sampled = profile.pages_sampled + 1
  BY <1>3 DEF Profile
<1> HIDE DEF counted
<1>5. class_of[e.pfn] \in {class_of[f] : f \in Nat}
  <2>1. e.pfn \in Nat
    <3>1. PageEntries \subseteq PageEntry /\ Unreadable.pfn = 0
      BY ProfileAssumption DEF Unreadable
    <3> QED BY <1>2, <3>1 DEF PageEntry
  <2> QED BY <2>1
<1>6. /\ added(e).p \in Profile /\ Len(added(e).p.entries) <= BANK_PROFILE_MAX_ENTRIES
      /\ added(e).p.pages_sampled = profile.pages_sampled + 1 /\ added(e).rc \in {"OK", "TOO_MANY_CLASSES"}
  <2>1. Len(counted.entries) <= BANK_PROFILE_MAX_ENTRIES /\ 1 \in Nat
    BY <1>1, <1>4
  <2> QED BY <1>4, <1>5, <2>1, AddKeeps
<1> HIDE DEF added
<1>7. profile.pages_sampled \in Nat /\ (max_pages_to_sample > 0 => profile.pages_sampled + 1 <= max_pages_to_sample)
  BY <1>1, ProfileAssumption DEF SamplesLeft, Profile
<1>8. build.page + Larger(sample_stride_pages, 1) \in Nat
  BY <1>1, ProfileAssumption DEF BuildState, Larger
<1>9. CASE /\ profile' = count_translation_skip(sampled, TranslateCode(e))
           /\ build' = [build EXCEPT !.page = @ + Larger(sample_stride_pages, 1)] /\ UNCHANGED build_files
  <2>1. /\ profile' \in Profile /\ profile'.entries = profile.entries
        /\ profile'.pages_sampled = profile.pages_sampled + 1
    BY <1>3, <1>9, SkipKeeps
  <2>2. build' \in BuildState /\ build'.pc = "pages"
    BY <1>1, <1>8, <1>9 DEF BuildState
  <2> QED BY <1>1, <1>7, <1>9, <2>1, <2>2, BuildOKNext
<1>10. CASE /\ profile' = added(e).p
            /\ build' = [build EXCEPT !.page = @ + Larger(sample_stride_pages, 1)] /\ UNCHANGED build_files
  <2>1. build' \in BuildState /\ build'.pc = "pages"
    BY <1>1, <1>8, <1>10 DEF BuildState
  <2> QED BY <1>1, <1>6, <1>7, <1>10, <2>1, BuildOKNext
<1>11. CASE profile' = added(e).p /\ Return(added(e).rc)
  <2>0. added(e).rc \in BuildCode
    BY <1>6 DEF BuildCode
  <2>1. build' \in BuildState /\ build'.pc = "done" /\ build_files' = {}
    BY <1>11, <2>0, ReturnIs
  <2> QED BY <1>1, <1>6, <1>7, <1>11, <2>1, BuildOKNext
<1> QED BY <1>2, <1>9, <1>10, <1>11

\* The steps of bank_profile_build.
LEMMA BuildStepKeeps ==
  ASSUME BuildOK, BuildStep
  PROVE  BuildOK' /\ build.pc # "idle" /\ build'.pc # "idle"
<1>1. /\ profile \in Profile /\ build \in BuildState /\ build_files \subseteq {"maps", "pagemap"}
      /\ Len(profile.entries) <= BANK_PROFILE_MAX_ENTRIES
      /\ max_pages_to_sample > 0 => profile.pages_sampled <= max_pages_to_sample
  BY DEF BuildOK, SampleBudgetKept
<1>2. CASE BuildRegion
  <2>1. build.pc = "maps" /\ profile' = profile /\ build_files' = build_files
    BY <1>2 DEF BuildRegion
  <2>2. PICK r \in Regions :
          build' = IF region_is_selected(r)
                     THEN [build EXCEPT !.lines = @ + 1, !.pc = "pages", !.page = 0, !.pages = r.pages]
                     ELSE [build EXCEPT !.lines = @ + 1]
    BY <1>2 DEF BuildRegion
  <2>3. r.pages \in Nat
    <3>1. r \in Region
      BY ProfileAssumption
    <3> QED BY <3>1 DEF Region
  <2> DEFINE b == [build EXCEPT !.lines = @ + 1]
  <2>4. build' \in BuildState /\ build'.pc \in {"maps", "pages"}
    <3>1. b \in BuildState /\ b.pc = "maps"
      BY <1>1, <2>1 DEF BuildState
    <3>2. build' = IF region_is_selected(r) THEN [b EXCEPT !.pc = "pages", !.page = 0, !.pages = r.pages] ELSE b
      BY <2>2
    <3> HIDE DEF b
    <3>3. CASE region_is_selected(r)
      BY <2>3, <3>1, <3>2, <3>3 DEF BuildState
    <3>4. CASE ~region_is_selected(r)
      BY <3>1, <3>2, <3>4
    <3> QED BY <3>3, <3>4
  <2> QED BY <1>1, <2>1, <2>4, BuildOKNext
<1>3. CASE BuildPage
  BY <1>3, BuildPageKeeps
<1>4. CASE BuildRegionEnd
  <2>1. /\ build.pc = "pages" /\ profile' = profile /\ build_files' = build_files
        /\ build' \in BuildState /\ build'.pc \in {"maps", "ending"}
    BY <1>1, <1>4 DEF BuildRegionEnd, BuildState
  <2> QED BY <1>1, <2>1, BuildOKNext
<1>5. CASE BuildEnd
  <2>1. build.pc # "idle" /\ profile' = profile /\ \E code \in BuildCode : Return(code)
    BY <1>5 DEF BuildEnd, BuildCode
  <2>2. build' \in BuildState /\ build'.pc = "done" /\ build_files' = {}
    BY <2>1, ReturnIs
  <2> QED BY <1>1, <2>1, <2>2, BuildOKNext
<1>6. CASE BuildOpenPagemap
  <2>1. build.pc = "opening" /\ profile' = profile
    BY <1>6 DEF BuildOpenPagemap
  <2>2. CASE build' = [build EXCEPT !.pc = "maps"] /\ build_files' = {"maps", "pagemap"}
    <3>1. build' \in BuildState /\ build'.pc = "maps"
      BY <1>1, <2>2 DEF BuildState
    <3> QED BY <1>1, <2>1, <2>2, <3>1, BuildOKNext
  <2>3. CASE Return("ADDR_OPEN")
    <3>1. "ADDR_OPEN" \in BuildCode
      BY DEF BuildCode
    <3>2. build' \in BuildState /\ build'.pc = "done" /\ build_files' = {}
      BY <2>3, <3>1, ReturnIs
    <3> QED BY <1>1, <2>1, <3>2, BuildOKNext
  <2> QED BY <1>6, <2>2, <2>3 DEF BuildOpenPagemap
<1> QED BY <1>2, <1>3, <1>4, <1>5, <1>6 DEF BuildStep

-----------------------------------------------------------------------------
(* The inductive invariant.                                                *)

Process == [pid : Pids, role : {"NORMAL", "PROTECTED"}, alive : BOOLEAN, sample : Sample,
            faulted : BOOLEAN]
StatsRecord ==
    [protected_processes : Nat, protected_profiles_built : Nat, normal_processes : Nat,
     activity_samples : Nat, activity_errors : Nat, active_normal_candidates : Nat,
     normal_profiles_built : Nat, profile_errors : Nat, output_candidates : Nat]

IsSeq(x) == \E S : x \in Seq(S)

\* The list of processes.  A running process is given up only if its own
\* sample failed, or once the streams that sample_now leaves open have used
\* up all descriptors.
ListOK ==
    /\ processes \in [1..Len(Listed) -> Process]
    /\ stat_files \in 0..MaxFiles
    /\ stat_files < MaxFiles => TrackedWhileAlive

JobOK ==
    /\ DOMAIN job = DOMAIN NoJob /\ job = [x \in DOMAIN job |-> job[x]]
    /\ job.phase \in {"idle", "protected", "collect", "overlap"}
    /\ job.i \in Nat /\ (job.phase # "idle" => job.i > 0)
    /\ job.active \in Seq(Candidate) /\ IsSeq(job.produced)
    /\ job.phase # "overlap" => job.produced = <<>>

\* In which loop a profile is being built, how far the last loop may go, and
\* that it goes through sorted candidates.
Loops ==
    /\ job.phase \in {"idle", "collect"} => build.pc = "idle"
    /\ job.phase = "overlap" =>
         /\ job.i <= Limit(Len(job.active)) + 1
         /\ build.pc # "idle" => job.i <= Limit(Len(job.active))
         /\ \A k, l \in 1..Len(job.active) : k < l => ~Before(job.active[l], job.active[k])

Pending == IF build.pc = "idle" THEN 0 ELSE 1
FailedProtected == stats.protected_processes - stats.protected_profiles_built

SamplesAddUp ==
    /\ stats.activity_samples <= stats.normal_processes
    /\ stats.normal_processes - stats.activity_samples <= stats.activity_errors

\* What the counters are in each loop; a profile being built is counted as
\* tried, and not yet as built or failed.
Counters ==
    /\ job.phase = "protected" =>
         /\ stats.normal_profiles_built = 0 /\ stats.profile_errors + Pending = FailedProtected
    /\ job.phase = "collect" => stats.normal_profiles_built = 0 /\ stats.profile_errors = FailedProtected
    /\ job.phase = "overlap" =>
         /\ stats.normal_profiles_built = Len(job.produced) /\ Len(job.produced) <= job.i - 1
         /\ stats.active_normal_candidates = Len(job.active)
         /\ stats.profile_errors = FailedProtected + (job.i - 1 - Len(job.produced))
    /\ job.phase # "idle" => SamplesAddUp

OutOK ==
    /\ stats \in StatsRecord /\ runs \in Nat
    /\ limits \in Limits
    /\ IsSeq(out) /\ Len(out) <= out_cap
    /\ StatsAddUp

DetIndInv == KernelOK /\ BuildOK /\ ListOK /\ JobOK /\ Loops /\ Counters /\ OutOK

-----------------------------------------------------------------------------
(* Next-state forms of its parts.                                          *)

\* The limit is one of the three bounds.
LEMMA LimitType ==
  ASSUME OutOK, NEW n \in Nat
  PROVE  Limit(n) \in Nat /\ Limit(n) <= n /\ Limit(n) <= out_cap /\ out_cap \in Nat
BY DetectorAssumption DEF OutOK, Limit, max_normal_candidates, out_cap, Smaller

\* A sequence stays one when an element is appended.
LEMMA AppendIsSeq ==
  ASSUME NEW q, NEW x, IsSeq(q)
  PROVE  IsSeq(Append(q, x)) /\ Len(q) \in Nat /\ Len(Append(q, x)) = Len(q) + 1
<1>1. PICK S : q \in Seq(S)
  BY DEF IsSeq
<1>2. q \in Seq(S \cup {x})
  BY <1>1
<1>3. Append(q, x) \in Seq(S \cup {x}) /\ Len(q) \in Nat /\ Len(Append(q, x)) = Len(q) + 1
  BY <1>2
<1> QED BY <1>3 DEF IsSeq

\* The empty sequence is one.
LEMMA EmptyIsSeq == IsSeq(<<>>) /\ Len(<<>>) = 0
<1>1. <<>> \in Seq({}) /\ Len(<<>>) = 0
  OBVIOUS
<1> QED BY <1>1 DEF IsSeq

\* JobOK of the next state.
LEMMA JobOKNext ==
  ASSUME DOMAIN job' = DOMAIN NoJob, job' = [x \in DOMAIN job' |-> job'[x]],
         job'.phase \in {"idle", "protected", "collect", "overlap"},
         job'.i \in Nat, job'.phase # "idle" => job'.i > 0,
         job'.active \in Seq(Candidate), IsSeq(job'.produced),
         job'.phase # "overlap" => job'.produced = <<>>
  PROVE  JobOK'
BY DEF JobOK, IsSeq, Candidate, Sample, NoJob

\* run_once returns.
LEMMA LeaveIs ==
  ASSUME NEW code, Leave(code)
  PROVE  JobOK' /\ job'.phase = "idle" /\ rc' = code /\ job'.produced = <<>>
<1>1. job' = NoJob /\ rc' = code
  BY DEF Leave
<1>2. <<>> \in Seq(Candidate)
  OBVIOUS
<1>3. /\ NoJob.phase = "idle" /\ NoJob.i = 0 /\ NoJob.active = <<>> /\ NoJob.produced = <<>>
      /\ NoJob = [x \in DOMAIN NoJob |-> NoJob[x]]
  BY DEF NoJob
<1> HIDE DEF NoJob
<1> QED BY <1>1, <1>2, <1>3, EmptyIsSeq, JobOKNext

\* The values of the counters of one loop, of the next state.
LEMMA LoopsNext ==
  ASSUME job'.phase \in {"idle", "collect"} => build'.pc = "idle",
         job'.phase = "overlap" =>
           /\ limits' = limits
           /\ job'.i <= Limit(Len(job'.active)) + 1
           /\ build'.pc # "idle" => job'.i <= Limit(Len(job'.active))
           /\ \A k, l \in 1..Len(job'.active) : k < l => ~Before(job'.active[l], job'.active[k])
  PROVE  Loops'
BY DEF Loops, Limit, max_normal_candidates, out_cap, Smaller, Before

\* The same for the counters of stats.
LEMMA CountersNext ==
  ASSUME job'.phase = "protected" =>
           /\ stats'.normal_profiles_built = 0
           /\ stats'.profile_errors + (IF build'.pc = "idle" THEN 0 ELSE 1)
                = stats'.protected_processes - stats'.protected_profiles_built,
         job'.phase = "collect" =>
           /\ stats'.normal_profiles_built = 0
           /\ stats'.profile_errors = stats'.protected_processes - stats'.protected_profiles_built,
         job'.phase = "overlap" =>
           /\ stats'.normal_profiles_built = Len(job'.produced) /\ Len(job'.produced) <= job'.i - 1
           /\ stats'.active_normal_candidates = Len(job'.active)
           /\ stats'.profile_errors = (stats'.protected_processes - stats'.protected_profiles_built)
                                         + (job'.i - 1 - Len(job'.produced)),
         job'.phase # "idle" =>
           /\ stats'.activity_samples <= stats'.normal_processes
           /\ stats'.normal_processes - stats'.activity_samples <= stats'.activity_errors
  PROVE  Counters'
BY DEF Counters, Pending, FailedProtected, SamplesAddUp

\* OutOK while run_once goes on, or when it fails.
LEMMA OutOKNext ==
  ASSUME OutOK, stats' \in StatsRecord, runs' \in Nat, out' = out \/ out' = <<>>,
         limits' = limits,
         job'.phase # "idle" \/ rc' # "OK"
  PROVE  OutOK'
<1>1. IsSeq(out') /\ Len(out') <= out_cap /\ limits' \in Limits
  BY EmptyIsSeq, LimitType DEF OutOK
<1> QED BY <1>1 DEF OutOK, out_cap, StatsAddUp, StatsRecord, IsSeq

\* The list of processes as it is.
LEMMA ListUnchanged ==
  ASSUME ListOK, processes' = processes, stat_files' = stat_files, kernel' = kernel
  PROVE  ListOK'
BY DEF ListOK, TrackedWhileAlive, Process, Sample

\* The kernel as it is.
LEMMA KernelUnchanged ==
  ASSUME KernelOK, kernel' = kernel
  PROVE  KernelOK'
BY DEF KernelOK

\* bank_profile_build as it is.
LEMMA BuildUnchanged ==
  ASSUME BuildOK, UNCHANGED profVars
  PROVE  BuildOK' /\ build' = build
<1>1. profile' = profile /\ build' = build /\ build_files' = build_files
  BY DEF profVars
<1> QED BY <1>1, BuildOKNext DEF BuildOK, SampleBudgetKept, BuildClosesFiles

\* run_once does nothing, and whether a profile is being built stays so.
LEMMA RunUnchanged ==
  ASSUME JobOK, Loops, Counters, OutOK, job' = job, stats' = stats, out' = out, rc' = rc, runs' = runs,
         limits' = limits,
         build.pc = "idle" <=> build'.pc = "idle"
  PROVE  JobOK' /\ Loops' /\ Counters' /\ OutOK'
<1>1. JobOK'
  BY JobOKNext DEF JobOK
<1>2. Loops'
  BY LoopsNext DEF Loops
<1>3. Counters'
  BY CountersNext DEF Counters, Pending, FailedProtected, SamplesAddUp
<1>4. OutOK'
  BY DEF OutOK, StatsAddUp, StatsRecord, IsSeq, Limit, max_normal_candidates, out_cap, Smaller
<1> QED BY <1>1, <1>2, <1>3, <1>4

-----------------------------------------------------------------------------
(* The steps of run_once.                                                  *)

\* The job is a record whatever its aggregate and history are.
LEMMA JobFields ==
  ASSUME JobOK
  PROVE  /\ DOMAIN job = {"phase", "i", "aggregate", "observed", "active", "produced"}
         /\ DOMAIN job = DOMAIN NoJob /\ job = [x \in DOMAIN job |-> job[x]]
         /\ job.phase \in {"idle", "protected", "collect", "overlap"} /\ job.i \in Nat
         /\ job.active \in Seq(Candidate) /\ IsSeq(job.produced)
BY DEF JobOK, NoJob

\* Only the index advances.
LEMMA IndexAdvances ==
  ASSUME JobOK, job.phase # "idle", job' = [job EXCEPT !.i = @ + 1]
  PROVE  /\ JobOK' /\ job'.phase = job.phase /\ job'.i = job.i + 1
         /\ job'.active = job.active /\ job'.produced = job.produced
<1>1. /\ job'.phase = job.phase /\ job'.i = job.i + 1 /\ job'.active = job.active
      /\ job'.produced = job.produced
      /\ DOMAIN job' = DOMAIN job /\ job' = [x \in DOMAIN job' |-> job'[x]]
  BY JobFields
<1> QED BY <1>1, JobFields, JobOKNext DEF JobOK

\* run_once begins with empty counters, or returns at once.
LEMMA BeginKeeps ==
  ASSUME DetIndInv, Begin
  PROVE  DetIndInv'
<1>1. KernelOK /\ BuildOK /\ ListOK /\ JobOK /\ Loops /\ Counters /\ OutOK
  BY DEF DetIndInv
<1>2. /\ kernel' = kernel /\ UNCHANGED profVars /\ stat_files' = stat_files /\ processes' = processes
      /\ runs' = runs + 1 /\ limits' = limits /\ out' = <<>> /\ stats' = NoStats /\ job.phase = "idle"
  BY DEF Begin
<1>3. KernelOK' /\ BuildOK' /\ ListOK' /\ build' = build /\ build.pc = "idle"
  BY <1>1, <1>2, KernelUnchanged, BuildUnchanged, ListUnchanged DEF Loops
<1>4. stats' \in StatsRecord /\ runs' \in Nat
  BY <1>1, <1>2 DEF StatsRecord, NoStats, OutOK
<1>5. CASE job' = [NoJob EXCEPT !.phase = "protected", !.i = 1]
  <2>1. <<>> \in Seq(Candidate)
    OBVIOUS
  <2>2. /\ job'.phase = "protected" /\ job'.i = 1 /\ job'.active = <<>> /\ job'.produced = <<>>
        /\ DOMAIN job' = DOMAIN NoJob /\ job' = [x \in DOMAIN job' |-> job'[x]]
    BY <1>5 DEF NoJob
  <2>3. JobOK'
    BY <2>1, <2>2, EmptyIsSeq, JobOKNext
  <2>4. Loops'
    BY <2>2, LoopsNext
  <2>5. Counters'
    BY <1>2, <1>3, <2>2, CountersNext DEF NoStats
  <2>6. OutOK'
    BY <1>1, <1>2, <1>4, <2>2, OutOKNext
  <2> QED BY <1>3, <2>3, <2>4, <2>5, <2>6 DEF DetIndInv
<1>6. CASE Leave("NO_MAPPING")
  <2>1. JobOK' /\ job'.phase = "idle" /\ rc' = "NO_MAPPING"
    BY <1>6, LeaveIs
  <2>2. Loops' /\ Counters'
    BY <1>3, <2>1, LoopsNext, CountersNext
  <2>3. OutOK'
    BY <1>1, <1>2, <1>4, <2>1, OutOKNext
  <2> QED BY <1>3, <2>1, <2>2, <2>3 DEF DetIndInv
<1> QED BY <1>5, <1>6 DEF Begin

\* The length of the list, and its entry at the index of a loop.
LEMMA CurrentIs ==
  ASSUME ListOK, JobOK, job.phase # "idle"
  PROVE  /\ Len(processes) = Len(Listed) /\ Len(Listed) \in Nat
         /\ job.i <= Len(processes) => job.i \in 1..Len(Listed) /\ Current \in Process
<1>1. Len(Listed) \in Nat
  BY DetectorAssumption
<1>2. processes \in [1..Len(Listed) -> Process]
  BY DEF ListOK
<1>3. processes \in Seq(Process) /\ Len(processes) = Len(Listed)
  BY <1>1, <1>2
<1>4. job.i \in Nat /\ job.i > 0
  BY DEF JobOK
<1> QED BY <1>1, <1>2, <1>3, <1>4 DEF Current

\* build_protected_aggregate_profile starts on a process or skips it.
LEMMA ProfileProtectedKeeps ==
  ASSUME DetIndInv, ProfileProtected
  PROVE  DetIndInv'
<1>1. KernelOK /\ BuildOK /\ ListOK /\ JobOK /\ Loops /\ Counters /\ OutOK
  BY DEF DetIndInv
<1>2. /\ kernel' = kernel /\ stat_files' = stat_files /\ processes' = processes
      /\ out' = out /\ rc' = rc /\ runs' = runs /\ limits' = limits
      /\ job.phase = "protected" /\ build.pc = "idle" /\ job.i <= Len(processes)
  BY DEF ProfileProtected
<1>3. KernelOK' /\ ListOK' /\ stats \in StatsRecord /\ runs \in Nat
  BY <1>1, <1>2, KernelUnchanged, ListUnchanged DEF OutOK
<1>4. CASE BuildOpen(Current.pid) /\ Count("protected_processes") /\ UNCHANGED job
  <2>1. Current.pid \in Pids
    BY <1>1, <1>2, CurrentIs DEF Process
  <2>2. BuildOK' /\ build'.pc # "idle"
    BY <1>1, <1>4, <2>1, BuildOpenKeeps
  <2>3. /\ stats' \in StatsRecord /\ stats'.protected_processes = stats.protected_processes + 1
        /\ stats'.protected_profiles_built = stats.protected_profiles_built
        /\ stats'.normal_profiles_built = stats.normal_profiles_built
        /\ stats'.profile_errors = stats.profile_errors
        /\ stats'.activity_samples = stats.activity_samples
        /\ stats'.normal_processes = stats.normal_processes
        /\ stats'.activity_errors = stats.activity_errors
    BY <1>3, <1>4 DEF Count, StatsRecord
  <2>4. JobOK'
    BY <1>1, <1>4, JobOKNext DEF JobOK
  <2>5. Loops'
    BY <1>2, <1>4, LoopsNext
  <2>6. /\ stats.normal_profiles_built = 0
        /\ stats.profile_errors = stats.protected_processes - stats.protected_profiles_built
        /\ stats.activity_samples <= stats.normal_processes
        /\ stats.normal_processes - stats.activity_samples <= stats.activity_errors
    BY <1>1, <1>2, <1>3 DEF Counters, Pending, FailedProtected, SamplesAddUp, StatsRecord
  <2>7. Counters'
    BY <1>2, <1>3, <1>4, <2>2, <2>3, <2>6, CountersNext DEF StatsRecord
  <2>8. OutOK'
    BY <1>1, <1>2, <1>3, <1>4, <2>3, OutOKNext
  <2> QED BY <1>3, <2>2, <2>4, <2>5, <2>7, <2>8 DEF DetIndInv
<1>5. CASE job' = [job EXCEPT !.i = @ + 1] /\ UNCHANGED <<profVars, stats>>
  <2>1. BuildOK' /\ build' = build
    BY <1>1, <1>5, BuildUnchanged
  <2>2. JobOK' /\ job'.phase = "protected"
    BY <1>1, <1>2, <1>5, IndexAdvances
  <2>3. Loops'
    BY <2>2, LoopsNext
  <2>4. Counters'
    BY <1>1, <1>2, <1>5, <2>1, <2>2, CountersNext DEF Counters, Pending, FailedProtected, SamplesAddUp
  <2>5. OutOK'
    BY <1>1, <1>2, <1>3, <1>5, <2>2, OutOKNext
  <2> QED BY <1>3, <2>1, <2>2, <2>3, <2>4, <2>5 DEF DetIndInv
<1> QED BY <1>4, <1>5 DEF ProfileProtected

\* The finished profile is merged, counted as an error, or ends the run.
LEMMA MergeProtectedKeeps ==
  ASSUME DetIndInv, MergeProtected
  PROVE  DetIndInv'
<1>1. KernelOK /\ BuildOK /\ ListOK /\ JobOK /\ Loops /\ Counters /\ OutOK
  BY DEF DetIndInv
<1>2. /\ kernel' = kernel /\ stat_files' = stat_files /\ processes' = processes /\ out' = out
      /\ runs' = runs /\ limits' = limits /\ job.phase = "protected" /\ build.pc = "done" /\ BuildConsumed
  BY DEF MergeProtected
<1>3. /\ KernelOK' /\ ListOK' /\ stats \in StatsRecord /\ runs \in Nat /\ BuildOK' /\ build'.pc = "idle"
      /\ job.produced = <<>>
  BY <1>1, <1>2, KernelUnchanged, ListUnchanged, BuildConsumedKeeps DEF OutOK, JobOK
<1>4. /\ stats.normal_profiles_built = 0
      /\ stats.profile_errors + 1 = stats.protected_processes - stats.protected_profiles_built
      /\ stats.activity_samples <= stats.normal_processes
      /\ stats.normal_processes - stats.activity_samples <= stats.activity_errors
  BY <1>1, <1>2 DEF Counters, Pending, FailedProtected, SamplesAddUp
<1> DEFINE merged == bank_profile_merge(job.aggregate, profile)
<1>5. \/ Count("profile_errors") /\ job' = [job EXCEPT !.i = @ + 1] /\ UNCHANGED rc
      \/ /\ Count("protected_profiles_built") /\ job' = [job EXCEPT !.i = @ + 1, !.aggregate = merged.p]
         /\ UNCHANGED rc
      \/ Count("profile_errors") /\ Leave("PROFILE")
  BY DEF MergeProtected
<1> HIDE DEF merged
<1>6. CASE Count("profile_errors") /\ job' = [job EXCEPT !.i = @ + 1]
  <2>1. JobOK' /\ job'.phase = "protected"
    BY <1>1, <1>2, <1>6, IndexAdvances
  <2>2. /\ stats' \in StatsRecord /\ stats'.profile_errors = stats.profile_errors + 1
        /\ stats'.protected_processes = stats.protected_processes
        /\ stats'.protected_profiles_built = stats.protected_profiles_built
        /\ stats'.normal_profiles_built = stats.normal_profiles_built
        /\ stats'.activity_samples = stats.activity_samples
        /\ stats'.normal_processes = stats.normal_processes
        /\ stats'.activity_errors = stats.activity_errors
    BY <1>3, <1>6 DEF Count, StatsRecord
  <2>3. Loops'
    BY <2>1, LoopsNext
  <2>4. Counters'
    BY <1>3, <1>4, <2>1, <2>2, CountersNext DEF StatsRecord
  <2>5. OutOK'
    BY <1>1, <1>2, <1>3, <2>1, <2>2, OutOKNext
  <2> QED BY <1>3, <2>1, <2>3, <2>4, <2>5 DEF DetIndInv
<1>7. CASE Count("protected_profiles_built") /\ job' = [job EXCEPT !.i = @ + 1, !.aggregate = merged.p]
  <2>1. JobOK' /\ job'.phase = "protected"
    <3>1. /\ job'.phase = "protected" /\ job'.i = job.i + 1 /\ job'.active = job.active
          /\ job'.produced = job.produced
          /\ DOMAIN job' = DOMAIN job /\ job' = [x \in DOMAIN job' |-> job'[x]]
      BY <1>1, <1>2, <1>7, JobFields
    <3> QED BY <1>1, <1>2, <1>3, <3>1, JobFields, JobOKNext
  <2>2. /\ stats' \in StatsRecord /\ stats'.profile_errors = stats.profile_errors
        /\ stats'.protected_processes = stats.protected_processes
        /\ stats'.protected_profiles_built = stats.protected_profiles_built + 1
        /\ stats'.normal_profiles_built = stats.normal_profiles_built
        /\ stats'.activity_samples = stats.activity_samples
        /\ stats'.normal_processes = stats.normal_processes
        /\ stats'.activity_errors = stats.activity_errors
    BY <1>3, <1>7 DEF Count, StatsRecord
  <2>3. Loops'
    BY <2>1, LoopsNext
  <2>4. Counters'
    BY <1>3, <1>4, <2>1, <2>2, CountersNext DEF StatsRecord
  <2>5. OutOK'
    BY <1>1, <1>2, <1>3, <2>1, <2>2, OutOKNext
  <2> QED BY <1>3, <2>1, <2>3, <2>4, <2>5 DEF DetIndInv
<1>8. CASE Count("profile_errors") /\ Leave("PROFILE")
  <2>1. JobOK' /\ job'.phase = "idle" /\ rc' = "PROFILE"
    BY <1>8, LeaveIs
  <2>2. stats' \in StatsRecord
    BY <1>3, <1>8 DEF Count, StatsRecord
  <2>3. Loops' /\ Counters'
    BY <1>3, <2>1, LoopsNext, CountersNext
  <2>4. OutOK'
    BY <1>1, <1>2, <1>3, <2>1, <2>2, OutOKNext
  <2> QED BY <1>3, <2>1, <2>3, <2>4 DEF DetIndInv
<1> QED BY <1>5, <1>6, <1>7, <1>8

\* The aggregate is complete, or run_once gives up.
LEMMA ProtectedEndKeeps ==
  ASSUME DetIndInv, ProtectedEnd
  PROVE  DetIndInv'
<1>1. KernelOK /\ BuildOK /\ ListOK /\ JobOK /\ Loops /\ Counters /\ OutOK
  BY DEF DetIndInv
<1>2. /\ kernel' = kernel /\ UNCHANGED profVars /\ stat_files' = stat_files /\ processes' = processes
      /\ out' = out /\ stats' = stats /\ runs' = runs /\ limits' = limits /\ job.phase = "protected" /\ build.pc = "idle"
  BY DEF ProtectedEnd
<1>3. /\ KernelOK' /\ BuildOK' /\ ListOK' /\ build' = build /\ stats \in StatsRecord /\ runs \in Nat
      /\ job.produced = <<>>
  BY <1>1, <1>2, KernelUnchanged, BuildUnchanged, ListUnchanged DEF OutOK, JobOK
<1>4. CASE job' = [job EXCEPT !.phase = "collect", !.i = 1]
  <2>1. /\ job'.phase = "collect" /\ job'.i = 1 /\ job'.active = job.active /\ job'.produced = job.produced
        /\ DOMAIN job' = DOMAIN job /\ job' = [x \in DOMAIN job' |-> job'[x]]
    BY <1>1, <1>4, JobFields
  <2>2. JobOK'
    BY <1>1, <1>3, <2>1, JobFields, JobOKNext
  <2>3. Loops'
    BY <1>2, <1>3, <2>1, LoopsNext
  <2>4. Counters'
    BY <1>1, <1>2, <1>3, <2>1, CountersNext DEF Counters, Pending, FailedProtected, SamplesAddUp, StatsRecord
  <2>5. OutOK'
    BY <1>1, <1>2, <1>3, <2>1, OutOKNext
  <2> QED BY <1>3, <2>2, <2>3, <2>4, <2>5 DEF DetIndInv
<1>5. CASE Leave("NO_PROTECTED_PROFILE") \/ Leave("NO_MEMORY")
  <2>1. JobOK' /\ job'.phase = "idle" /\ rc' # "OK"
    BY <1>5, LeaveIs
  <2>2. Loops' /\ Counters'
    BY <1>2, <1>3, <2>1, LoopsNext, CountersNext
  <2>3. OutOK'
    BY <1>1, <1>2, <1>3, <2>1, OutOKNext
  <2> QED BY <1>3, <2>1, <2>2, <2>3 DEF DetIndInv
<1> QED BY <1>4, <1>5 DEF ProtectedEnd

\* The three parts of a score are numbers.
LEMMA ClampType ==
  ASSUME NEW c \in Change
  PROVE  /\ clamp01(c.cpu, cpu_ratio_full_scale * c.elapsed) \in Int
         /\ clamp01(weighted_faults(c), faults_per_sec_full_scale * c.elapsed) \in Int
         /\ clamp01(c.rss_pages, rss_full_scale) \in Int
<1>1. /\ SCALE \in Nat /\ major_fault_weight \in Nat
      /\ cpu_ratio_full_scale \in Nat /\ faults_per_sec_full_scale \in Nat /\ rss_full_scale \in Nat
  BY ActivityAssumption
<1>2. \A n, d \in Int : clamp01(n, d) \in Int
  <2> TAKE n, d \in Int
  <2>1. CASE n >= 0 /\ n < d
    <3>1. d \in Nat \ {0} /\ SCALE * n \in Int
      BY <1>1, <2>1
    <3> DEFINE sn == SCALE * n
    <3> HIDE DEF sn
    <3>2. sn \div d \in Int
      BY <3>1 DEF sn
    <3> QED BY <1>1, <3>2 DEF clamp01, sn
  <2>2. CASE ~(n >= 0 /\ n < d)
    BY <1>1, <2>2 DEF clamp01
  <2> QED BY <2>1, <2>2
<1>3. /\ c.cpu \in Int /\ cpu_ratio_full_scale * c.elapsed \in Int
      /\ weighted_faults(c) \in Int /\ faults_per_sec_full_scale * c.elapsed \in Int /\ c.rss_pages \in Int
      /\ rss_full_scale \in Int
  BY <1>1 DEF Change, weighted_faults
<1> QED BY <1>2, <1>3, Zenon

\* Scores are numbers.
LEMMA ScoreType ==
  ASSUME NEW c \in Change
  PROVE  total_score(c) \in Int
BY ClampType DEF total_score

\* One entry of the list changes: a process is given up only if it is gone,
\* its sample failed or no descriptor is left.
LEMMA EntryStep ==
  ASSUME KernelOK, ListOK, NEW k \in 1..Len(Listed), NEW new \in Process, new.pid = processes[k].pid,
         processes' = [processes EXCEPT ![k] = new], kernel' = kernel,
         stat_files' \in 0..MaxFiles, stat_files <= stat_files',
         processes[k].faulted => new.faulted,
         stat_files' < MaxFiles => new.alive = processes[k].alive \/ ~Exists(processes[k].pid) \/ new.faulted
  PROVE  ListOK'
<1>1. /\ processes \in [1..Len(Listed) -> Process] /\ stat_files \in 0..MaxFiles
      /\ stat_files < MaxFiles => TrackedWhileAlive
  BY DEF ListOK
<1>2. /\ processes' \in [1..Len(Listed) -> Process] /\ processes'[k] = new
      /\ \A l \in 1..Len(Listed) : l # k => processes'[l] = processes[l]
  BY <1>1
<1>3. Len(Listed) \in Nat
  BY DetectorAssumption
<1>4. /\ processes \in Seq(Process) /\ Len(processes) = Len(Listed)
      /\ processes' \in Seq(Process) /\ Len(processes') = Len(Listed)
  BY <1>1, <1>2, <1>3
<1>5. ASSUME stat_files' < MaxFiles, NEW l \in 1..Len(Listed),
             kernel[processes'[l].pid] = [exists |-> TRUE, life |-> 1, start |-> 0],
             ~processes'[l].faulted
      PROVE  processes'[l].alive
  <2>1. stat_files < MaxFiles
    BY <1>1, <1>5, ProfileAssumption
  <2>2. processes'[l].pid = processes[l].pid
    BY <1>2
  <2>3. processes[l].alive /\ Exists(processes[l].pid) /\ (l = k => ~new.faulted)
    BY <1>1, <1>2, <1>4, <1>5, <2>1, <2>2 DEF TrackedWhileAlive, Exists
  <2> QED BY <1>2, <1>5, <2>3
<1> QED BY <1>2, <1>4, <1>5 DEF ListOK, TrackedWhileAlive, Process, Sample

\* What the loop over the normal processes may do to the counters.
LEMMA CollectCounters ==
  ASSUME DetIndInv, job.phase = "collect", job'.phase = "collect", stats' \in StatsRecord,
         stats'.protected_processes = stats.protected_processes,
         stats'.protected_profiles_built = stats.protected_profiles_built,
         stats'.normal_profiles_built = stats.normal_profiles_built,
         stats'.profile_errors = stats.profile_errors,
         \/ /\ stats'.normal_processes = stats.normal_processes
            /\ stats'.activity_samples = stats.activity_samples
            /\ stats'.activity_errors = stats.activity_errors
         \/ /\ stats'.normal_processes = stats.normal_processes + 1
            /\ \/ /\ stats'.activity_samples = stats.activity_samples
                  /\ stats'.activity_errors = stats.activity_errors + 1
               \/ /\ stats'.activity_samples = stats.activity_samples + 1
                  /\ stats'.activity_errors \in {stats.activity_errors, stats.activity_errors + 1}
  PROVE  Counters'
<1>1. /\ stats.normal_profiles_built = 0
      /\ stats.profile_errors = stats.protected_processes - stats.protected_profiles_built
      /\ stats.activity_samples <= stats.normal_processes
      /\ stats.normal_processes - stats.activity_samples <= stats.activity_errors
      /\ stats \in StatsRecord
  BY DEF DetIndInv, Counters, FailedProtected, SamplesAddUp, OutOK
<1>2. /\ stats'.activity_samples <= stats'.normal_processes
      /\ stats'.normal_processes - stats'.activity_samples <= stats'.activity_errors
  BY <1>1 DEF StatsRecord
<1> QED BY <1>1, <1>2, CountersNext

\* While no profile is being built only the leaked streams are open.
LEMMA OnlyStreamsOpen ==
  ASSUME BuildOK, ListOK, build.pc = "idle"
  PROVE  FilesOpen = stat_files /\ stat_files \in 0..MaxFiles /\ MaxFiles \in Nat
<1>1. build_files = {}
  BY DEF BuildOK, BuildClosesFiles
<1>2. Cardinality(build_files) = 0
  BY <1>1, FS_EmptySet
<1>3. stat_files \in 0..MaxFiles /\ MaxFiles \in Nat
  BY ProfileAssumption DEF ListOK
<1> QED BY <1>2, <1>3 DEF FilesOpen

\* What a step of the loop over the normal processes leaves to show.
LEMMA CollectStep ==
  ASSUME DetIndInv, job.phase = "collect", job.i <= Len(processes), Collect,
         ListOK', JobOK', job'.phase = "collect", job'.produced = job.produced,
         stats' \in StatsRecord,
         stats'.protected_processes = stats.protected_processes,
         stats'.protected_profiles_built = stats.protected_profiles_built,
         stats'.normal_profiles_built = stats.normal_profiles_built,
         stats'.profile_errors = stats.profile_errors,
         \/ /\ stats'.normal_processes = stats.normal_processes
            /\ stats'.activity_samples = stats.activity_samples
            /\ stats'.activity_errors = stats.activity_errors
         \/ /\ stats'.normal_processes = stats.normal_processes + 1
            /\ \/ /\ stats'.activity_samples = stats.activity_samples
                  /\ stats'.activity_errors = stats.activity_errors + 1
               \/ /\ stats'.activity_samples = stats.activity_samples + 1
                  /\ stats'.activity_errors \in {stats.activity_errors, stats.activity_errors + 1}
  PROVE  DetIndInv'
<1>1. KernelOK /\ BuildOK /\ Loops /\ OutOK
  BY DEF DetIndInv
<1>2. kernel' = kernel /\ UNCHANGED profVars /\ out' = out /\ rc' = rc /\ runs' = runs /\ limits' = limits
  BY DEF Collect
<1>3. KernelOK' /\ BuildOK' /\ build' = build /\ build.pc = "idle" /\ runs \in Nat
  BY <1>1, <1>2, KernelUnchanged, BuildUnchanged DEF Loops, OutOK
<1>4. Loops'
  BY <1>3, LoopsNext
<1>5. Counters'
  BY CollectCounters
<1>6. OutOK'
  BY <1>1, <1>2, <1>3, OutOKNext
<1> QED BY <1>3, <1>4, <1>5, <1>6 DEF DetIndInv

\* A sample that cannot be taken: the process is given up.
LEMMA SampleFailsKeeps ==
  ASSUME DetIndInv, job.phase = "collect", job.i <= Len(processes), Collect, SampleFails
  PROVE  DetIndInv'
<1>0. /\ KernelOK /\ BuildOK /\ ListOK /\ JobOK /\ build.pc = "idle" /\ kernel' = kernel
      /\ stats \in StatsRecord
  BY DEF DetIndInv, Loops, Collect, OutOK
<1>1. job.i \in 1..Len(Listed) /\ Current \in Process /\ Current = processes[job.i]
  BY <1>0, CurrentIs DEF Current
<1>2. FilesOpen = stat_files /\ stat_files \in 0..MaxFiles /\ MaxFiles \in Nat
  BY <1>0, OnlyStreamsOpen
<1>3. ASSUME NEW fault \in BOOLEAN PROVE
        /\ Dropped(processes[job.i], fault) \in Process
        /\ Dropped(processes[job.i], fault).pid = processes[job.i].pid
        /\ processes[job.i].faulted \/ fault <=> Dropped(processes[job.i], fault).faulted
  <2>1. NoSample \in Sample
    BY DEF NoSample, Sample
  <2> QED BY <1>1, <2>1 DEF Process, Dropped
<1>4. ASSUME ~Exists(Current.pid) \/ FilesOpen >= MaxFiles,
             processes' = [processes EXCEPT ![job.i] = Dropped(@, FALSE)], UNCHANGED stat_files
      PROVE  ListOK'
  <2> DEFINE new == Dropped(processes[job.i], FALSE)
  <2>1. processes' = [processes EXCEPT ![job.i] = new] /\ stat_files' = stat_files
    BY <1>0, <1>1, <1>4 DEF ListOK
  <2>2. new \in Process /\ new.pid = processes[job.i].pid /\ (processes[job.i].faulted => new.faulted)
    BY <1>3
  <2>3. stat_files' \in 0..MaxFiles /\ stat_files <= stat_files'
        /\ (stat_files' < MaxFiles => ~Exists(processes[job.i].pid))
    BY <1>1, <1>2, <1>4, <2>1
  <2> HIDE DEF new
  <2> QED BY <1>0, <1>1, <2>1, <2>2, <2>3, EntryStep
<1>5. ASSUME FilesOpen < MaxFiles, stat_files' \in {stat_files, stat_files + 1},
             processes' = [processes EXCEPT ![job.i] = Dropped(@, TRUE)]
      PROVE  ListOK'
  <2> DEFINE new == Dropped(processes[job.i], TRUE)
  <2>1. processes' = [processes EXCEPT ![job.i] = new]
    BY <1>0, <1>1, <1>5 DEF ListOK
  <2>2. new \in Process /\ new.pid = processes[job.i].pid /\ new.faulted
    BY <1>3
  <2>3. stat_files' \in 0..MaxFiles /\ stat_files <= stat_files'
    BY <1>2, <1>5
  <2> HIDE DEF new
  <2> QED BY <1>0, <1>1, <2>1, <2>2, <2>3, EntryStep
<1>6. ListOK'
  BY <1>4, <1>5 DEF SampleFails
<1>7. JobOK' /\ job'.phase = "collect" /\ job'.produced = job.produced
  BY <1>0, IndexAdvances DEF SampleFails
<1>8. /\ stats' \in StatsRecord
      /\ stats'.protected_processes = stats.protected_processes
      /\ stats'.protected_profiles_built = stats.protected_profiles_built
      /\ stats'.normal_profiles_built = stats.normal_profiles_built
      /\ stats'.profile_errors = stats.profile_errors
      /\ stats'.normal_processes = stats.normal_processes + 1
      /\ stats'.activity_samples = stats.activity_samples
      /\ stats'.activity_errors = stats.activity_errors + 1
  <2> DEFINE s == [stats EXCEPT !.normal_processes = @ + 1]
  <2>1. stats' = [s EXCEPT !.activity_errors = @ + 1]
    BY <1>0 DEF SampleFails, Count2, StatsRecord
  <2>2. /\ s \in StatsRecord
        /\ s.protected_processes = stats.protected_processes
        /\ s.protected_profiles_built = stats.protected_profiles_built
        /\ s.normal_profiles_built = stats.normal_profiles_built
        /\ s.profile_errors = stats.profile_errors
        /\ s.normal_processes = stats.normal_processes + 1
        /\ s.activity_samples = stats.activity_samples
        /\ s.activity_errors = stats.activity_errors
    BY <1>0 DEF StatsRecord
  <2> HIDE DEF s
  <2> QED BY <2>1, <2>2 DEF StatsRecord
<1> QED BY <1>6, <1>7, <1>8, CollectStep

\* A sample is taken: the first of a process, or one to compare with.
LEMMA SampleTakenKeeps ==
  ASSUME DetIndInv, job.phase = "collect", job.i <= Len(processes), Collect, SampleTaken
  PROVE  DetIndInv'
<1>0. /\ KernelOK /\ BuildOK /\ ListOK /\ JobOK /\ build.pc = "idle" /\ kernel' = kernel
      /\ stats \in StatsRecord
  BY DEF DetIndInv, Loops, Collect, OutOK
<1>1. /\ job.i \in 1..Len(Listed) /\ Current \in Process /\ Current = processes[job.i]
      /\ Current.pid \in Pids /\ Current.sample \in Sample
  <2>1. job.i \in 1..Len(Listed) /\ Current \in Process /\ Current = processes[job.i]
    BY <1>0, CurrentIs DEF Current
  <2> QED BY <2>1 DEF Process
<1> DEFINE new == [life |-> kernel[Current.pid].life, start |-> kernel[Current.pid].start]
<1>2. new \in Sample
  BY <1>0, <1>1 DEF KernelOK, Sample
<1>3. stat_files' \in 0..MaxFiles /\ stat_files <= stat_files'
  <2>1. FilesOpen < MaxFiles /\ stat_files' = stat_files + 1
    BY DEF SampleTaken
  <2> QED BY <1>0, <2>1, OnlyStreamsOpen
<1>4. ASSUME NEW entry \in Process, entry.pid = Current.pid, entry.alive = Current.alive,
             entry.faulted = Current.faulted,
             processes' = [processes EXCEPT ![job.i] = entry]
      PROVE  ListOK'
  BY <1>0, <1>1, <1>3, <1>4, EntryStep
<1> DEFINE s == [stats EXCEPT !.normal_processes = @ + 1]
           t == [s EXCEPT !.activity_samples = @ + 1]
<1>5. /\ s \in StatsRecord
      /\ s.protected_processes = stats.protected_processes
      /\ s.protected_profiles_built = stats.protected_profiles_built
      /\ s.normal_profiles_built = stats.normal_profiles_built
      /\ s.profile_errors = stats.profile_errors
      /\ s.normal_processes = stats.normal_processes + 1
      /\ s.activity_samples = stats.activity_samples
      /\ s.activity_errors = stats.activity_errors
  BY <1>0 DEF StatsRecord
<1>6. Count2("normal_processes", "activity_samples") => stats' = t
  BY <1>0 DEF Count2, StatsRecord
<1>7. \A n : stats' = [stats EXCEPT !.normal_processes = @ + 1, !.activity_samples = @ + 1, !.activity_errors = n]
               => stats' = [t EXCEPT !.activity_errors = n]
  BY <1>0 DEF StatsRecord
<1> HIDE DEF s
<1>8. /\ t \in StatsRecord
      /\ t.protected_processes = stats.protected_processes
      /\ t.protected_profiles_built = stats.protected_profiles_built
      /\ t.normal_profiles_built = stats.normal_profiles_built
      /\ t.profile_errors = stats.profile_errors
      /\ t.normal_processes = stats.normal_processes + 1
      /\ t.activity_samples = stats.activity_samples + 1
      /\ t.activity_errors = stats.activity_errors
  BY <1>5 DEF StatsRecord
<1> HIDE DEF t
<1>9. CASE /\ processes' = [processes EXCEPT ![job.i].sample = new]
           /\ Count2("normal_processes", "activity_samples")
           /\ job' = [job EXCEPT !.i = @ + 1]
  <2> DEFINE entry == [Current EXCEPT !.sample = new]
  <2>1. processes' = [processes EXCEPT ![job.i] = entry]
    BY <1>0, <1>1, <1>9 DEF ListOK
  <2> HIDE DEF new
  <2>2. entry \in Process /\ entry.pid = Current.pid /\ entry.alive = Current.alive
        /\ entry.faulted = Current.faulted
    BY <1>1, <1>2 DEF Process
  <2> HIDE DEF entry
  <2>3. ListOK'
    BY <1>4, <2>1, <2>2
  <2>4. JobOK' /\ job'.phase = "collect" /\ job'.produced = job.produced
    BY <1>0, <1>9, IndexAdvances
  <2>5. stats' = t
    BY <1>6, <1>9
  <2> QED BY <1>8, <2>3, <2>4, <2>5, CollectStep
<1>10. ASSUME NEW c \in Changes, NEW code, NEW obs, NEW act, code = compute_delta_rc(Current.sample, new, c),
              act = IF code = "OK" /\ is_active(c) /\ total_score(c) >= activity_score_threshold
                    THEN Append(job.active, [pid |-> Current.pid, score |-> total_score(c),
                                             of |-> {Current.sample, new}])
                    ELSE job.active,
              processes' = [processes EXCEPT ![job.i] = Resampled(@, new, code)],
              stats' = [stats EXCEPT !.normal_processes = @ + 1, !.activity_samples = @ + 1,
                          !.activity_errors = IF code = "OK" THEN @ ELSE @ + 1],
              job' = [job EXCEPT !.i = @ + 1, !.observed = obs, !.active = act]
       PROVE  DetIndInv'
  <2> HIDE DEF new
  <2> DEFINE entry == Resampled(Current, new, code)
  <2>1. processes' = [processes EXCEPT ![job.i] = entry]
    BY <1>0, <1>1, <1>10 DEF ListOK
  <2>2. entry \in Process /\ entry.pid = Current.pid /\ entry.alive = Current.alive
        /\ entry.faulted = Current.faulted
    <3> DEFINE kept == IF code = "PID_REUSED" THEN NoSample ELSE new
    <3>1. kept \in Sample
      <4>1. NoSample \in Sample
        BY DEF NoSample, Sample
      <4> QED BY <1>2, <4>1
    <3>2. entry = [Current EXCEPT !.sample = kept]
      BY DEF Resampled
    <3> HIDE DEF kept, entry
    <3> QED BY <1>1, <3>1, <3>2 DEF Process
  <2> HIDE DEF entry
  <2>3. ListOK'
    BY <1>4, <2>1, <2>2
  <2>4. act \in Seq(Candidate)
    <3>1. job.active \in Seq(Candidate)
      BY <1>0, JobFields
    <3> DEFINE cand == [pid |-> Current.pid, score |-> total_score(c), of |-> {Current.sample, new}]
    <3>2. code = "OK" => cand \in Candidate
      <4> HAVE code = "OK"
      <4>1. c \in Change
        BY DetectorAssumption
      <4>2. total_score(c) \in Int
        BY <4>1, ScoreType
      <4>3. Current.sample.start = new.start
        BY <1>10 DEF compute_delta_rc
      <4> QED BY <1>1, <1>2, <4>2, <4>3 DEF Candidate
    <3> HIDE DEF cand
    <3>3. code = "OK" => Append(job.active, cand) \in Seq(Candidate)
      BY <3>1, <3>2
    <3>4. act = job.active \/ (code = "OK" /\ act = Append(job.active, cand))
      BY <1>10 DEF cand
    <3> QED BY <3>1, <3>3, <3>4
  <2>5. JobOK' /\ job'.phase = "collect" /\ job'.produced = job.produced
    <3>1. /\ job'.phase = job.phase /\ job'.i = job.i + 1 /\ job'.active = act
          /\ job'.produced = job.produced
          /\ DOMAIN job' = DOMAIN job /\ job' = [x \in DOMAIN job' |-> job'[x]]
      BY <1>0, <1>10, JobFields
    <3> QED BY <1>0, <2>4, <3>1, JobFields, JobOKNext DEF JobOK
  <2>6. /\ stats' \in StatsRecord
        /\ stats'.protected_processes = stats.protected_processes
        /\ stats'.protected_profiles_built = stats.protected_profiles_built
        /\ stats'.normal_profiles_built = stats.normal_profiles_built
        /\ stats'.profile_errors = stats.profile_errors
        /\ stats'.normal_processes = stats.normal_processes + 1
        /\ stats'.activity_samples = stats.activity_samples + 1
        /\ stats'.activity_errors \in {stats.activity_errors, stats.activity_errors + 1}
    <3> DEFINE n == IF code = "OK" THEN stats.activity_errors ELSE stats.activity_errors + 1
    <3>1. n \in Nat /\ n \in {stats.activity_errors, stats.activity_errors + 1}
      BY <1>0 DEF StatsRecord
    <3>2. stats' = [stats EXCEPT !.normal_processes = @ + 1, !.activity_samples = @ + 1, !.activity_errors = n]
      BY <1>10
    <3> HIDE DEF n
    <3>3. stats' = [t EXCEPT !.activity_errors = n]
      BY <1>7, <3>2
    <3> QED BY <1>8, <3>1, <3>3 DEF StatsRecord
  <2> QED BY <2>3, <2>5, <2>6, CollectStep
<1> DEFINE code(c) == compute_delta_rc(Current.sample, new, c)
           obs(c) == Append(job.observed, [pid |-> Current.pid, valid |-> code(c) = "OK", delta |-> c])
           act(c) == IF code(c) = "OK" /\ is_active(c) /\ total_score(c) >= activity_score_threshold
                     THEN Append(job.active, [pid |-> Current.pid, score |-> total_score(c),
                                              of |-> {Current.sample, new}])
                     ELSE job.active
           Compared(c) == /\ processes' = [processes EXCEPT ![job.i] = Resampled(@, new, code(c))]
                          /\ stats' = [stats EXCEPT !.normal_processes = @ + 1, !.activity_samples = @ + 1,
                                         !.activity_errors = IF code(c) = "OK" THEN @ ELSE @ + 1]
                          /\ job' = [job EXCEPT !.i = @ + 1, !.observed = obs(c), !.active = act(c)]
<1>11. \/ /\ processes' = [processes EXCEPT ![job.i].sample = new]
          /\ Count2("normal_processes", "activity_samples")
          /\ job' = [job EXCEPT !.i = @ + 1]
       \/ \E c \in Changes : Compared(c)
  BY DEF SampleTaken
<1>12. ASSUME NEW c \in Changes, Compared(c)
       PROVE  DetIndInv'
  <2>1. /\ code(c) = compute_delta_rc(Current.sample, new, c)
        /\ act(c) = IF code(c) = "OK" /\ is_active(c) /\ total_score(c) >= activity_score_threshold
                    THEN Append(job.active, [pid |-> Current.pid, score |-> total_score(c),
                                             of |-> {Current.sample, new}])
                    ELSE job.active
    OBVIOUS
  <2>2. /\ processes' = [processes EXCEPT ![job.i] = Resampled(@, new, code(c))]
        /\ stats' = [stats EXCEPT !.normal_processes = @ + 1, !.activity_samples = @ + 1,
                       !.activity_errors = IF code(c) = "OK" THEN @ ELSE @ + 1]
        /\ job' = [job EXCEPT !.i = @ + 1, !.observed = obs(c), !.active = act(c)]
    BY <1>12
  <2> HIDE DEF code, obs, act, new
  <2> QED BY <1>10, <2>1, <2>2
<1> HIDE DEF Compared, new
<1> QED BY <1>9, <1>11, <1>12

\* collect_active_normal_candidates, one process.
LEMMA CollectKeeps ==
  ASSUME DetIndInv, Collect
  PROVE  DetIndInv'
<1>1. job.phase = "collect" /\ job.i <= Len(processes)
  BY DEF Collect
<1>2. CASE SampleFails
  BY <1>1, <1>2, SampleFailsKeeps
<1>3. CASE SampleTaken
  BY <1>1, <1>3, SampleTakenKeeps
<1>4. CASE job' = [job EXCEPT !.i = @ + 1] /\ UNCHANGED <<processes, stats, stat_files>>
  <2>1. ListOK /\ JobOK /\ kernel' = kernel /\ stats' = stats /\ stats \in StatsRecord
    BY <1>4 DEF DetIndInv, Collect, OutOK
  <2>2. ListOK'
    BY <1>4, <2>1, ListUnchanged
  <2>3. JobOK' /\ job'.phase = "collect" /\ job'.produced = job.produced
    BY <1>1, <1>4, <2>1, IndexAdvances
  <2> QED BY <1>1, <2>1, <2>2, <2>3, CollectStep
<1> QED BY <1>2, <1>3, <1>4 DEF Collect

\* The candidates are sorted.
LEMMA CollectEndKeeps ==
  ASSUME DetIndInv, CollectEnd
  PROVE  DetIndInv'
<1>1. KernelOK /\ BuildOK /\ ListOK /\ JobOK /\ Loops /\ Counters /\ OutOK
  BY DEF DetIndInv
<1>2. /\ kernel' = kernel /\ UNCHANGED profVars /\ stat_files' = stat_files /\ processes' = processes
      /\ out' = out /\ rc' = rc /\ runs' = runs /\ limits' = limits /\ job.phase = "collect"
  BY DEF CollectEnd
<1>3. /\ KernelOK' /\ BuildOK' /\ ListOK' /\ build' = build /\ stats \in StatsRecord /\ runs \in Nat
      /\ job.produced = <<>> /\ build.pc = "idle"
  BY <1>1, <1>2, KernelUnchanged, BuildUnchanged, ListUnchanged DEF OutOK, JobOK, Loops
<1>4. /\ job.active \in Seq(Candidate) /\ Len(job.active) \in Nat
      /\ Sorted(job.active) \in Seq(Candidate) /\ Len(Sorted(job.active)) = Len(job.active)
      /\ \A k, l \in 1..Len(job.active) : k < l => ~Before(Sorted(job.active)[l], Sorted(job.active)[k])
  <2>1. job.active \in Seq(Candidate)
    BY <1>1, JobFields
  <2> QED BY <2>1, SortedIs
<1>5. /\ job'.phase = "overlap" /\ job'.i = 1 /\ job'.active = Sorted(job.active)
      /\ job'.produced = job.produced
      /\ DOMAIN job' = DOMAIN job /\ job' = [x \in DOMAIN job' |-> job'[x]]
  BY <1>1, JobFields DEF CollectEnd
<1>6. JobOK'
  BY <1>1, <1>3, <1>4, <1>5, JobFields, JobOKNext
<1>7. /\ stats' \in StatsRecord /\ stats'.active_normal_candidates = Len(job.active)
      /\ stats'.protected_processes = stats.protected_processes
      /\ stats'.protected_profiles_built = stats.protected_profiles_built
      /\ stats'.normal_profiles_built = stats.normal_profiles_built
      /\ stats'.profile_errors = stats.profile_errors
      /\ stats'.activity_samples = stats.activity_samples
      /\ stats'.normal_processes = stats.normal_processes
      /\ stats'.activity_errors = stats.activity_errors
  BY <1>3, <1>4 DEF CollectEnd, StatsRecord
<1>8. Loops'
  <2>1. Limit(Len(job'.active)) \in Nat
    BY <1>1, <1>4, <1>5, LimitType
  <2>2. 1 <= Limit(Len(job'.active)) + 1
    BY <2>1
  <2>3. \A k, l \in 1..Len(job'.active) : k < l => ~Before(job'.active[l], job'.active[k])
    BY <1>4, <1>5
  <2> QED BY <1>2, <1>3, <1>5, <2>2, <2>3, LoopsNext
<1>9. Counters'
  <2>1. /\ stats.normal_profiles_built = 0
        /\ stats.profile_errors = stats.protected_processes - stats.protected_profiles_built
        /\ stats.activity_samples <= stats.normal_processes
        /\ stats.normal_processes - stats.activity_samples <= stats.activity_errors
    BY <1>1, <1>2 DEF Counters, FailedProtected, SamplesAddUp
  <2>2. Len(job'.produced) = 0
    BY <1>3, <1>5, EmptyIsSeq
  <2> QED BY <1>3, <1>4, <1>5, <1>7, <2>1, <2>2, CountersNext DEF StatsRecord
<1>10. OutOK'
  BY <1>1, <1>2, <1>3, <1>5, <1>7, OutOKNext
<1> QED BY <1>3, <1>6, <1>8, <1>9, <1>10 DEF DetIndInv

\* The bounds of the last loop.
LEMMA OverlapLoop ==
  ASSUME DetIndInv, job.phase = "overlap"
  PROVE  /\ job.i \in Nat /\ job.i > 0 /\ job.active \in Seq(Candidate) /\ Len(job.active) \in Nat
         /\ Limit(Len(job.active)) \in Nat /\ Limit(Len(job.active)) <= Len(job.active)
         /\ Limit(Len(job.active)) <= out_cap /\ out_cap \in Nat
         /\ IsSeq(job.produced) /\ Len(job.produced) \in Nat
         /\ job.i <= Limit(Len(job.active)) + 1
         /\ build.pc # "idle" => job.i <= Limit(Len(job.active))
<1>1. job.i \in Nat /\ job.i > 0 /\ job.active \in Seq(Candidate) /\ IsSeq(job.produced)
  BY DEF DetIndInv, JobOK
<1>2. Len(job.active) \in Nat
  BY <1>1
<1>3. Len(job.produced) \in Nat
  BY <1>1, AppendIsSeq
<1> QED BY <1>1, <1>2, <1>3, LimitType, DetectorAssumption DEF DetIndInv, Loops

\* A candidate's profile is started.
LEMMA ProfileCandidateKeeps ==
  ASSUME DetIndInv, ProfileCandidate
  PROVE  DetIndInv'
<1>1. KernelOK /\ BuildOK /\ ListOK /\ JobOK /\ Loops /\ Counters /\ OutOK
  BY DEF DetIndInv
<1>2. /\ kernel' = kernel /\ stat_files' = stat_files /\ processes' = processes /\ job' = job
      /\ out' = out /\ rc' = rc /\ stats' = stats /\ runs' = runs /\ limits' = limits /\ job.phase = "overlap"
      /\ job.i <= Limit(Len(job.active))
  BY DEF ProfileCandidate, runVars
<1>3. job.active[job.i].pid \in Pids
  <2>1. job.i \in 1..Len(job.active) /\ job.active \in Seq(Candidate)
    BY <1>2, OverlapLoop
  <2>2. job.active[job.i] \in Candidate
    BY <2>1
  <2> QED BY <2>2 DEF Candidate
<1>4. BuildOK'
  BY <1>1, <1>3, BuildOpenKeeps DEF ProfileCandidate
<1>5. KernelOK' /\ ListOK' /\ OutOK' /\ JobOK'
  <2>1. KernelOK' /\ ListOK' /\ JobOK'
    BY <1>1, <1>2, KernelUnchanged, ListUnchanged, JobOKNext DEF JobOK
  <2>2. OutOK'
    BY <1>1, <1>2, OutOKNext DEF OutOK
  <2> QED BY <2>1, <2>2
<1>6. Loops'
  BY <1>1, <1>2, LoopsNext DEF Loops
<1>7. Counters'
  BY <1>1, <1>2, CountersNext DEF Counters, FailedProtected, SamplesAddUp
<1> QED BY <1>4, <1>5, <1>6, <1>7 DEF DetIndInv

\* A candidate is judged: its profile is an error, or leads to an output.
LEMMA JudgeCandidateKeeps ==
  ASSUME DetIndInv, JudgeCandidate
  PROVE  DetIndInv'
<1>1. KernelOK /\ BuildOK /\ ListOK /\ JobOK /\ Loops /\ Counters /\ OutOK
  BY DEF DetIndInv
<1>2. /\ kernel' = kernel /\ stat_files' = stat_files /\ processes' = processes /\ out' = out
      /\ rc' = rc /\ runs' = runs /\ limits' = limits /\ job.phase = "overlap" /\ build.pc = "done" /\ BuildConsumed
  BY DEF JudgeCandidate
<1>3. KernelOK' /\ ListOK' /\ stats \in StatsRecord /\ runs \in Nat /\ BuildOK' /\ build'.pc = "idle"
  BY <1>1, <1>2, KernelUnchanged, ListUnchanged, BuildConsumedKeeps DEF OutOK
<1>4. /\ job.i \in Nat /\ job.i > 0 /\ job.active \in Seq(Candidate)
      /\ Limit(Len(job.active)) \in Nat
      /\ IsSeq(job.produced) /\ Len(job.produced) \in Nat
      /\ job.i <= Limit(Len(job.active))
  BY <1>2, OverlapLoop
<1>5. /\ stats.normal_profiles_built = Len(job.produced) /\ Len(job.produced) <= job.i - 1
      /\ stats.active_normal_candidates = Len(job.active)
      /\ stats.profile_errors = (stats.protected_processes - stats.protected_profiles_built)
                                  + (job.i - 1 - Len(job.produced))
      /\ stats.activity_samples <= stats.normal_processes
      /\ stats.normal_processes - stats.activity_samples <= stats.activity_errors
  BY <1>1, <1>2 DEF Counters, FailedProtected, SamplesAddUp
<1>6. ASSUME job'.phase = "overlap", job'.i = job.i + 1, job'.active = job.active,
             DOMAIN job' = DOMAIN job, job' = [x \in DOMAIN job' |-> job'[x]],
             IsSeq(job'.produced), stats' \in StatsRecord,
             stats'.active_normal_candidates = stats.active_normal_candidates,
             stats'.protected_processes = stats.protected_processes,
             stats'.protected_profiles_built = stats.protected_profiles_built,
             stats'.activity_samples = stats.activity_samples,
             stats'.normal_processes = stats.normal_processes,
             stats'.activity_errors = stats.activity_errors,
             \/ /\ Len(job'.produced) = Len(job.produced)
                /\ stats'.normal_profiles_built = stats.normal_profiles_built
                /\ stats'.profile_errors = stats.profile_errors + 1
             \/ /\ Len(job'.produced) = Len(job.produced) + 1
                /\ stats'.normal_profiles_built = stats.normal_profiles_built + 1
                /\ stats'.profile_errors = stats.profile_errors
      PROVE  DetIndInv'
  <2>1. JobOK'
    BY <1>1, <1>4, <1>6, JobFields, JobOKNext
  <2>2. Loops'
    <3>1. job'.i <= Limit(Len(job'.active)) + 1
      BY <1>4, <1>6
    <3>2. \A k, l \in 1..Len(job'.active) : k < l => ~Before(job'.active[l], job'.active[k])
      BY <1>1, <1>2, <1>6 DEF Loops
    <3> QED BY <1>2, <1>3, <1>6, <3>1, <3>2, LoopsNext
  <2>3. Counters'
    <3>1. /\ stats'.normal_profiles_built = Len(job'.produced) /\ Len(job'.produced) <= job'.i - 1
          /\ stats'.profile_errors = (stats'.protected_processes - stats'.protected_profiles_built)
                                       + (job'.i - 1 - Len(job'.produced))
      <4>1. /\ stats.normal_profiles_built \in Nat /\ stats.profile_errors \in Nat
            /\ stats.protected_processes \in Nat /\ stats.protected_profiles_built \in Nat
            /\ Len(job.produced) \in Nat /\ job.i \in Nat /\ job'.i = job.i + 1
            /\ stats'.protected_processes = stats.protected_processes
            /\ stats'.protected_profiles_built = stats.protected_profiles_built
        BY <1>3, <1>4, <1>6 DEF StatsRecord
      <4> DEFINE n == Len(job.produced)
                 m == Len(job'.produced)
      <4>2. /\ stats.normal_profiles_built = n /\ n <= job.i - 1 /\ n \in Nat
            /\ stats.profile_errors = (stats.protected_processes - stats.protected_profiles_built)
                                        + (job.i - 1 - n)
            /\ \/ /\ m = n /\ stats'.normal_profiles_built = stats.normal_profiles_built
                  /\ stats'.profile_errors = stats.profile_errors + 1
               \/ /\ m = n + 1 /\ stats'.normal_profiles_built = stats.normal_profiles_built + 1
                  /\ stats'.profile_errors = stats.profile_errors
        BY <1>4, <1>5, <1>6
      <4> HIDE DEF n, m
      <4>3. ASSUME NEW b \in Nat, NEW e \in Nat, NEW t \in Nat, NEW d \in Nat, NEW i \in Nat, NEW k \in Nat,
                   NEW k2, NEW b2, NEW e2, b = k, k <= i - 1, e = (t - d) + (i - 1 - k),
                   (k2 = k /\ b2 = b /\ e2 = e + 1) \/ (k2 = k + 1 /\ b2 = b + 1 /\ e2 = e)
            PROVE  b2 = k2 /\ k2 <= (i + 1) - 1 /\ e2 = (t - d) + ((i + 1) - 1 - k2)
        BY <4>3
      <4>4. /\ stats'.normal_profiles_built = m /\ m <= job'.i - 1
            /\ stats'.profile_errors = (stats'.protected_processes - stats'.protected_profiles_built)
                                         + (job'.i - 1 - m)
        BY <4>1, <4>2, <4>3
      <4> QED BY <4>4 DEF m
    <3> QED BY <1>5, <1>6, <3>1, CountersNext
  <2>4. OutOK'
    BY <1>1, <1>2, <1>3, <1>6, OutOKNext
  <2> QED BY <1>3, <2>1, <2>2, <2>3, <2>4 DEF DetIndInv
<1>7. CASE Count("profile_errors") /\ job' = [job EXCEPT !.i = @ + 1]
  <2>1. /\ job'.phase = "overlap" /\ job'.i = job.i + 1 /\ job'.active = job.active
        /\ job'.produced = job.produced
        /\ DOMAIN job' = DOMAIN job /\ job' = [x \in DOMAIN job' |-> job'[x]]
    BY <1>1, <1>2, <1>7, JobFields
  <2>2. /\ stats' \in StatsRecord /\ stats'.profile_errors = stats.profile_errors + 1
        /\ stats'.active_normal_candidates = stats.active_normal_candidates
        /\ stats'.protected_processes = stats.protected_processes
        /\ stats'.protected_profiles_built = stats.protected_profiles_built
        /\ stats'.normal_profiles_built = stats.normal_profiles_built
        /\ stats'.activity_samples = stats.activity_samples
        /\ stats'.normal_processes = stats.normal_processes
        /\ stats'.activity_errors = stats.activity_errors
    BY <1>3, <1>7 DEF Count, StatsRecord
  <2> QED BY <1>4, <1>6, <2>1, <2>2
<1> DEFINE judged == Judged(job.active[job.i], bank_profile_overlap_score(job.aggregate, profile))
<1>8. \/ Count("profile_errors") /\ job' = [job EXCEPT !.i = @ + 1]
      \/ /\ Count("normal_profiles_built")
         /\ job' = [job EXCEPT !.i = @ + 1, !.produced = Append(@, judged)]
  BY DEF JudgeCandidate
<1> HIDE DEF judged
<1>9. CASE /\ Count("normal_profiles_built")
           /\ job' = [job EXCEPT !.i = @ + 1, !.produced = Append(@, judged)]
  <2>1. /\ job'.phase = "overlap" /\ job'.i = job.i + 1 /\ job'.active = job.active
        /\ job'.produced = Append(job.produced, judged)
        /\ DOMAIN job' = DOMAIN job /\ job' = [x \in DOMAIN job' |-> job'[x]]
    BY <1>1, <1>2, <1>9, JobFields
  <2>2. IsSeq(job'.produced) /\ Len(job'.produced) = Len(job.produced) + 1
    BY <1>4, <2>1, AppendIsSeq
  <2>3. /\ stats' \in StatsRecord /\ stats'.profile_errors = stats.profile_errors
        /\ stats'.active_normal_candidates = stats.active_normal_candidates
        /\ stats'.protected_processes = stats.protected_processes
        /\ stats'.protected_profiles_built = stats.protected_profiles_built
        /\ stats'.normal_profiles_built = stats.normal_profiles_built + 1
        /\ stats'.activity_samples = stats.activity_samples
        /\ stats'.normal_processes = stats.normal_processes
        /\ stats'.activity_errors = stats.activity_errors
    BY <1>3, <1>9 DEF Count, StatsRecord
  <2> QED BY <1>6, <2>1, <2>2, <2>3
<1> QED BY <1>7, <1>8, <1>9

\* run_once hands out what it produced.
LEMMA EndKeeps ==
  ASSUME DetIndInv, End
  PROVE  DetIndInv'
<1>1. KernelOK /\ BuildOK /\ ListOK /\ JobOK /\ Loops /\ Counters /\ OutOK
  BY DEF DetIndInv
<1>2. /\ kernel' = kernel /\ UNCHANGED profVars /\ stat_files' = stat_files /\ processes' = processes
      /\ runs' = runs /\ limits' = limits /\ job.phase = "overlap" /\ build.pc = "idle"
      /\ job.i > Limit(Len(job.active)) /\ out' = job.produced /\ Leave("OK")
  BY DEF End
<1>3. KernelOK' /\ BuildOK' /\ ListOK' /\ build' = build /\ stats \in StatsRecord /\ runs \in Nat
  BY <1>1, <1>2, KernelUnchanged, BuildUnchanged, ListUnchanged DEF OutOK
<1>4. /\ Limit(Len(job.active)) \in Nat /\ Limit(Len(job.active)) <= out_cap /\ out_cap \in Nat
      /\ IsSeq(job.produced) /\ Len(job.produced) \in Nat
      /\ job.i \in Nat /\ job.i = Limit(Len(job.active)) + 1
  BY <1>2, OverlapLoop
<1>5. /\ stats.normal_profiles_built = Len(job.produced) /\ Len(job.produced) <= job.i - 1
      /\ stats.active_normal_candidates = Len(job.active)
      /\ stats.profile_errors = (stats.protected_processes - stats.protected_profiles_built)
                                  + (job.i - 1 - Len(job.produced))
      /\ stats.activity_samples <= stats.normal_processes
      /\ stats.normal_processes - stats.activity_samples <= stats.activity_errors
  BY <1>1, <1>2 DEF Counters, FailedProtected, SamplesAddUp
<1>6. JobOK' /\ job'.phase = "idle"
  BY <1>2, LeaveIs
<1>7. Loops' /\ Counters'
  BY <1>2, <1>3, <1>6, LoopsNext, CountersNext
<1>8. /\ stats' \in StatsRecord /\ stats'.output_candidates = Len(job.produced)
      /\ stats'.active_normal_candidates = stats.active_normal_candidates
      /\ stats'.protected_processes = stats.protected_processes
      /\ stats'.protected_profiles_built = stats.protected_profiles_built
      /\ stats'.normal_profiles_built = stats.normal_profiles_built
      /\ stats'.profile_errors = stats.profile_errors
      /\ stats'.activity_samples = stats.activity_samples
      /\ stats'.normal_processes = stats.normal_processes
      /\ stats'.activity_errors = stats.activity_errors
  BY <1>3, <1>4 DEF End, StatsRecord
<1>9. IsSeq(out') /\ Len(out') <= out_cap
  BY <1>2, <1>4, <1>5
<1>10. StatsAddUp'
  <2>1. /\ stats'.output_candidates = Len(out') /\ stats'.normal_profiles_built = Len(out')
        /\ stats'.profile_errors = (stats'.protected_processes - stats'.protected_profiles_built)
                                     + (Limit(stats'.active_normal_candidates) - Len(out'))
        /\ stats'.activity_samples <= stats'.normal_processes
        /\ stats'.normal_processes - stats'.activity_samples <= stats'.activity_errors
    <3>1. job.i - 1 = Limit(Len(job.active))
      BY <1>4
    <3>2. Limit(stats'.active_normal_candidates) = Limit(Len(job.active))
      BY <1>5, <1>8
    <3> QED BY <1>2, <1>5, <1>8, <3>1, <3>2
  <2> QED BY <1>2, <2>1 DEF StatsAddUp, Limit, max_normal_candidates, out_cap, Smaller
<1>11. OutOK'
  BY <1>1, <1>2, <1>3, <1>8, <1>9, <1>10 DEF OutOK, out_cap, StatsRecord, IsSeq
<1> QED BY <1>3, <1>6, <1>7, <1>11 DEF DetIndInv

\* A step of bank_profile_build, while run_once waits for it.
LEMMA BuildKeeps ==
  ASSUME DetIndInv, Build
  PROVE  DetIndInv'
<1>1. KernelOK /\ BuildOK /\ ListOK /\ JobOK /\ Loops /\ Counters /\ OutOK
  BY DEF DetIndInv
<1>2. /\ kernel' = kernel /\ stat_files' = stat_files /\ processes' = processes /\ job' = job
      /\ out' = out /\ rc' = rc /\ stats' = stats /\ runs' = runs /\ limits' = limits /\ BuildStep
  BY DEF Build, runVars
<1>3. BuildOK' /\ build.pc # "idle" /\ build'.pc # "idle"
  BY <1>1, <1>2, BuildStepKeeps
<1>4. KernelOK' /\ ListOK'
  BY <1>1, <1>2, KernelUnchanged, ListUnchanged
<1>5. JobOK' /\ Loops' /\ Counters' /\ OutOK'
  BY <1>1, <1>2, <1>3, RunUnchanged
<1> QED BY <1>3, <1>4, <1>5 DEF DetIndInv

\* A process exits, or its pid gets a new owner: neither is a process that
\* has been running all the time.
LEMMA KernelKeeps ==
  ASSUME DetIndInv, NEW p \in Pids, Exit(p) \/ Reuse(p)
  PROVE  DetIndInv'
<1>1. KernelOK /\ BuildOK /\ ListOK /\ JobOK /\ Loops /\ Counters /\ OutOK
  BY DEF DetIndInv
<1>2. /\ UNCHANGED profVars /\ stat_files' = stat_files /\ processes' = processes /\ job' = job
      /\ out' = out /\ rc' = rc /\ stats' = stats /\ runs' = runs /\ limits' = limits
  BY DEF Exit, Reuse, runVars
<1>3. BuildOK' /\ build' = build
  BY <1>1, <1>2, BuildUnchanged
<1>4. JobOK' /\ Loops' /\ Counters' /\ OutOK'
  BY <1>1, <1>2, <1>3, RunUnchanged
<1>5. \E new \in [exists : BOOLEAN, life : Nat \ {0}, start : Nat] :
        /\ kernel' = [kernel EXCEPT ![p] = new] /\ new # [exists |-> TRUE, life |-> 1, start |-> 0]
  <2> DEFINE Row == [exists : BOOLEAN, life : Nat \ {0}, start : Nat]
  <2>1. kernel \in [Pids -> Row] /\ kernel[p] \in Row
    BY <1>1 DEF KernelOK
  <2>2. CASE Exit(p)
    <3> DEFINE new == [kernel[p] EXCEPT !.exists = FALSE]
    <3>1. kernel' = [kernel EXCEPT ![p] = new]
      BY <2>1, <2>2 DEF Exit
    <3>2. new \in Row /\ new.exists = FALSE
      BY <2>1
    <3>3. new # [exists |-> TRUE, life |-> 1, start |-> 0]
      BY <3>2
    <3> HIDE DEF new
    <3> QED BY <3>1, <3>2, <3>3
  <2>3. CASE Reuse(p)
    <3>1. PICK start \in {kernel[p].start, kernel[p].start + 1} :
            kernel' = [kernel EXCEPT ![p] = [exists |-> TRUE, life |-> @.life + 1, start |-> start]]
      BY <2>3 DEF Reuse
    <3> DEFINE new == [exists |-> TRUE, life |-> kernel[p].life + 1, start |-> start]
    <3>2. kernel' = [kernel EXCEPT ![p] = new]
      BY <2>1, <3>1
    <3>3. new \in Row /\ new.life # 1
      BY <2>1, <3>1
    <3>4. new # [exists |-> TRUE, life |-> 1, start |-> 0]
      BY <3>3
    <3> HIDE DEF new
    <3> QED BY <3>2, <3>3, <3>4
  <2> QED BY <2>2, <2>3
<1>6. PICK new \in [exists : BOOLEAN, life : Nat \ {0}, start : Nat] :
        /\ kernel' = [kernel EXCEPT ![p] = new] /\ new # [exists |-> TRUE, life |-> 1, start |-> 0]
  BY <1>5
<1>7. KernelOK'
  BY <1>1, <1>6 DEF KernelOK
<1>8. ListOK'
  <2>1. \A q \in Pids : kernel'[q] = [exists |-> TRUE, life |-> 1, start |-> 0] => kernel'[q] = kernel[q]
    BY <1>1, <1>6 DEF KernelOK
  <2>2. /\ processes \in [1..Len(Listed) -> Process] /\ stat_files \in 0..MaxFiles
        /\ stat_files < MaxFiles => TrackedWhileAlive
    BY <1>1 DEF ListOK
  <2>3. Len(Listed) \in Nat
    BY DetectorAssumption
  <2>4. Len(processes) = Len(Listed) /\ \A k \in 1..Len(Listed) : processes[k].pid \in Pids
    <3>1. \A k \in 1..Len(Listed) : processes[k] \in Process
      BY <2>2
    <3>2. processes \in Seq(Process) /\ Len(processes) = Len(Listed)
      BY <2>2, <2>3
    <3> QED BY <3>1, <3>2 DEF Process
  <2>5. TrackedWhileAlive => TrackedWhileAlive'
    BY <1>2, <2>1, <2>4 DEF TrackedWhileAlive
  <2> QED BY <1>2, <2>2, <2>5 DEF ListOK, Process, Sample
<1> QED BY <1>3, <1>4, <1>7, <1>8 DEF DetIndInv

\* Initially nothing is open, counted or given up.
LEMMA DetInit ==
  ASSUME Init
  PROVE  DetIndInv
<1>1. KernelOK
  BY DEF Init, KernelOK
<1>2. BuildOK
  <2>1. Idle \in BuildState
    BY DEF Idle, BuildState, BuildCode
  <2> QED BY <2>1, ResetProfile DEF Init, BuildOK, SampleBudgetKept, BuildClosesFiles
<1>3. ListOK
  <2>1. NoSample \in Sample
    BY DEF NoSample, Sample
  <2>2. \A k \in 1..Len(Listed) : Listed[k].pid \in Pids /\ Listed[k].role \in {"NORMAL", "PROTECTED"}
    <3> DEFINE Row == [pid : Pids, role : {"NORMAL", "PROTECTED"}]
    <3>1. Listed \in Seq(Row)
      BY DetectorAssumption
    <3> HIDE DEF Row
    <3>2. \A k \in 1..Len(Listed) : Listed[k] \in Row
      BY <3>1
    <3> QED BY <3>2 DEF Row
  <2>3. Len(Listed) \in Nat
    BY DetectorAssumption
  <2>4. /\ processes \in [1..Len(Listed) -> Process] /\ \A k \in 1..Len(Listed) : processes[k].alive
    BY <2>1, <2>2 DEF Init, Process
  <2>5. Len(processes) = Len(Listed)
    BY <2>3, <2>4
  <2>6. stat_files \in 0..MaxFiles
    BY ProfileAssumption DEF Init
  <2> QED BY <2>4, <2>5, <2>6 DEF ListOK, TrackedWhileAlive
<1>4. JobOK /\ job.phase = "idle"
  <2>1. <<>> \in Seq(Candidate)
    OBVIOUS
  <2>2. /\ NoJob.phase = "idle" /\ NoJob.i = 0 /\ NoJob.active = <<>> /\ NoJob.produced = <<>>
        /\ NoJob = [x \in DOMAIN NoJob |-> NoJob[x]]
    BY DEF NoJob
  <2> HIDE DEF NoJob
  <2> QED BY <2>1, <2>2, EmptyIsSeq DEF Init, JobOK
<1>5. build.pc = "idle"
  BY DEF Init, Idle
<1>6. Loops /\ Counters
  BY <1>4, <1>5 DEF Loops, Counters
<1>7. OutOK
  <2>1. stats \in StatsRecord /\ runs = 0 /\ out = <<>> /\ limits \in Limits
    BY DEF Init, NoStats, StatsRecord
  <2>2. IsSeq(out) /\ Len(out) <= out_cap
    BY <2>1, EmptyIsSeq, DetectorAssumption DEF out_cap
  <2> QED BY <2>1, <2>2 DEF OutOK, StatsAddUp
<1> QED BY <1>1, <1>2, <1>3, <1>4, <1>6, <1>7 DEF DetIndInv

\* A step in which nothing changes.
LEMMA DetStutter ==
  ASSUME DetIndInv, UNCHANGED allVars
  PROVE  DetIndInv'
<1>1. KernelOK /\ BuildOK /\ ListOK /\ JobOK /\ Loops /\ Counters /\ OutOK
  BY DEF DetIndInv
<1>2. /\ kernel' = kernel /\ UNCHANGED profVars /\ stat_files' = stat_files /\ processes' = processes
      /\ job' = job /\ out' = out /\ rc' = rc /\ stats' = stats /\ runs' = runs /\ limits' = limits
  BY DEF allVars, runVars
<1>3. BuildOK' /\ build' = build /\ KernelOK' /\ ListOK'
  BY <1>1, <1>2, BuildUnchanged, KernelUnchanged, ListUnchanged
<1>4. JobOK' /\ Loops' /\ Counters' /\ OutOK'
  BY <1>1, <1>2, <1>3, RunUnchanged
<1> QED BY <1>3, <1>4 DEF DetIndInv

-----------------------------------------------------------------------------
(* The theorems.                                                           *)

\* The invariant of the detector's interval: what the counters of run_once
\* are in each of its loops, and what its files and buffers hold.
THEOREM DetectorInductive == Spec => []DetIndInv
<1>1. Init => DetIndInv
  BY DetInit
<1>2. DetIndInv /\ [Next]_allVars => DetIndInv'
  <2> SUFFICES ASSUME DetIndInv, [Next]_allVars
               PROVE  DetIndInv'
    OBVIOUS
  <2>1. CASE Begin
    BY <2>1, BeginKeeps
  <2>2. CASE ProfileProtected
    BY <2>2, ProfileProtectedKeeps
  <2>3. CASE MergeProtected
    BY <2>3, MergeProtectedKeeps
  <2>4. CASE ProtectedEnd
    BY <2>4, ProtectedEndKeeps
  <2>5. CASE Collect
    BY <2>5, CollectKeeps
  <2>6. CASE CollectEnd
    BY <2>6, CollectEndKeeps
  <2>7. CASE ProfileCandidate
    BY <2>7, ProfileCandidateKeeps
  <2>8. CASE JudgeCandidate
    BY <2>8, JudgeCandidateKeeps
  <2>9. CASE End
    BY <2>9, EndKeeps
  <2>10. CASE Build
    BY <2>10, BuildKeeps
  <2>11. CASE \E p \in Pids : Exit(p) \/ Reuse(p)
    BY <2>11, KernelKeeps
  <2>12. CASE UNCHANGED allVars
    BY <2>12, DetStutter
  <2> QED BY <2>1, <2>2, <2>3, <2>4, <2>5, <2>6, <2>7, <2>8, <2>9, <2>10, <2>11, <2>12 DEF Next
<1> QED BY <1>1, <1>2, PTL DEF Spec

\* However many processes there are and whatever becomes of them, a run of
\* the detector overflows neither the caller's array nor a profile's,
\* samples within its budget, closes the files of bank_profile_build,
\* examines the most active candidates, and its counters add up.
THEOREM DetectorCorrect == Spec => []DetectorInv
<1>1. DetIndInv => DetectorInv
  <2> SUFFICES ASSUME DetIndInv
               PROVE  DetectorInv
    OBVIOUS
  <2>1. KernelOK /\ BuildOK /\ ListOK /\ JobOK /\ Loops /\ Counters /\ OutOK
    BY DEF DetIndInv
  <2>2. TypeOK
    <3>1. build.pc \in {"idle", "opening", "maps", "pages", "ending", "done"}
      BY <2>1 DEF BuildOK, BuildState
    <3>2. Len(job.produced) <= out_cap
      <4>1. CASE job.phase = "overlap"
        <5>1. Len(job.produced) <= job.i - 1
          BY <2>1, <4>1 DEF Counters
        <5> QED BY <4>1, <5>1, OverlapLoop
      <4>2. CASE job.phase # "overlap"
        BY <2>1, <4>2, EmptyIsSeq, DetectorAssumption DEF JobOK, OutOK, out_cap
      <4> QED BY <4>1, <4>2
    <3> QED BY <2>1, <3>1, <3>2 DEF TypeOK, BuildOK, ListOK, JobOK, OutOK
  <2>3. SampleBudgetKept /\ BuildClosesFiles /\ StatsAddUp
    BY <2>1 DEF BuildOK, OutOK
  <2>4. BestAreExamined
    <3> SUFFICES ASSUME job.phase = "overlap", NEW k \in 1..Limit(Len(job.active)),
                        NEW l \in Limit(Len(job.active)) + 1..Len(job.active)
                 PROVE  ~Before(job.active[l], job.active[k])
      BY DEF BestAreExamined
    <3>1. k \in 1..Len(job.active) /\ l \in 1..Len(job.active) /\ k < l
      BY OverlapLoop
    <3> QED BY <2>1, <3>1 DEF Loops
  <2> QED BY <2>2, <2>3, <2>4 DEF DetectorInv
<1> QED BY <1>1, DetectorInductive, PTL

\* A score compares two samples of one process, whenever pids are reused;
\* only a successor that started within the same clock tick is not told
\* apart.
THEOREM ScoresAreOfOneProcess == Spec => []ScoreIsOfOneProcess
<1>1. DetIndInv => ScoreIsOfOneProcess
  <2> SUFFICES ASSUME DetIndInv, NEW k \in 1..Len(job.active), NEW s \in job.active[k].of,
                      NEW t \in job.active[k].of
               PROVE  s.life = t.life \/ s.start = t.start
    BY DEF ScoreIsOfOneProcess
  <2>1. job.active \in Seq(Candidate)
    BY DEF DetIndInv, JobOK
  <2>2. job.active[k] \in Candidate
    BY <2>1
  <2> QED BY <2>2 DEF Candidate
<1> QED BY <1>1, DetectorInductive, PTL

\* While a descriptor is left, collect_active_normal_candidates gives up a
\* process that has been running all the time only if sample_now failed on
\* that very process.  Once the streams sample_now never closes have used up
\* every descriptor, it gives up every one it samples.
THEOREM DropsOnlyOnSampleError == Spec => [](stat_files < MaxFiles => TrackedWhileAlive)
<1>1. DetIndInv => (stat_files < MaxFiles => TrackedWhileAlive)
  BY DEF DetIndInv, ListOK
<1> QED BY <1>1, DetectorInductive, PTL

-----------------------------------------------------------------------------
(* Sums.                                                                   *)

\* The cells under the graph of f on D, in columns with the names of name.
Cells(f, name, D) == UNION {{name[k]} \X (1..f[k]) : k \in D}

\* Numbers on a finite set.
Column(f, D) == IsFiniteSet(D) /\ \A k \in D : f[k] \in Nat
Same(D) == [k \in D |-> k]

\* What a cell is.
LEMMA CellIs ==
  ASSUME NEW f, NEW name, NEW D, NEW z
  PROVE  z \in Cells(f, name, D) <=> \E k \in D : \E i \in 1..f[k] : z = <<name[k], i>>
BY DEF Cells

\* There are finitely many.
LEMMA CellsFinite ==
  ASSUME NEW f, NEW name, NEW D, Column(f, D)
  PROVE  IsFiniteSet(Cells(f, name, D)) /\ Cardinality(Cells(f, name, D)) \in Nat
<1> DEFINE col(k) == {name[k]} \X (1..f[k])
           g == [k \in D |-> col(k)]
           C == {col(k) : k \in D}
<1>1. IsFiniteSet(C)
  <2>1. g \in Surjection(D, C)
    <3>1. g \in [D -> C] /\ \A t \in C : \E k \in D : g[k] = t
      OBVIOUS
    <3> QED BY <3>1, Zenon DEF Surjection
  <2>2. IsFiniteSet(D)
    BY DEF Column
  <2> HIDE DEF C, g
  <2> QED BY <2>1, <2>2, FS_Surjection
<1>2. ASSUME NEW k \in D PROVE IsFiniteSet(col(k))
  <2>1. f[k] \in Nat
    BY DEF Column
  <2>2. 1 \in Int /\ f[k] \in Int
    BY <2>1
  <2>3. IsFiniteSet({name[k]}) /\ IsFiniteSet(1..f[k])
    BY <2>2, FS_Singleton, FS_Interval
  <2> QED BY <2>3, FS_Product
<1>3. \A t \in C : IsFiniteSet(t)
  BY <1>2
<1>4. IsFiniteSet(UNION C)
  <2> HIDE DEF C
  <2> QED BY <1>1, <1>3, FS_UNION
<1>5. IsFiniteSet(Cells(f, name, D))
  BY <1>4 DEF Cells
<1> QED BY <1>5, FS_CardinalityType

\* The names of the columns do not matter, if they differ.
LEMMA CellsRenamed ==
  ASSUME NEW f, NEW name, NEW D, Column(f, D), \A k, l \in D : name[k] = name[l] => k = l
  PROVE  Cardinality(Cells(f, name, D)) = Cardinality(Cells(f, Same(D), D))
<1> DEFINE A == Cells(f, Same(D), D)
           B == Cells(f, name, D)
           h == [z \in A |-> <<name[z[1]], z[2]>>]
<1>1. \A z : z \in A <=> \E k \in D : \E i \in 1..f[k] : z = <<k, i>>
  <2> SUFFICES ASSUME NEW z PROVE z \in A <=> \E k \in D : \E i \in 1..f[k] : z = <<k, i>>
    OBVIOUS
  <2>1. z \in A <=> \E k \in D : \E i \in 1..f[k] : z = <<Same(D)[k], i>>
    BY CellIs
  <2>2. \A k \in D : Same(D)[k] = k
    BY DEF Same
  <2> QED BY <2>1, <2>2
<1>2. \A z : z \in B <=> \E k \in D : \E i \in 1..f[k] : z = <<name[k], i>>
  BY CellIs
<1>3. IsFiniteSet(A)
  BY CellsFinite
<1> HIDE DEF A, B
<1>4. \A z \in A : h[z] \in B
  <2> SUFFICES ASSUME NEW z \in A PROVE h[z] \in B
    OBVIOUS
  <2>1. PICK k \in D : \E i \in 1..f[k] : z = <<k, i>>
    BY <1>1
  <2>2. PICK i \in 1..f[k] : z = <<k, i>>
    BY <2>1
  <2>3. h[z] = <<name[k], i>>
    BY <2>2
  <2> QED BY <1>2, <2>3
<1>5. \A y, z \in A : h[y] = h[z] => y = z
  <2> SUFFICES ASSUME NEW y \in A, NEW z \in A, h[y] = h[z] PROVE y = z
    OBVIOUS
  <2>1. PICK k \in D : \E i \in 1..f[k] : y = <<k, i>>
    BY <1>1
  <2>2. PICK i \in 1..f[k] : y = <<k, i>>
    BY <2>1
  <2>3. PICK l \in D : \E j \in 1..f[l] : z = <<l, j>>
    BY <1>1
  <2>4. PICK j \in 1..f[l] : z = <<l, j>>
    BY <2>3
  <2>5. h[y] = <<name[k], i>> /\ h[z] = <<name[l], j>>
    BY <2>2, <2>4
  <2> QED BY <2>2, <2>4, <2>5
<1>6. \A t \in B : \E z \in A : h[z] = t
  <2> SUFFICES ASSUME NEW t \in B PROVE \E z \in A : h[z] = t
    OBVIOUS
  <2>1. PICK k \in D : \E i \in 1..f[k] : t = <<name[k], i>>
    BY <1>2
  <2>2. PICK i \in 1..f[k] : t = <<name[k], i>>
    BY <2>1
  <2>3. <<k, i>> \in A
    BY <1>1
  <2>4. h[<<k, i>>] = <<name[k], i>>
    BY <2>3
  <2> QED BY <2>2, <2>3, <2>4
<1>7. h \in Injection(A, B) /\ h \in Surjection(A, B)
  <2>1. h \in [A -> B]
    BY <1>4
  <2> HIDE DEF h
  <2> QED BY <1>5, <1>6, <2>1, Zenon DEF Injection, Surjection, IsInjective
<1>8. Cardinality(A) = Cardinality(B)
  <2> HIDE DEF h
  <2> QED BY <1>3, <1>7, FS_Surjection
<1> QED BY <1>8 DEF A, B

\* Total counts them.
LEMMA TotalIs ==
  ASSUME NEW f, Column(f, DOMAIN f)
  PROVE  Total(f) = Cardinality(Cells(f, Same(DOMAIN f), DOMAIN f)) /\ Total(f) \in Nat
<1>1. {{k} \X (1..f[k]) : k \in DOMAIN f} = {{Same(DOMAIN f)[k]} \X (1..f[k]) : k \in DOMAIN f}
  <2>1. \A k \in DOMAIN f : Same(DOMAIN f)[k] = k
    BY DEF Same
  <2> QED BY <2>1
<1>2. Total(f) = Cardinality(Cells(f, Same(DOMAIN f), DOMAIN f))
  BY <1>1, Zenon DEF Total, Cells
<1> QED BY <1>2, CellsFinite

\* g is f on A.
Part(g, f, A) == DOMAIN g = A /\ \A k \in A : g[k] = f[k]

\* A sum is that of its parts.
LEMMA TotalSplit ==
  ASSUME NEW f, Column(f, DOMAIN f), NEW A, NEW B, DOMAIN f = A \cup B, A \cap B = {},
         NEW g, Part(g, f, A), NEW h, Part(h, f, B)
  PROVE  Total(f) = Total(g) + Total(h) /\ Total(f) \in Nat /\ Total(g) \in Nat /\ Total(h) \in Nat
<1> DEFINE D == DOMAIN f
           X == Cells(f, Same(D), D)
           Y == Cells(g, Same(A), A)
           Z == Cells(h, Same(B), B)
<1>1. IsFiniteSet(D) /\ \A k \in D : f[k] \in Nat
  BY DEF Column
<1>2. IsFiniteSet(A) /\ IsFiniteSet(B)
  BY <1>1, FS_Subset
<1>3. DOMAIN g = A /\ DOMAIN h = B /\ (\A k \in A : g[k] = f[k]) /\ (\A k \in B : h[k] = f[k])
  BY DEF Part
<1>4. Column(g, A) /\ Column(h, B)
  BY <1>1, <1>2, <1>3 DEF Column
<1>5. Total(f) = Cardinality(X) /\ Total(g) = Cardinality(Y) /\ Total(h) = Cardinality(Z)
      /\ Total(f) \in Nat /\ Total(g) \in Nat /\ Total(h) \in Nat
  <2>1. Total(f) = Cardinality(X) /\ Total(f) \in Nat
    BY TotalIs
  <2>2. Total(g) = Cardinality(Y) /\ Total(g) \in Nat
    BY <1>3, <1>4, TotalIs
  <2>3. Total(h) = Cardinality(Z) /\ Total(h) \in Nat
    BY <1>3, <1>4, TotalIs
  <2> QED BY <2>1, <2>2, <2>3
<1>6. IsFiniteSet(Y) /\ IsFiniteSet(Z)
  BY <1>4, CellsFinite
<1>7. /\ \A z : z \in X <=> \E k \in D : \E i \in 1..f[k] : z = <<k, i>>
      /\ \A z : z \in Y <=> \E k \in A : \E i \in 1..f[k] : z = <<k, i>>
      /\ \A z : z \in Z <=> \E k \in B : \E i \in 1..f[k] : z = <<k, i>>
  <2>1. (\A k \in D : Same(D)[k] = k) /\ (\A k \in A : Same(A)[k] = k) /\ \A k \in B : Same(B)[k] = k
    BY DEF Same
  <2>2. \A z : z \in X <=> \E k \in D : \E i \in 1..f[k] : z = <<Same(D)[k], i>>
    <3> HIDE DEF D
    <3> QED BY CellIs
  <2>3. \A z : z \in Y <=> \E k \in A : \E i \in 1..g[k] : z = <<Same(A)[k], i>>
    BY CellIs
  <2>4. \A z : z \in Z <=> \E k \in B : \E i \in 1..h[k] : z = <<Same(B)[k], i>>
    BY CellIs
  <2> HIDE DEF X, Y, Z
  <2>5. \A z : z \in X <=> \E k \in D : \E i \in 1..f[k] : z = <<k, i>>
    BY <2>1, <2>2
  <2>6. \A z : z \in Y <=> \E k \in A : \E i \in 1..f[k] : z = <<k, i>>
    BY <1>3, <2>1, <2>3
  <2>7. \A z : z \in Z <=> \E k \in B : \E i \in 1..f[k] : z = <<k, i>>
    BY <1>3, <2>1, <2>4
  <2> QED BY <2>5, <2>6, <2>7
<1> HIDE DEF X, Y, Z
<1>8. X = Y \cup Z
  <2>1. \A z : z \in X <=> z \in Y \/ z \in Z
    BY <1>7
  <2> QED BY <2>1
<1>9. Y \cap Z = {}
  <2> SUFFICES ASSUME NEW z \in Y, z \in Z PROVE FALSE
    OBVIOUS
  <2>1. PICK k \in A : \E i \in 1..f[k] : z = <<k, i>>
    BY <1>7
  <2>2. PICK l \in B : \E i \in 1..f[l] : z = <<l, i>>
    BY <1>7
  <2>3. z[1] = k /\ z[1] = l
    BY <2>1, <2>2
  <2> QED BY <2>3
<1>10. Cardinality(X) = Cardinality(Y) + Cardinality(Z) - Cardinality(Y \cap Z)
  BY <1>6, <1>8, FS_Union
<1>11. Cardinality(Y \cap Z) = 0
  BY <1>9, FS_EmptySet
<1> QED BY <1>5, <1>10, <1>11

\* Of one number.
LEMMA TotalOne ==
  ASSUME NEW f, NEW m, DOMAIN f = {m}, f[m] \in Nat
  PROVE  Total(f) = f[m]
<1>1. {{k} \X (1..f[k]) : k \in DOMAIN f} = {{m} \X (1..f[m])}
  OBVIOUS
<1>2. UNION {{m} \X (1..f[m])} = {m} \X (1..f[m])
  OBVIOUS
<1>3. Total(f) = Cardinality({m} \X (1..f[m]))
  BY <1>1, <1>2, Zenon DEF Total
<1> DEFINE n == f[m]
<1>4. n \in Nat /\ 1 \in Int /\ n \in Int
  OBVIOUS
<1> HIDE DEF n
<1>5. IsFiniteSet({m}) /\ Cardinality({m}) = 1 /\ IsFiniteSet(1..n) /\ Cardinality(1..n) = n
  <2>1. IsFiniteSet({m}) /\ Cardinality({m}) = 1
    BY FS_Singleton
  <2>2. IsFiniteSet(1..n) /\ Cardinality(1..n) = IF 1 > n THEN 0 ELSE n - 1 + 1
    BY <1>4, FS_Interval
  <2> QED BY <1>4, <2>1, <2>2
<1>6. Cardinality({m} \X (1..n)) = 1 * n
  <2>1. Cardinality({m} \X (1..n)) = Cardinality({m}) * Cardinality(1..n)
    BY <1>5, FS_Product
  <2> QED BY <1>5, <2>1
<1> QED BY <1>3, <1>4, <1>6 DEF n

\* Of none.
LEMMA TotalNone ==
  ASSUME NEW f, DOMAIN f = {}
  PROVE  Total(f) = 0
<1>1. UNION {{k} \X (1..f[k]) : k \in DOMAIN f} = {}
  OBVIOUS
<1> QED BY <1>1, FS_EmptySet DEF Total

\* With one more.
LEMMA TotalMore ==
  ASSUME NEW f, NEW m, m \notin DOMAIN f, Column(f, DOMAIN f), NEW g, DOMAIN g = DOMAIN f \cup {m}, g[m] \in Nat,
         \A k \in DOMAIN f : g[k] = f[k]
  PROVE  Total(g) = Total(f) + g[m] /\ Total(f) \in Nat
<1> DEFINE h == [k \in {m} |-> g[m]]
<1>1. Part(f, g, DOMAIN f) /\ Part(h, g, {m})
  BY DEF Part
<1>2. Column(g, DOMAIN g)
  <2>1. IsFiniteSet(DOMAIN f) /\ \A k \in DOMAIN f : f[k] \in Nat
    BY DEF Column
  <2>2. IsFiniteSet(DOMAIN f \cup {m})
    BY <2>1, FS_AddElement
  <2> QED BY <2>1, <2>2 DEF Column
<1>3. Total(h) = g[m]
  <2>1. DOMAIN h = {m} /\ h[m] = g[m]
    OBVIOUS
  <2> HIDE DEF h
  <2> QED BY <2>1, TotalOne
<1> HIDE DEF h
<1>4. DOMAIN f \cap {m} = {}
  OBVIOUS
<1>5. Total(g) = Total(f) + Total(h) /\ Total(f) \in Nat
  BY <1>1, <1>2, <1>4, TotalSplit
<1> QED BY <1>3, <1>5

\* With one number larger by c.
LEMMA TotalLarger ==
  ASSUME NEW f, NEW m \in DOMAIN f, Column(f, DOMAIN f), NEW c \in Nat, NEW g, DOMAIN g = DOMAIN f, g[m] = f[m] + c,
         \A k \in DOMAIN f : k # m => g[k] = f[k]
  PROVE  Total(g) = Total(f) + c
<1> DEFINE D == DOMAIN f \ {m}
           r == [k \in D |-> f[k]]
<1>1. DOMAIN r = D /\ \A k \in D : r[k] = f[k] /\ r[k] = g[k]
  OBVIOUS
<1>2. IsFiniteSet(DOMAIN f) /\ \A k \in DOMAIN f : f[k] \in Nat
  BY DEF Column
<1>3. IsFiniteSet(D)
  BY <1>2, FS_RemoveElement
<1>4. DOMAIN f = D \cup {m} /\ DOMAIN g = D \cup {m} /\ m \notin D /\ f[m] \in Nat /\ g[m] \in Nat
  BY <1>2
<1> HIDE DEF r, D
<1>5. Column(r, DOMAIN r)
  BY <1>1, <1>2, <1>3, <1>4 DEF Column
<1>6. (\A k \in DOMAIN r : f[k] = r[k]) /\ (\A k \in DOMAIN r : g[k] = r[k]) /\ m \notin DOMAIN r
      /\ DOMAIN f = DOMAIN r \cup {m} /\ DOMAIN g = DOMAIN r \cup {m}
  BY <1>1, <1>4
<1>7. Total(f) = Total(r) + f[m] /\ Total(r) \in Nat
  BY <1>4, <1>5, <1>6, TotalMore
<1>8. Total(g) = Total(r) + g[m]
  BY <1>4, <1>5, <1>6, TotalMore
<1> QED BY <1>4, <1>7, <1>8

-----------------------------------------------------------------------------
(* The screening of activity_prefilter.c.                                  *)

Observation == [pid : Pids, valid : BOOLEAN, delta : Changes]

\* The largest of three numbers is one of them.
LEMMA MaxOfThree ==
  ASSUME NEW x \in Int, NEW y \in Int, NEW z \in Int
  PROVE  Max({x, y, z}) \in Int
<1> DEFINE S == {x, y, z}
<1>1. \E m \in S : \A k \in S : m >= k
  <2>1. CASE x >= y /\ x >= z
    BY <2>1
  <2>2. CASE y >= x /\ y >= z
    BY <2>2
  <2>3. CASE z >= x /\ z >= y
    BY <2>3
  <2> QED BY <2>1, <2>2, <2>3
<1>2. S \subseteq Int
  OBVIOUS
<1> HIDE DEF S
<1>3. Max(S) \in S
  BY <1>1 DEF Max
<1> QED BY <1>2, <1>3 DEF S

\* A candidate of the screening has a number for its score.
LEMMA CheapType ==
  ASSUME NEW obs \in Seq(Observation), NEW i \in DOMAIN obs
  PROVE  Cheap(obs, i).screening_score \in Int /\ Cheap(obs, i).pid \in Nat /\ Cheap(obs, i).pid = obs[i].pid
<1>1. obs[i] \in Observation
  OBVIOUS
<1>2. obs[i].pid \in Nat /\ obs[i].delta \in Change
  BY <1>1, ProfileAssumption, DetectorAssumption DEF Observation
<1>3. screening_score(obs[i].delta) \in Int
  <2> DEFINE c == obs[i].delta
             x == clamp01(c.cpu, cpu_ratio_full_scale * c.elapsed)
             y == clamp01(weighted_faults(c), faults_per_sec_full_scale * c.elapsed)
             z == clamp01(c.rss_pages, rss_full_scale)
  <2>1. x \in Int /\ y \in Int /\ z \in Int
    <3>1. c \in Change
      BY <1>2
    <3> HIDE DEF c
    <3> QED BY <3>1, ClampType
  <2>2. screening_score(c) = Max({x, y, z})
    BY DEF screening_score
  <2> HIDE DEF x, y, z, c
  <2>3. screening_score(c) \in Int
    BY <2>1, <2>2, MaxOfThree
  <2> QED BY <2>3 DEF c
<1> QED BY <1>2, <1>3 DEF Cheap

\* R lists the observations of E, none before a better one.
Ranking(R, obs, E) ==
    /\ DOMAIN R = 1..Cardinality(E)
    /\ \A i \in E : \E k \in 1..Cardinality(E) : R[k] = Cheap(obs, i)
    /\ \A k, l \in 1..Cardinality(E) : k < l => ~compare_candidate_desc(R[l], R[k])

\* p is an order of the kind that qsort is modelled by.
RankOrder(p, obs, E) ==
    /\ p \in [1..Cardinality(E) -> E]
    /\ \A i \in E : \E k \in 1..Cardinality(E) : p[k] = i
    /\ \A k, l \in 1..Cardinality(E) : k < l => ~compare_candidate_desc(Cheap(obs, p[l]), Cheap(obs, p[k]))

\* The observations that pass can be put in order.
LEMMA RankExists ==
  ASSUME NEW obs \in Seq(Observation), NEW E \in SUBSET DOMAIN obs
  PROVE  IsFiniteSet(E) /\ Cardinality(E) \in Nat /\ \E p : RankOrder(p, obs, E)
<1>1. IsFiniteSet(E)
  <2>1. DOMAIN obs = 1..Len(obs) /\ 1 \in Int /\ Len(obs) \in Int
    OBVIOUS
  <2>2. IsFiniteSet(1..Len(obs))
    BY <2>1, FS_Interval
  <2> QED BY <2>1, <2>2, FS_Subset
<1>2. Cardinality(E) \in Nat
  BY <1>1, FS_CardinalityType
<1> DEFINE n == Cardinality(E)
           N == 1..n
<1>3. PICK b : b \in Bijection(N, E)
  BY <1>1, FS_CardinalityType DEF ExistsBijection
<1> DEFINE score == [k \in N |-> Cheap(obs, b[k]).screening_score]
           pid == [k \in N |-> Cheap(obs, b[k]).pid]
<1>4. b \in [N -> E] /\ \A i \in E : \E k \in N : b[k] = i
  BY <1>3, Zenon DEF Bijection, Injection, Surjection
<1>5. \A k \in N : Cheap(obs, b[k]).screening_score \in Int /\ Cheap(obs, b[k]).pid \in Int
  BY <1>4, CheapType
<1> HIDE DEF n
<1>6. score \in [N -> Int] /\ pid \in [N -> Int] /\ n \in Nat
  BY <1>2, <1>5 DEF n
<1>7. \A k, l \in N : Ahead(score, pid, k, l) <=> compare_candidate_desc(Cheap(obs, b[k]), Cheap(obs, b[l]))
  BY DEF Ahead, compare_candidate_desc
<1> HIDE DEF score, pid
<1>8. PICK p : Orders(p, n, score, pid)
  BY <1>6, OrderExists
<1>9. p \in [N -> N] /\ (\A i \in N : \E k \in N : p[k] = i) /\ \A k, l \in N : k < l => ~Ahead(score, pid, p[l], p[k])
  BY <1>8 DEF Orders
<1> DEFINE q == [k \in N |-> b[p[k]]]
<1>10. q \in [N -> E] /\ \A k \in N : q[k] = b[p[k]] /\ p[k] \in N
  BY <1>4, <1>9
<1> HIDE DEF q
<1>11. \A i \in E : \E k \in N : q[k] = i
  <2> TAKE i \in E
  <2>1. PICK j \in N : b[j] = i
    BY <1>4
  <2>2. PICK k \in N : p[k] = j
    BY <1>9
  <2> QED BY <1>10, <2>1, <2>2
<1>12. \A k, l \in N : k < l => ~compare_candidate_desc(Cheap(obs, q[l]), Cheap(obs, q[k]))
  BY <1>7, <1>9, <1>10
<1>13. RankOrder(q, obs, E)
  BY <1>10, <1>11, <1>12 DEF RankOrder, n
<1> QED BY <1>1, <1>2, <1>13

\* qsort with compare_candidate_desc loses no observation and puts none
\* before a better one.
LEMMA RankedIs ==
  ASSUME NEW obs \in Seq(Observation), NEW E \in SUBSET DOMAIN obs
  PROVE  Ranking(Ranked(obs, E), obs, E) /\ IsFiniteSet(E) /\ Cardinality(E) \in Nat
         /\ Ranked(obs, E) = [k \in DOMAIN Ranked(obs, E) |-> Ranked(obs, E)[k]]
<1> DEFINE N == 1..Cardinality(E)
           Ok(p) == /\ \A i \in E : \E k \in N : p[k] = i
                    /\ \A k, l \in N : k < l => ~compare_candidate_desc(Cheap(obs, p[l]), Cheap(obs, p[k]))
           order == CHOOSE p \in [N -> E] : Ok(p)
<1>1. \E p \in [N -> E] : Ok(p)
  <2>1. PICK p : RankOrder(p, obs, E)
    BY RankExists
  <2> QED BY <2>1 DEF RankOrder
<1>2. Ranked(obs, E) = [k \in N |-> Cheap(obs, order[k])]
  BY DEF Ranked
<1> HIDE DEF Ok
<1>3. order \in [N -> E] /\ Ok(order)
  BY <1>1
<1> HIDE DEF order
<1>4. Ranking(Ranked(obs, E), obs, E)
  <2>1. DOMAIN Ranked(obs, E) = N /\ \A k \in N : Ranked(obs, E)[k] = Cheap(obs, order[k])
    BY <1>2
  <2> QED BY <1>3, <2>1 DEF Ranking, Ok
<1> QED BY <1>2, <1>4, RankExists

Eligible(obs) == {i \in DOMAIN obs : activity_prefilter_is_eligible(obs[i])}
Chosen(n, limit) == IF limit > 0 /\ n > limit THEN limit ELSE n

\* r hands out the first m of R, or nothing if they do not fit.
Handed(r, R, m, cap) ==
    IF cap < m THEN r.rc = "NO_SPACE" /\ r.out = <<>>
    ELSE r.rc = "OK" /\ Len(r.out) = m /\ \A k \in 1..m : r.out[k] = R[k]

\* What select_topk hands out, for every limit and every array.
LEMMA TopkIs ==
  ASSUME NEW obs \in Seq(Observation), NEW limit \in Nat, NEW cap \in Nat,
         NEW R, R = Ranked(obs, Eligible(obs)), NEW n, n = Cardinality(Eligible(obs)),
         NEW r, r = activity_prefilter_select_topk(obs, limit, cap)
  PROVE  /\ Ranking(R, obs, Eligible(obs)) /\ n \in Nat /\ Chosen(n, limit) \in 0..n
         /\ r.stats = Stats(obs, Eligible(obs))
         /\ Handed(r, R, Chosen(n, limit), cap)
<1> DEFINE E == Eligible(obs)
           m == Chosen(n, limit)
<1>1. E \in SUBSET DOMAIN obs
  BY DEF Eligible
<1>2. Ranking(R, obs, E) /\ n \in Nat /\ R = [k \in DOMAIN R |-> R[k]]
  <2> HIDE DEF E
  <2> QED BY <1>1, RankedIs DEF E
<1>3. m \in 0..n
  BY <1>2 DEF Chosen
<1>4. R \in Seq({R[k] : k \in 1..n}) /\ Len(R) = n
  <2>1. DOMAIN R = 1..n
    BY <1>2 DEF Ranking
  <2>2. R \in [1..n -> {R[k] : k \in 1..n}]
    BY <1>2, <2>1
  <2> QED BY <1>2, <2>1, <2>2
<1>5. r = [rc |-> IF cap < m THEN "NO_SPACE" ELSE "OK", out |-> IF cap < m THEN <<>> ELSE SubSeq(R, 1, m),
           stats |-> Stats(obs, E)]
  BY DEF activity_prefilter_select_topk, Eligible, Chosen
<1> HIDE DEF m, E
<1>6. Len(SubSeq(R, 1, m)) = m /\ \A k \in 1..m : SubSeq(R, 1, m)[k] = R[k]
  <2>1. m \in Nat /\ m <= Len(R)
    BY <1>2, <1>3, <1>4
  <2> QED BY <1>4, <2>1
<1>7. Handed(r, R, m, cap)
  <2>1. CASE cap < m
    BY <1>5, <2>1 DEF Handed
  <2>2. CASE ~(cap < m)
    <3>1. r.rc = "OK" /\ r.out = SubSeq(R, 1, m)
      <4> DEFINE sub == SubSeq(R, 1, m)
                 st == Stats(obs, E)
      <4>1. r = [rc |-> IF cap < m THEN "NO_SPACE" ELSE "OK", out |-> IF cap < m THEN <<>> ELSE sub, stats |-> st]
        BY <1>5
      <4> HIDE DEF sub, st
      <4>2. r = [rc |-> "OK", out |-> sub, stats |-> st]
        BY <2>2, <4>1, Zenon
      <4>3. r.rc = "OK" /\ r.out = sub
        BY <4>2
      <4> QED BY <4>3 DEF sub
    <3> QED BY <1>6, <2>2, <3>1 DEF Handed
  <2> QED BY <2>1, <2>2
<1>8. r.stats = Stats(obs, E)
  BY <1>5
<1> QED BY <1>2, <1>3, <1>7, <1>8 DEF m, E

\* Two disjoint finite sets.
LEMMA Disjoint ==
  ASSUME NEW A, NEW B, IsFiniteSet(A), IsFiniteSet(B), A \cap B = {}
  PROVE  IsFiniteSet(A \cup B) /\ Cardinality(A \cup B) = Cardinality(A) + Cardinality(B)
         /\ Cardinality(A) \in Nat /\ Cardinality(B) \in Nat
<1>1. IsFiniteSet(A \cup B) /\ Cardinality(A \cup B) = Cardinality(A) + Cardinality(B) - Cardinality(A \cap B)
  BY FS_Union
<1>2. Cardinality(A) \in Nat /\ Cardinality(B) \in Nat /\ Cardinality(A \cap B) = 0
  BY FS_EmptySet, FS_CardinalityType
<1> QED BY <1>1, <1>2

\* The counters of the screening count every valid observation once.
LEMMA StatsPartition ==
  ASSUME NEW obs \in Seq(Observation), NEW s, s = Stats(obs, Eligible(obs))
  PROVE  s.valid_observations =
           s.excluded_zombie + s.excluded_small_rss + s.excluded_no_signal + s.eligible_candidates
<1> DEFINE valid == {i \in DOMAIN obs : observation_is_valid(obs[i])}
           zombie == {i \in valid : Zombie(obs[i])}
           small == {i \in valid \ zombie : SmallRss(obs[i])}
           silent == {i \in valid \ (zombie \cup small) : ~activity_prefilter_is_eligible(obs[i])}
           E == Eligible(obs)
<1>1. /\ s.valid_observations = Cardinality(valid) /\ s.excluded_zombie = Cardinality(zombie)
      /\ s.excluded_small_rss = Cardinality(small) /\ s.excluded_no_signal = Cardinality(silent)
      /\ s.eligible_candidates = Cardinality(E)
  BY DEF Stats
<1>2. IsFiniteSet(valid)
  <2>1. DOMAIN obs = 1..Len(obs) /\ 1 \in Int /\ Len(obs) \in Int
    OBVIOUS
  <2>2. IsFiniteSet(1..Len(obs)) /\ valid \subseteq 1..Len(obs)
    BY <2>1, FS_Interval
  <2> HIDE DEF valid
  <2> QED BY <2>2, FS_Subset
<1>3. valid = (zombie \cup small) \cup (silent \cup E)
  BY DEF Eligible, activity_prefilter_is_eligible
<1>4. zombie \cap small = {} /\ silent \cap E = {} /\ (zombie \cup small) \cap (silent \cup E) = {}
  BY DEF Eligible, activity_prefilter_is_eligible
<1> HIDE DEF valid, zombie, small, silent, E
<1>5. IsFiniteSet(zombie) /\ IsFiniteSet(small) /\ IsFiniteSet(silent) /\ IsFiniteSet(E)
  <2>1. zombie \subseteq valid /\ small \subseteq valid /\ silent \subseteq valid /\ E \subseteq valid
    BY <1>3
  <2> QED BY <1>2, <2>1, FS_Subset
<1>6. IsFiniteSet(zombie \cup small) /\ Cardinality(zombie \cup small) = Cardinality(zombie) + Cardinality(small)
      /\ Cardinality(zombie) \in Nat /\ Cardinality(small) \in Nat
  BY <1>4, <1>5, Disjoint
<1>7. IsFiniteSet(silent \cup E) /\ Cardinality(silent \cup E) = Cardinality(silent) + Cardinality(E)
      /\ Cardinality(silent) \in Nat /\ Cardinality(E) \in Nat
  BY <1>4, <1>5, Disjoint
<1>8. Cardinality(valid) = Cardinality(zombie \cup small) + Cardinality(silent \cup E)
  BY <1>3, <1>4, <1>6, <1>7, Disjoint
<1> QED BY <1>1, <1>6, <1>7, <1>8

\* With room for all of them every eligible observation is handed out.
LEMMA TopkAll ==
  ASSUME NEW obs \in Seq(Observation), NEW a, a = activity_prefilter_select_topk(obs, 0, Len(obs)).out,
         NEW R, R = Ranked(obs, Eligible(obs)), NEW n, n = Cardinality(Eligible(obs))
  PROVE  Len(a) = n /\ \A k \in 1..n : a[k] = R[k]
<1> DEFINE r == activity_prefilter_select_topk(obs, 0, Len(obs))
<1>1. Len(obs) \in Nat /\ 0 \in Nat /\ n <= Len(obs) /\ n \in Nat
  <2>1. DOMAIN obs = 1..Len(obs) /\ Len(obs) \in Nat /\ 1 \in Int /\ Len(obs) \in Int
    OBVIOUS
  <2>2. IsFiniteSet(1..Len(obs)) /\ Cardinality(1..Len(obs)) = IF 1 > Len(obs) THEN 0 ELSE Len(obs) - 1 + 1
    BY <2>1, FS_Interval
  <2>3. Eligible(obs) \subseteq 1..Len(obs)
    BY <2>1 DEF Eligible
  <2>4. Cardinality(Eligible(obs)) <= Cardinality(1..Len(obs)) /\ Cardinality(Eligible(obs)) \in Nat
    BY <2>2, <2>3, FS_Subset, FS_CardinalityType
  <2> QED BY <2>1, <2>2, <2>4
<1> HIDE DEF r
<1>2. Handed(r, R, Chosen(n, 0), Len(obs))
  BY <1>1, TopkIs DEF r
<1>3. Chosen(n, 0) = n /\ ~(Len(obs) < n)
  BY <1>1 DEF Chosen
<1> QED BY <1>2, <1>3 DEF r, Handed

\* What PrefilterSelectsBest says of one sequence of observations.
BestSelected(obs, limit, cap) ==
    LET r == activity_prefilter_select_topk(obs, limit, cap)
        all == activity_prefilter_select_topk(obs, 0, Len(obs)).out
        handed == {r.out[l] : l \in 1..Len(r.out)}
    IN  /\ r.rc = "OK" =>
             /\ limit > 0 => Len(r.out) <= limit
             /\ limit = 0 \/ Len(r.out) < limit => Len(r.out) = Len(all)
             /\ \A a \in handed, l \in 1..Len(all) :
                  all[l] \in handed \/ ~compare_candidate_desc(all[l], a)
        /\ r.rc # "OK" => r.out = <<>>
        /\ r.stats.valid_observations =
             r.stats.excluded_zombie + r.stats.excluded_small_rss
             + r.stats.excluded_no_signal + r.stats.eligible_candidates

\* activity_prefilter_select_topk hands out the best candidates or none, and
\* counts every valid observation once, for any observations, any limit and
\* any size of the caller's array.
THEOREM SelectsBest ==
  ASSUME NEW obs \in Seq(Observation), NEW limit \in Nat, NEW cap \in Nat
  PROVE  BestSelected(obs, limit, cap)
<1> DEFINE r == activity_prefilter_select_topk(obs, limit, cap)
           all == activity_prefilter_select_topk(obs, 0, Len(obs)).out
           handed == {r.out[l] : l \in 1..Len(r.out)}
           R == Ranked(obs, Eligible(obs))
           n == Cardinality(Eligible(obs))
           m == Chosen(n, limit)
<1>1. /\ Ranking(R, obs, Eligible(obs)) /\ n \in Nat /\ m \in 0..n
      /\ r.stats = Stats(obs, Eligible(obs))
      /\ Handed(r, R, m, cap)
  <2> HIDE DEF r, R, n
  <2> QED BY TopkIs DEF r, R, n
<1>2. Len(all) = n /\ \A k \in 1..n : all[k] = R[k]
  <2> HIDE DEF all, R, n
  <2> QED BY TopkAll DEF all, R, n
<1>3. r.stats.valid_observations =
        r.stats.excluded_zombie + r.stats.excluded_small_rss
        + r.stats.excluded_no_signal + r.stats.eligible_candidates
  BY <1>1, StatsPartition
<1>4. \A k, l \in 1..n : k < l => ~compare_candidate_desc(R[l], R[k])
  BY <1>1 DEF Ranking
<1>5. (limit > 0 => m <= limit) /\ (limit = 0 \/ m < limit => m = n)
  BY <1>1 DEF Chosen
<1> HIDE DEF r, all, R, n, m
<1>6. r.rc # "OK" => r.out = <<>>
  BY <1>1 DEF Handed
<1>7. ASSUME r.rc = "OK"
      PROVE  /\ limit > 0 => Len(r.out) <= limit
             /\ limit = 0 \/ Len(r.out) < limit => Len(r.out) = Len(all)
             /\ \A a \in handed, l \in 1..Len(all) : all[l] \in handed \/ ~compare_candidate_desc(all[l], a)
  <2>1. Len(r.out) = m /\ \A k \in 1..m : r.out[k] = R[k]
    BY <1>1, <1>7 DEF Handed
  <2>2. ASSUME NEW a \in handed, NEW l \in 1..Len(all)
        PROVE  all[l] \in handed \/ ~compare_candidate_desc(all[l], a)
    <3>1. PICK k \in 1..m : a = R[k]
      BY <2>1, <2>2
    <3>2. l \in 1..n /\ all[l] = R[l] /\ k \in 1..n
      BY <1>1, <1>2, <2>2
    <3>3. CASE l <= m
      <4>1. l \in 1..m
        BY <1>1, <3>2, <3>3
      <4> QED BY <2>1, <3>2, <4>1
    <3>4. CASE ~(l <= m)
      <4>1. k < l
        BY <1>1, <3>1, <3>2, <3>4
      <4> QED BY <1>4, <3>1, <3>2, <4>1
    <3> QED BY <3>3, <3>4
  <2> HIDE DEF handed
  <2> QED BY <1>2, <1>5, <2>1, <2>2
<1> HIDE DEF handed
<1> QED BY <1>3, <1>6, <1>7, Zenon DEF BestSelected, r, all, handed

\* A process that the detector found active, as the screening sees it.
Screened(o) ==
    /\ o.pid \in Pids /\ o.valid /\ o.delta \in Change /\ is_active(o.delta)
    /\ o.delta.elapsed # 0 /\ o.delta.cpu >= 0 /\ o.delta.minflt >= 0 /\ o.delta.majflt >= 0

\* Activity is a signal, if it needs more than nothing.
LEMMA ActiveIsEligible ==
  ASSUME NEW o, Screened(o), SettingsAgree
  PROVE  activity_prefilter_is_eligible(o)
<1> DEFINE c == o.delta
<1>1. /\ c.elapsed \in Nat \ {0} /\ c.cpu \in Nat /\ c.minflt \in Nat /\ c.majflt \in Nat /\ c.rss_pages \in Int
      /\ o.pid \in Nat \ {0} /\ o.valid /\ is_active(c)
  <2>1. o.pid \in Pids /\ c \in Change /\ c.elapsed # 0 /\ c.cpu >= 0 /\ c.minflt >= 0 /\ c.majflt >= 0
    BY Zenon DEF Screened
  <2>3. o.valid /\ is_active(c)
    BY Zenon DEF Screened
  <2> HIDE DEF c
  <2>2. /\ c.elapsed \in Nat \ {0} /\ c.cpu \in Nat /\ c.minflt \in Nat /\ c.majflt \in Nat /\ c.rss_pages \in Int
        /\ o.pid \in Nat \ {0}
    <3>1. Pids \subseteq Nat \ {0}
      BY ProfileAssumption
    <3>2. /\ c.elapsed \in Nat /\ c.cpu \in Int /\ c.minflt \in Int /\ c.majflt \in Int /\ c.rss_pages \in Int
      BY <2>1 DEF Change
    <3>3. o.pid \in Nat \ {0}
      BY <2>1, <3>1
    <3>4. c.elapsed \in Nat \ {0} /\ c.cpu \in Nat /\ c.minflt \in Nat /\ c.majflt \in Nat
      BY <2>1, <3>2
    <3> QED BY <3>2, <3>3, <3>4
  <2> QED BY <2>2, <2>3, Zenon
<1>2. /\ active_cpu_ratio_threshold \in Nat \ {0} /\ active_faults_per_sec_threshold \in Nat \ {0}
      /\ min_rss_pages \in Nat \ {0} /\ major_fault_weight \in Nat
      /\ prefilter_min_rss_pages \in Nat /\ prefilter_min_rss_pages <= min_rss_pages
  BY ActivityAssumption, PrefilterAssumption DEF SettingsAgree
<1>3. \A a, b \in Nat \ {0} : a * b > 0
  OBVIOUS
<1> HIDE DEF c
<1>4. active_cpu_ratio_threshold * c.elapsed > 0 /\ active_faults_per_sec_threshold * c.elapsed > 0
      /\ active_cpu_ratio_threshold * c.elapsed \in Nat /\ active_faults_per_sec_threshold * c.elapsed \in Nat
  BY <1>1, <1>2, <1>3
<1>5. c.state # "Z" /\ c.rss_pages >= min_rss_pages
  BY <1>1 DEF is_active
<1>6. c.cpu > 0 \/ c.minflt > 0 \/ c.majflt > 0 \/ c.state \in {"R", "D"}
  <2>1. CASE c.cpu >= active_cpu_ratio_threshold * c.elapsed
    BY <1>1, <1>4, <2>1
  <2>2. CASE weighted_faults(c) >= active_faults_per_sec_threshold * c.elapsed
    <3>1. major_fault_weight * c.majflt \in Int /\ (c.majflt = 0 => major_fault_weight * c.majflt = 0)
      BY <1>1, <1>2
    <3>2. c.minflt + major_fault_weight * c.majflt > 0
      <4> DEFINE w == major_fault_weight * c.majflt
                 t == active_faults_per_sec_threshold * c.elapsed
      <4>1. c.minflt + w >= t /\ t > 0 /\ t \in Nat /\ w \in Int
        BY <1>4, <2>2, <3>1 DEF weighted_faults
      <4> HIDE DEF w, t
      <4>2. c.minflt + w > 0
        BY <1>1, <4>1
      <4> QED BY <4>2 DEF w
    <3> QED BY <1>1, <3>1, <3>2
  <2> QED BY <1>1, <2>1, <2>2 DEF is_active
<1> QED BY <1>1, <1>2, <1>5, <1>6
        DEF c, activity_prefilter_is_eligible, observation_is_valid, Zombie, SmallRss, has_cheap_activity_signal

\* The screening drops no observation of an active process.
LEMMA KeepsActive ==
  ASSUME NEW obs \in Seq(Observation), NEW i \in 1..Len(obs), Screened(obs[i]),
         SettingsAgree,
         NEW passed, passed = activity_prefilter_select_topk(obs, 0, Len(obs)).out
  PROVE  \E l \in 1..Len(passed) : passed[l].pid = obs[i].pid
<1> DEFINE R == Ranked(obs, Eligible(obs))
           n == Cardinality(Eligible(obs))
<1>1. i \in DOMAIN obs /\ activity_prefilter_is_eligible(obs[i])
  BY ActiveIsEligible
<1>2. i \in Eligible(obs) /\ Eligible(obs) \in SUBSET DOMAIN obs
  BY <1>1 DEF Eligible
<1>3. Len(passed) = n /\ \A k \in 1..n : passed[k] = R[k]
  <2> HIDE DEF R, n
  <2> QED BY TopkAll DEF R, n
<1>4. Ranking(R, obs, Eligible(obs))
  BY <1>2, RankedIs
<1>5. PICK k \in 1..n : R[k] = Cheap(obs, i)
  BY <1>2, <1>4 DEF Ranking
<1>6. Cheap(obs, i).pid = obs[i].pid
  BY <1>1, CheapType
<1> HIDE DEF R, n
<1> QED BY <1>3, <1>5, <1>6

-----------------------------------------------------------------------------
(* The observations of one interval.                                       *)

\* What the loop over the normal processes has seen: an observation of every
\* process it found active.
ScreenOK ==
    /\ job.phase \in {"idle", "protected"} => job.observed = <<>> /\ job.active = <<>>
    /\ job.phase = "collect" =>
         /\ job.observed \in Seq(Observation)
         /\ \A k \in 1..Len(job.active) : \E l \in 1..Len(job.observed) :
              job.observed[l].pid = job.active[k].pid /\ Screened(job.observed[l])

\* Both properties of the screening, of what was observed.
LEMMA ScreenImplies ==
  ASSUME ScreenOK
  PROVE  PrefilterKeepsActive /\ PrefilterSelectsBest
<1>1. ASSUME job.phase = "collect",
             SettingsAgree,
             NEW k \in 1..Len(job.active)
      PROVE  LET passed == activity_prefilter_select_topk(job.observed, 0, Len(job.observed)).out
             IN  \E l \in 1..Len(passed) : passed[l].pid = job.active[k].pid
  <2> DEFINE obs == job.observed
             passed == activity_prefilter_select_topk(obs, 0, Len(obs)).out
  <2>1. obs \in Seq(Observation)
    BY <1>1 DEF ScreenOK
  <2>2. PICK i \in 1..Len(obs) : obs[i].pid = job.active[k].pid /\ Screened(obs[i])
    BY <1>1 DEF ScreenOK
  <2>3. \E l \in 1..Len(passed) : passed[l].pid = obs[i].pid
    <3> HIDE DEF obs, passed
    <3> QED BY <1>1, <2>1, <2>2, KeepsActive DEF passed
  <2> QED BY <2>2, <2>3
<1>2. ASSUME job.phase = "collect", NEW limit \in 0..2, NEW cap \in 0..2
      PROVE  BestSelected(job.observed, limit, cap)
  <2>1. job.observed \in Seq(Observation) /\ limit \in Nat /\ cap \in Nat
    BY <1>2 DEF ScreenOK
  <2> QED BY <2>1, SelectsBest
<1>3. PrefilterKeepsActive
  BY <1>1, Zenon DEF PrefilterKeepsActive
<1>4. PrefilterSelectsBest
  BY <1>2, Zenon DEF PrefilterSelectsBest, BestSelected
<1> QED BY <1>3, <1>4

\* What ScreenOK says of the next state.
LEMMA ScreenNext ==
  ASSUME job'.phase \in {"idle", "protected"} => job'.observed = <<>> /\ job'.active = <<>>,
         job'.phase = "collect" =>
           /\ job'.observed \in Seq(Observation)
           /\ \A k \in 1..Len(job'.active) : \E l \in 1..Len(job'.observed) :
                job'.observed[l].pid = job'.active[k].pid /\ Screened(job'.observed[l])
  PROVE  ScreenOK'
BY DEF ScreenOK, Screened, Observation, Change, is_active, weighted_faults

\* Steps that leave the observations and the candidates alone.
LEMMA ScreenStays ==
  ASSUME ScreenOK, job'.phase = job.phase, job'.observed = job.observed, job'.active = job.active
  PROVE  ScreenOK'
BY ScreenNext DEF ScreenOK

\* run_once returns.
LEMMA ScreenLeave ==
  ASSUME NEW code, Leave(code)
  PROVE  ScreenOK'
<1>1. job'.phase = "idle" /\ job'.observed = <<>> /\ job'.active = <<>>
  BY DEF Leave, NoJob
<1> QED BY <1>1, ScreenNext

\* The candidates become act, in which cand may be new, and an observation
\* of the process is added.
Joins(act, code, c, cand) == act = job.active \/ (code = "OK" /\ is_active(c) /\ act = Append(job.active, cand))
Observes(pid, code, c, act) ==
    job' = [job EXCEPT !.i = @ + 1,
              !.observed = Append(@, [pid |-> pid, valid |-> code = "OK", delta |-> c]), !.active = act]

\* A second sample of a process is an observation; if it makes the process a
\* candidate, the observation is one of an active process.
LEMMA ScreenSample ==
  ASSUME ScreenOK, JobOK, job.phase = "collect", NEW pid \in Pids, NEW c \in Changes, NEW new, NEW old, NEW cand,
         NEW code, code = compute_delta_rc(old, new, c), cand.pid = pid,
         NEW act, Joins(act, code, c, cand), cand \in Candidate, Observes(pid, code, c, act)
  PROVE  ScreenOK'
<1> DEFINE v == (code = "OK")
           o == [pid |-> pid, valid |-> v, delta |-> c]
           obs == Append(job.observed, o)
<1>1. job'.phase = "collect" /\ job'.observed = obs /\ job'.active = act
  BY JobFields DEF Observes
<1>2. job.observed \in Seq(Observation) /\ job.active \in Seq(Candidate)
  BY JobFields DEF ScreenOK
<1>3. o \in Observation /\ o.pid = pid /\ o.delta = c
  <2>1. v \in BOOLEAN
    OBVIOUS
  <2> HIDE DEF v
  <2> QED BY <2>1 DEF Observation
<1>4. code = "OK" /\ is_active(c) => Screened(o)
  <2> HAVE code = "OK" /\ is_active(c)
  <2>1. v
    OBVIOUS
  <2>2. o.valid
    <3> HIDE DEF v
    <3> QED BY <2>1, Zenon
  <2>3. ~(c.elapsed = 0) /\ ~(c.cpu < 0) /\ ~(c.minflt < 0) /\ ~(c.majflt < 0)
    BY DEF compute_delta_rc
  <2>4. c \in Change
    BY DetectorAssumption
  <2>5. c.elapsed # 0 /\ c.cpu >= 0 /\ c.minflt >= 0 /\ c.majflt >= 0
    BY <2>3, <2>4 DEF Change
  <2> HIDE DEF o
  <2> QED BY <1>3, <2>2, <2>4, <2>5, Zenon DEF Screened
<1> HIDE DEF o
<1>5. obs \in Seq(Observation) /\ Len(obs) = Len(job.observed) + 1 /\ Len(job.observed) \in Nat
      /\ obs[Len(obs)] = o /\ \A l \in 1..Len(job.observed) : obs[l] = job.observed[l]
  BY <1>2, <1>3
<1> HIDE DEF obs
<1>6. ASSUME NEW k \in 1..Len(act)
      PROVE  \E l \in 1..Len(obs) : obs[l].pid = act[k].pid /\ Screened(obs[l])
  <2>1. CASE k \in 1..Len(job.active) /\ act[k] = job.active[k]
    <3>1. PICK l \in 1..Len(job.observed) :
            job.observed[l].pid = job.active[k].pid /\ Screened(job.observed[l])
      BY <2>1 DEF ScreenOK
    <3>2. l \in 1..Len(obs) /\ obs[l] = job.observed[l]
      BY <1>5
    <3> QED BY <2>1, <3>1, <3>2
  <2>2. CASE code = "OK" /\ is_active(c) /\ act[k] = cand
    <3>1. Len(obs) \in 1..Len(obs)
      BY <1>5
    <3> QED BY <1>3, <1>4, <1>5, <2>2, <3>1
  <2>3. act = job.active => k \in 1..Len(job.active) /\ act[k] = job.active[k]
    BY <1>6
  <2>4. act = Append(job.active, cand) => (k \in 1..Len(job.active) /\ act[k] = job.active[k]) \/ act[k] = cand
    BY <1>2, <1>6
  <2> QED BY <2>1, <2>2, <2>3, <2>4 DEF Joins
<1>7. /\ job'.observed \in Seq(Observation)
      /\ \A k \in 1..Len(job'.active) : \E l \in 1..Len(job'.observed) :
           job'.observed[l].pid = job'.active[k].pid /\ Screened(job'.observed[l])
  <2>1. \A k \in 1..Len(act) : \E l \in 1..Len(obs) : obs[l].pid = act[k].pid /\ Screened(obs[l])
    BY <1>6
  <2> QED BY <1>1, <1>5, <2>1
<1> QED BY <1>1, <1>7, ScreenNext

\* collect_active_normal_candidates, one process.
LEMMA ScreenCollect ==
  ASSUME ScreenOK, DetIndInv, Collect
  PROVE  ScreenOK'
<1>1. job.phase = "collect" /\ JobOK /\ KernelOK /\ Current \in Process /\ Current.pid \in Pids
      /\ Current.sample \in Sample
  <2>1. job.phase = "collect" /\ job.i <= Len(processes) /\ JobOK /\ KernelOK /\ ListOK
    BY DEF Collect, DetIndInv
  <2>2. Current \in Process
    BY <2>1, CurrentIs DEF Current
  <2> QED BY <2>1, <2>2 DEF Process
<1>2. CASE job' = [job EXCEPT !.i = @ + 1]
  <2>1. job'.phase = job.phase /\ job'.observed = job.observed /\ job'.active = job.active
    BY <1>1, <1>2, JobFields
  <2> QED BY <2>1, ScreenStays
<1> DEFINE new == [life |-> kernel[Current.pid].life, start |-> kernel[Current.pid].start]
           code(c) == compute_delta_rc(Current.sample, new, c)
           cand(c) == [pid |-> Current.pid, score |-> total_score(c), of |-> {Current.sample, new}]
           act(c) == IF code(c) = "OK" /\ is_active(c) /\ total_score(c) >= activity_score_threshold
                     THEN Append(job.active, cand(c)) ELSE job.active
<1>3. ASSUME NEW c \in Changes, Observes(Current.pid, code(c), c, act(c))
      PROVE  ScreenOK'
  <2>1. new \in Sample
    BY <1>1 DEF KernelOK, Sample
  <2>2. code(c) = "OK" => cand(c) \in Candidate
    <3>1. c \in Change
      BY DetectorAssumption
    <3>2. total_score(c) \in Int
      BY <3>1, ScoreType
    <3>3. code(c) = "OK" => Current.sample.start = new.start
      BY DEF compute_delta_rc
    <3> HIDE DEF code, new
    <3> QED BY <1>1, <2>1, <3>2, <3>3 DEF Candidate
  <2>3. Joins(act(c), code(c), c, cand(c))
    BY DEF Joins
  <2>4. code(c) = compute_delta_rc(Current.sample, new, c) /\ cand(c).pid = Current.pid
    OBVIOUS
  <2>5. ~(code(c) = "OK") => act(c) = job.active
    OBVIOUS
  <2> HIDE DEF new, code, cand, act
  <2>6. CASE code(c) = "OK"
    BY <1>1, <1>3, <2>2, <2>3, <2>4, <2>6, ScreenSample, Zenon
  <2>7. CASE code(c) # "OK"
    <3> DEFINE other == [pid |-> Current.pid, score |-> 0, of |-> {}]
    <3>1. other \in Candidate /\ other.pid = Current.pid
      BY <1>1 DEF Candidate
    <3>2. Joins(act(c), code(c), c, other)
      BY <2>5, <2>7 DEF Joins
    <3> HIDE DEF other
    <3> QED BY <1>1, <1>3, <2>4, <3>1, <3>2, ScreenSample, Zenon
  <2> QED BY <2>6, <2>7
<1>4. job' = [job EXCEPT !.i = @ + 1] \/ \E c \in Changes :
        Observes(Current.pid, code(c), c, act(c))
  BY DEF Collect, SampleFails, SampleTaken, Observes
<1> HIDE DEF act, code
<1> QED BY <1>2, <1>3, <1>4

\* The steps of the detector keep ScreenOK.
LEMMA ScreenStep ==
  ASSUME ScreenOK, DetIndInv, [Next]_allVars
  PROVE  ScreenOK'
<1>0. JobOK
  BY DEF DetIndInv
<1>1. CASE job' = job
  BY <1>1, ScreenStays
<1>2. CASE job' = [job EXCEPT !.i = @ + 1]
  <2>1. job'.phase = job.phase /\ job'.observed = job.observed /\ job'.active = job.active
    BY <1>0, <1>2, JobFields
  <2> QED BY <2>1, ScreenStays
<1>3. ASSUME NEW code, Leave(code) PROVE ScreenOK'
  BY <1>3, ScreenLeave
<1>4. CASE Begin
  <2>1. CASE job' = [NoJob EXCEPT !.phase = "protected", !.i = 1]
    <3>1. job'.phase = "protected" /\ job'.observed = <<>> /\ job'.active = <<>>
      BY <2>1 DEF NoJob
    <3> QED BY <3>1, ScreenNext
  <2> QED BY <1>3, <1>4, <2>1 DEF Begin
<1>5. CASE ProfileProtected
  BY <1>1, <1>2, <1>5 DEF ProfileProtected
<1>6. CASE MergeProtected
  <2>1. CASE job' = [job EXCEPT !.i = @ + 1, !.aggregate = bank_profile_merge(job.aggregate, profile).p]
    <3>1. job'.phase = job.phase /\ job'.observed = job.observed /\ job'.active = job.active
      BY <1>0, <2>1, JobFields
    <3> QED BY <3>1, ScreenStays
  <2> QED BY <1>2, <1>3, <1>6, <2>1 DEF MergeProtected
<1>7. CASE ProtectedEnd
  <2>1. CASE job.phase = "protected" /\ job' = [job EXCEPT !.phase = "collect", !.i = 1]
    <3>1. job'.phase = "collect" /\ job'.observed = <<>> /\ job'.active = <<>>
      BY <1>0, <2>1, JobFields DEF ScreenOK
    <3>2. <<>> \in Seq(Observation) /\ 1..Len(<<>>) = {}
      OBVIOUS
    <3> QED BY <3>1, <3>2, ScreenNext
  <2> QED BY <1>3, <1>7, <2>1 DEF ProtectedEnd
<1>8. CASE Collect
  BY <1>8, ScreenCollect
<1>9. CASE CollectEnd
  <2>1. job'.phase = "overlap"
    BY <1>0, <1>9, JobFields DEF CollectEnd
  <2> QED BY <2>1, ScreenNext
<1>10. CASE ProfileCandidate
  BY <1>1, <1>10 DEF ProfileCandidate, runVars
<1>11. CASE JudgeCandidate
  <2>1. job'.phase = "overlap"
    BY <1>0, <1>11, JobFields DEF JudgeCandidate
  <2> QED BY <2>1, ScreenNext
<1>12. CASE End
  BY <1>3, <1>12 DEF End
<1>13. CASE Build
  BY <1>1, <1>13 DEF Build, runVars
<1>14. CASE \E p \in Pids : Exit(p) \/ Reuse(p)
  BY <1>1, <1>14 DEF Exit, Reuse, runVars
<1>15. CASE UNCHANGED allVars
  BY <1>1, <1>15 DEF allVars, runVars
<1> QED BY <1>4, <1>5, <1>6, <1>7, <1>8, <1>9, <1>10, <1>11, <1>12, <1>13, <1>14, <1>15 DEF Next

\* The observations are of the processes found active, in every interval.
LEMMA ScreenHolds == Spec => []ScreenOK
<1>1. Init => ScreenOK
  <2> SUFFICES ASSUME Init PROVE ScreenOK
    OBVIOUS
  <2>1. job.phase = "idle" /\ job.observed = <<>> /\ job.active = <<>>
    BY DEF Init, NoJob
  <2> QED BY <2>1 DEF ScreenOK
<1>2. ScreenOK /\ DetIndInv /\ [Next]_allVars => ScreenOK'
  BY ScreenStep
<1> QED BY <1>1, <1>2, DetectorInductive, PTL DEF Spec

\* Putting activity_prefilter.c in front of the detector loses no candidate,
\* as long as activity needs more than nothing: with room for all of them
\* the screening passes every process found active, whatever was observed.
THEOREM PrefilterLosesNone == Spec => []PrefilterKeepsActive
BY ScreenHolds, ScreenImplies, PTL

\* activity_prefilter_select_topk hands out the best candidates or none, and
\* counts every valid observation once, whatever was observed.
THEOREM PrefilterIsBest == Spec => []PrefilterSelectsBest
BY ScreenHolds, ScreenImplies, PTL

-----------------------------------------------------------------------------
(* Histograms.                                                             *)

\* The page counts of a profile's entries, and their classes.
Counts(p) == [k \in DOMAIN p.entries |-> p.entries[k].page_count]
Classes(p) == [k \in DOMAIN p.entries |-> p.entries[k].bank_class]

\* No class has two entries, and none is empty.
Regular(p) ==
    \A k, l \in DOMAIN p.entries :
        p.entries[k].page_count > 0 /\ (p.entries[k].bank_class = p.entries[l].bank_class => k = l)

\* The smallest of one number.
LEMMA MinOfOne ==
  ASSUME NEW m \in Int
  PROVE  Min({m}) = m
BY DEF Min

\* The entries of a profile.
LEMMA EntriesAre ==
  ASSUME NEW p \in Profile
  PROVE  /\ p.entries \in Seq(Entry) /\ DOMAIN p.entries = 1..Len(p.entries) /\ Len(p.entries) \in Nat
         /\ IsFiniteSet(DOMAIN p.entries)
         /\ \A k \in DOMAIN p.entries : p.entries[k] \in Entry /\ p.entries[k].page_count \in Nat
<1>1. p.entries \in Seq(Entry) /\ DOMAIN p.entries = 1..Len(p.entries) /\ Len(p.entries) \in Nat
      /\ \A k \in DOMAIN p.entries : p.entries[k] \in Entry
  BY DEF Profile
<1>2. \A k \in DOMAIN p.entries : p.entries[k].page_count \in Nat
  BY <1>1 DEF Entry
<1>3. IsFiniteSet(1..Len(p.entries))
  <2>1. 1 \in Int /\ Len(p.entries) \in Int
    BY <1>1
  <2> QED BY <2>1, FS_Interval
<1> QED BY <1>1, <1>2, <1>3

\* Its counts can be added.
LEMMA CountsAre ==
  ASSUME NEW p \in Profile
  PROVE  DOMAIN Counts(p) = DOMAIN p.entries /\ Column(Counts(p), DOMAIN p.entries) /\ Total(Counts(p)) \in Nat
<1>1. DOMAIN Counts(p) = DOMAIN p.entries /\ \A k \in DOMAIN p.entries : Counts(p)[k] = p.entries[k].page_count
  BY DEF Counts
<1>2. Column(Counts(p), DOMAIN p.entries)
  BY <1>1, EntriesAre DEF Column
<1>3. Total(Counts(p)) \in Nat
  BY <1>1, <1>2, TotalIs
<1> QED BY <1>1, <1>2, <1>3

\* A class has one entry.
LEMMA OneEntry ==
  ASSUME NEW p \in Profile, Regular(p), NEW class, EntriesOf(p, class) # {}
  PROVE  /\ EntriesOf(p, class) = {Min(EntriesOf(p, class))} /\ Min(EntriesOf(p, class)) \in DOMAIN p.entries
         /\ p.entries[Min(EntriesOf(p, class))].bank_class = class
<1>1. DOMAIN p.entries = 1..Len(p.entries) /\ Len(p.entries) \in Nat
  BY EntriesAre
<1>2. PICK m : m \in EntriesOf(p, class)
  OBVIOUS
<1>3. m \in DOMAIN p.entries /\ p.entries[m].bank_class = class /\ m \in Int
  BY <1>1, <1>2 DEF EntriesOf
<1>4. \A k \in EntriesOf(p, class) : k = m
  BY <1>1, <1>3 DEF EntriesOf, Regular
<1>5. EntriesOf(p, class) = {m}
  BY <1>2, <1>4
<1>6. Min(EntriesOf(p, class)) = m
  BY <1>3, <1>5, MinOfOne
<1> QED BY <1>3, <1>5, <1>6

\* q after count pages of class were added as r: the histogram has so many
\* more, and nothing else has changed.
Adds(q, count, r) ==
    /\ Regular(r) /\ Total(Counts(r)) = Total(Counts(q)) + count
    /\ r.pages_sampled = q.pages_sampled /\ r.pages_translated = q.pages_translated /\ r.skipped = q.skipped
    /\ count > 0 \/ q.entries # <<>> => r.entries # <<>>

\* An entry grows.
LEMMA GrownAdds ==
  ASSUME NEW q \in Profile, Regular(q), NEW m \in DOMAIN q.entries, NEW count \in Nat
  PROVE  Adds(q, count, [q EXCEPT !.entries[m].page_count = @ + count])
<1> DEFINE r == [q EXCEPT !.entries[m].page_count = @ + count]
           new == [q.entries[m] EXCEPT !.page_count = @ + count]
           es == [q.entries EXCEPT ![m] = new]
<1>1. /\ q.entries \in Seq(Entry) /\ DOMAIN q.entries = 1..Len(q.entries) /\ Len(q.entries) \in Nat
      /\ \A k \in DOMAIN q.entries : q.entries[k] \in Entry /\ q.entries[k].page_count \in Nat
  BY EntriesAre
<1>2. r = [q EXCEPT !.entries = es]
  OBVIOUS
<1>3. new.page_count = q.entries[m].page_count + count /\ new.bank_class = q.entries[m].bank_class
  <2>1. q.entries[m] \in Entry
    BY <1>1
  <2> QED BY <2>1 DEF Entry
<1> HIDE DEF new
<1>4. DOMAIN es = DOMAIN q.entries /\ es[m] = new /\ \A k \in DOMAIN q.entries : k # m => es[k] = q.entries[k]
  OBVIOUS
<1> HIDE DEF es, r
<1>5. /\ r.entries = es /\ r.pages_sampled = q.pages_sampled /\ r.pages_translated = q.pages_translated
      /\ r.skipped = q.skipped
  BY <1>2 DEF Profile
<1>6. Regular(r)
  <2>1. \A k \in DOMAIN es : es[k].bank_class = q.entries[k].bank_class /\ es[k].page_count > 0
    BY <1>1, <1>3, <1>4 DEF Regular
  <2> QED BY <1>4, <1>5, <2>1 DEF Regular
<1>7. Total(Counts(r)) = Total(Counts(q)) + count
  <2>1. /\ DOMAIN Counts(r) = DOMAIN q.entries /\ DOMAIN Counts(q) = DOMAIN q.entries
        /\ Counts(r)[m] = Counts(q)[m] + count
        /\ \A k \in DOMAIN q.entries : k # m => Counts(r)[k] = Counts(q)[k]
    BY <1>3, <1>4, <1>5 DEF Counts
  <2>2. Column(Counts(q), DOMAIN Counts(q))
    BY <2>1, CountsAre
  <2> QED BY <2>1, <2>2, TotalLarger
<1>8. r.entries # <<>>
  <2>1. m \in DOMAIN r.entries
    BY <1>4, <1>5
  <2> QED BY <2>1
<1>9. Adds(q, count, r)
  BY <1>5, <1>6, <1>7, <1>8 DEF Adds
<1> QED BY <1>9 DEF r

\* An entry is new.
LEMMA NewAdds ==
  ASSUME NEW q \in Profile, Regular(q), NEW class, EntriesOf(q, class) = {}, NEW count \in Nat, count > 0
  PROVE  Adds(q, count, [q EXCEPT !.entries = Append(@, [bank_class |-> class, page_count |-> count])])
<1> DEFINE e == [bank_class |-> class, page_count |-> count]
           es == Append(q.entries, e)
           r == [q EXCEPT !.entries = Append(@, e)]
           n == Len(q.entries)
<1>1. /\ q.entries \in Seq(Entry) /\ DOMAIN q.entries = 1..n /\ n \in Nat
      /\ \A k \in DOMAIN q.entries : q.entries[k] \in Entry /\ q.entries[k].page_count \in Nat
  BY EntriesAre
<1>2. r = [q EXCEPT !.entries = es]
  OBVIOUS
<1>3. e.page_count = count /\ e.bank_class = class
  OBVIOUS
<1> HIDE DEF e
<1>4. DOMAIN es = (1..n) \cup {n + 1} /\ es[n + 1] = e /\ \A k \in 1..n : es[k] = q.entries[k]
  <2>1. DOMAIN es = 1..(n + 1) /\ es[n + 1] = e /\ \A k \in 1..n : es[k] = q.entries[k]
    BY <1>1
  <2>2. 1..(n + 1) = (1..n) \cup {n + 1}
    BY <1>1
  <2> QED BY <2>1, <2>2
<1> HIDE DEF es, r
<1>5. /\ r.entries = es /\ r.pages_sampled = q.pages_sampled /\ r.pages_translated = q.pages_translated
      /\ r.skipped = q.skipped
  BY <1>2 DEF Profile
<1>6. Regular(r)
  <2>1. \A k \in 1..n : q.entries[k].bank_class # class
    BY <1>1 DEF EntriesOf
  <2>2. \A k, l \in 1..n : es[k].page_count > 0 /\ (es[k].bank_class = es[l].bank_class => k = l)
    BY <1>1, <1>4 DEF Regular
  <2>3. \A k, l \in (1..n) \cup {n + 1} : es[k].page_count > 0 /\ (es[k].bank_class = es[l].bank_class => k = l)
    BY <1>3, <1>4, <2>1, <2>2
  <2> QED BY <1>4, <1>5, <2>3 DEF Regular
<1>7. Total(Counts(r)) = Total(Counts(q)) + count
  <2>1. /\ DOMAIN Counts(r) = DOMAIN Counts(q) \cup {n + 1} /\ Counts(r)[n + 1] = count
        /\ n + 1 \notin DOMAIN Counts(q)
        /\ \A k \in DOMAIN Counts(q) : Counts(r)[k] = Counts(q)[k]
    BY <1>1, <1>3, <1>4, <1>5 DEF Counts
  <2>2. Column(Counts(q), DOMAIN Counts(q)) /\ Total(Counts(q)) \in Nat
    BY CountsAre
  <2> DEFINE f == Counts(q)
             g == Counts(r)
             m == n + 1
  <2>3. /\ DOMAIN g = DOMAIN f \cup {m} /\ g[m] = count /\ g[m] \in Nat /\ m \notin DOMAIN f
        /\ (\A k \in DOMAIN f : g[k] = f[k]) /\ Column(f, DOMAIN f)
    BY <2>1, <2>2
  <2> HIDE DEF f, g, m
  <2>4. Total(g) = Total(f) + g[m]
    BY <2>3, TotalMore
  <2> QED BY <2>3, <2>4 DEF f, g
<1>8. r.entries # <<>>
  <2>1. n + 1 \in DOMAIN r.entries
    BY <1>4, <1>5
  <2> QED BY <2>1
<1>9. Adds(q, count, r)
  BY <1>5, <1>6, <1>7, <1>8 DEF Adds
<1> QED BY <1>9 DEF r, e

\* profile_add_bank_class_count adds the pages to their class, or leaves the
\* profile as it is.
LEMMA AddIs ==
  ASSUME NEW q \in Profile, Regular(q), NEW class, NEW count \in Nat,
         NEW r, r = profile_add_bank_class_count(q, class, count)
  PROVE  DOMAIN r = {"rc", "p"} /\ Regular(r.p) /\ (r.rc = "OK" => Adds(q, count, r.p))
<1> DEFINE found == EntriesOf(q, class)
           one == [q EXCEPT !.entries[Min(found)].page_count = @ + count]
           more == [q EXCEPT !.entries = Append(@, [bank_class |-> class, page_count |-> count])]
<1>1. r = IF count = 0 THEN [rc |-> "OK", p |-> q]
          ELSE IF found # {} THEN [rc |-> "OK", p |-> one]
          ELSE IF Len(q.entries) >= BANK_PROFILE_MAX_ENTRIES THEN [rc |-> "TOO_MANY_CLASSES", p |-> q]
          ELSE [rc |-> "OK", p |-> more]
  BY DEF profile_add_bank_class_count
<1>2. found # {} => Adds(q, count, one)
  <2> HAVE found # {}
  <2>1. Min(found) \in DOMAIN q.entries
    BY OneEntry
  <2> DEFINE m == Min(found)
  <2>2. m \in DOMAIN q.entries
    BY <2>1
  <2> HIDE DEF m
  <2>3. Adds(q, count, [q EXCEPT !.entries[m].page_count = @ + count])
    BY <2>2, GrownAdds
  <2> QED BY <2>3 DEF m
<1>3. found = {} /\ count # 0 => Adds(q, count, more)
  <2> HAVE found = {} /\ count # 0
  <2>1. count > 0
    OBVIOUS
  <2> QED BY <2>1, NewAdds
<1>4. count = 0 => Adds(q, count, q)
  <2>1. Total(Counts(q)) \in Nat
    BY CountsAre
  <2> QED BY <2>1 DEF Adds
<1> HIDE DEF found, one, more
<1>5. \/ r.p = q /\ r.rc = "TOO_MANY_CLASSES"
      \/ r.rc = "OK" /\ Adds(q, count, r.p)
  BY <1>1, <1>2, <1>3, <1>4
<1>6. DOMAIN r = {"rc", "p"}
  BY <1>1
<1> QED BY <1>5, <1>6 DEF Adds

-----------------------------------------------------------------------------
(* Merging.                                                                *)

\* A set of naturals that is not empty has a least member.
LEMMA Least ==
  ASSUME NEW T, T \subseteq Nat, T # {}
  PROVE  \E x \in T : \A y \in T : x <= y
<1> DEFINE R == OpToRel(<, Nat)
<1>1. IsWellFoundedOn(R, Nat)
  BY NatLessThanWellFounded
<1>2. \A x, y \in Nat : <<x, y>> \in R <=> x < y
  BY DEF OpToRel
<1> HIDE DEF R
<1>3. PICK x \in T : \A y \in T : ~(<<y, x>> \in R)
  BY <1>1, WFMin
<1>4. ASSUME NEW y \in T PROVE x <= y
  <2>1. x \in Nat /\ y \in Nat
    OBVIOUS
  <2>2. ~(y < x)
    BY <1>2, <1>3, <2>1
  <2> QED BY <2>1, <2>2
<1> QED BY <1>4

\* Induction, with a set for the property.
LEMMA Induction ==
  ASSUME NEW S, 0 \in S, \A n \in Nat : n \in S => n + 1 \in S
  PROVE  Nat \subseteq S
<1> DEFINE T == Nat \ S
<1> SUFFICES ASSUME T # {} PROVE FALSE
  OBVIOUS
<1>1. PICK x \in T : \A y \in T : x <= y
  BY Least
<1>2. x - 1 \in Nat /\ x - 1 \notin T
  BY <1>1
<1> QED BY <1>2

\* One round of bank_profile_merge's loop, and f as what the rounds up to n
\* lead to.
Round(src, k, before) ==
    IF before.rc # "OK" THEN before
    ELSE profile_add_bank_class_count(before.p, src.entries[k].bank_class, src.entries[k].page_count)
Rounds(f, dst, src, n) ==
    f = [k \in 0..n |-> IF k = 0 THEN [rc |-> "OK", p |-> dst] ELSE Round(src, k, f[k - 1])]

\* There is such an f.
LEMMA RoundsExist ==
  ASSUME NEW dst, NEW src, NEW n \in Nat
  PROVE  \E f : Rounds(f, dst, src, n)
<1> DEFINE S == {m \in Nat : \E f : Rounds(f, dst, src, m)}
           b == [rc |-> "OK", p |-> dst]
<1> HIDE DEF b
<1>1. 0 \in S
  <2> DEFINE f == [k \in 0..0 |-> b]
  <2>1. f = [k \in 0..0 |-> IF k = 0 THEN b ELSE Round(src, k, f[k - 1])]
    OBVIOUS
  <2>2. Rounds(f, dst, src, 0)
    <3> HIDE DEF f
    <3> QED BY <2>1, Zenon DEF Rounds, b
  <2> QED BY <2>2
<1>2. ASSUME NEW m \in Nat, m \in S PROVE m + 1 \in S
  <2>1. PICK f : Rounds(f, dst, src, m)
    BY <1>2
  <2>2. f = [k \in 0..m |-> IF k = 0 THEN b ELSE Round(src, k, f[k - 1])]
    BY <2>1, Zenon DEF Rounds, b
  <2> DEFINE g == [k \in 0..(m + 1) |-> IF k = m + 1 THEN Round(src, k, f[k - 1]) ELSE f[k]]
             h == [k \in 0..(m + 1) |-> IF k = 0 THEN b ELSE Round(src, k, g[k - 1])]
  <2>3. \A k \in 0..m : g[k] = f[k]
    OBVIOUS
  <2>4. ASSUME NEW k \in 0..(m + 1) PROVE g[k] = IF k = 0 THEN b ELSE Round(src, k, g[k - 1])
    <3>1. CASE k = 0
      <4>1. f[k] = b /\ k \in 0..m
        BY <2>2, <3>1
      <4> QED BY <2>3, <3>1, <4>1
    <3>2. CASE k = m + 1
      <4>1. k - 1 \in 0..m /\ k # 0
        BY <3>2
      <4>2. g[k] = Round(src, k, f[k - 1])
        BY <3>2
      <4> QED BY <2>3, <4>1, <4>2
    <3>3. CASE k # 0 /\ k # m + 1
      <4>1. k \in 0..m /\ k - 1 \in 0..m
        BY <3>3
      <4>2. f[k] = Round(src, k, f[k - 1])
        BY <2>2, <3>3, <4>1
      <4> QED BY <2>3, <3>3, <4>1, <4>2
    <3> QED BY <3>1, <3>2, <3>3
  <2>5. g = h
    BY <2>4
  <2>6. Rounds(g, dst, src, m + 1)
    <3> HIDE DEF g
    <3> QED BY <2>5, Zenon DEF Rounds, b
  <2> QED BY <2>6
<1>3. Nat \subseteq S
  <2> HIDE DEF S
  <2> QED BY <1>1, <1>2, Induction
<1> QED BY <1>3

\* The profile after k rounds, if all went well: it has the pages of the
\* first k entries more.
First(src, k) == [j \in 1..k |-> src.entries[j].page_count]
Merged(dst, src, k, r) ==
    /\ DOMAIN r = {"rc", "p"}
    /\ r.p \in Profile /\ Len(r.p.entries) <= BANK_PROFILE_MAX_ENTRIES /\ Regular(r.p)
    /\ r.rc = "OK" =>
         /\ Total(Counts(r.p)) = Total(Counts(dst)) + Total(First(src, k))
         /\ r.p.pages_sampled = dst.pages_sampled /\ r.p.pages_translated = dst.pages_translated
         /\ r.p.skipped = dst.skipped
         /\ k > 0 \/ dst.entries # <<>> => r.p.entries # <<>>

Fits(p) == p \in Profile /\ Len(p.entries) <= BANK_PROFILE_MAX_ENTRIES /\ Regular(p)

\* The first counts, one by one.
LEMMA FirstTotals ==
  ASSUME NEW src \in Profile, NEW k \in Nat, k + 1 <= Len(src.entries)
  PROVE  Total(First(src, k + 1)) = Total(First(src, k)) + src.entries[k + 1].page_count
         /\ Total(First(src, k)) \in Nat
<1> DEFINE f == First(src, k)
           g == First(src, k + 1)
           m == k + 1
<1>1. m \in DOMAIN src.entries /\ \A j \in DOMAIN src.entries : src.entries[j].page_count \in Nat
  BY EntriesAre
<1>2. 1..k \subseteq DOMAIN src.entries
  BY EntriesAre
<1>3. /\ DOMAIN f = 1..k /\ DOMAIN g = DOMAIN f \cup {m} /\ m \notin DOMAIN f
      /\ g[m] = src.entries[m].page_count
      /\ (\A j \in DOMAIN f : g[j] = f[j]) /\ \A j \in 1..k : f[j] = src.entries[j].page_count
  <2>1. 1..(k + 1) = (1..k) \cup {m} /\ m \notin 1..k
    OBVIOUS
  <2> QED BY <2>1 DEF First
<1>4. Column(f, DOMAIN f)
  <2>1. 1 \in Int /\ k \in Int
    OBVIOUS
  <2>2. IsFiniteSet(1..k)
    BY <2>1, FS_Interval
  <2> QED BY <1>1, <1>2, <1>3, <2>2 DEF Column
<1>5. g[m] \in Nat
  BY <1>1, <1>3
<1> HIDE DEF f, g, m
<1>6. Total(g) = Total(f) + g[m] /\ Total(f) \in Nat
  BY <1>3, <1>4, <1>5, TotalMore
<1> QED BY <1>3, <1>6 DEF f, g, m

\* One round.
LEMMA RoundMerges ==
  ASSUME NEW dst \in Profile, NEW src \in Profile, Regular(src), NEW k \in Nat, k + 1 <= Len(src.entries),
         NEW r, Merged(dst, src, k, r)
  PROVE  Merged(dst, src, k + 1, Round(src, k + 1, r))
<1>1. CASE r.rc # "OK"
  BY <1>1 DEF Merged, Round
<1>2. CASE r.rc = "OK"
  <2> DEFINE class == src.entries[k + 1].bank_class
             count == src.entries[k + 1].page_count
             a == profile_add_bank_class_count(r.p, class, count)
  <2>1. Round(src, k + 1, r) = a
    BY <1>2 DEF Round
  <2>2. class \in {class_of[f] : f \in Nat} /\ count \in Nat /\ count > 0
    <3>1. k + 1 \in DOMAIN src.entries
      BY EntriesAre
    <3>2. src.entries[k + 1] \in Entry /\ count \in Nat
      BY <3>1, EntriesAre
    <3>3. count > 0
      BY <3>1 DEF Regular
    <3> QED BY <3>2, <3>3 DEF Entry
  <2>3. r.p \in Profile /\ Len(r.p.entries) <= BANK_PROFILE_MAX_ENTRIES /\ Regular(r.p)
    BY DEF Merged
  <2> HIDE DEF class, count, a
  <2>4. a.p \in Profile /\ Len(a.p.entries) <= BANK_PROFILE_MAX_ENTRIES
    BY <2>2, <2>3, AddKeeps DEF a
  <2>5. DOMAIN a = {"rc", "p"} /\ Regular(a.p) /\ (a.rc = "OK" => Adds(r.p, count, a.p))
    BY <2>2, <2>3, AddIs DEF a
  <2>6. Total(First(src, k + 1)) = Total(First(src, k)) + count /\ Total(First(src, k)) \in Nat
    BY FirstTotals DEF count
  <2>7. Total(Counts(dst)) \in Nat
    BY CountsAre
  <2>8. Total(Counts(r.p)) = Total(Counts(dst)) + Total(First(src, k))
        /\ r.p.pages_sampled = dst.pages_sampled /\ r.p.pages_translated = dst.pages_translated
        /\ r.p.skipped = dst.skipped
    BY <1>2 DEF Merged
  <2>9. a.rc = "OK" =>
          /\ Total(Counts(a.p)) = Total(Counts(dst)) + Total(First(src, k + 1))
          /\ a.p.pages_sampled = dst.pages_sampled /\ a.p.pages_translated = dst.pages_translated
          /\ a.p.skipped = dst.skipped /\ a.p.entries # <<>>
    BY <2>2, <2>5, <2>6, <2>7, <2>8 DEF Adds
  <2> QED BY <2>1, <2>4, <2>5, <2>9 DEF Merged
<1> QED BY <1>1, <1>2

\* All rounds.
LEMMA RoundsMerge ==
  ASSUME NEW dst, Fits(dst), NEW src \in Profile, Regular(src), NEW n, n = Len(src.entries), NEW f, Rounds(f, dst, src, n)
  PROVE  Merged(dst, src, n, f[n])
<1>1. n \in Nat /\ dst \in Profile
  BY EntriesAre DEF Fits
<1>2. f[0] = [rc |-> "OK", p |-> dst]
  BY <1>1 DEF Rounds
<1>3. \A k \in Nat : k + 1 <= n => f[k + 1] = Round(src, k + 1, f[k])
  <2> SUFFICES ASSUME NEW k \in Nat, k + 1 <= n PROVE f[k + 1] = Round(src, k + 1, f[k])
    OBVIOUS
  <2>1. k + 1 \in 0..n /\ k + 1 # 0 /\ (k + 1) - 1 = k
    BY <1>1
  <2>2. f[k + 1] = Round(src, k + 1, f[(k + 1) - 1])
    BY <2>1, Zenon DEF Rounds
  <2> QED BY <2>1, <2>2
<1> DEFINE S == {k \in Nat : k <= n => Merged(dst, src, k, f[k])}
<1>4. 0 \in S
  <2>1. Total(First(src, 0)) = 0
    <3>1. DOMAIN First(src, 0) = {}
      BY DEF First
    <3> QED BY <3>1, TotalNone
  <2>2. Total(Counts(dst)) \in Nat
    BY <1>1, CountsAre
  <2>3. f[0].p = dst /\ DOMAIN f[0] = {"rc", "p"}
    BY <1>2
  <2>4. Merged(dst, src, 0, f[0])
    BY <2>1, <2>2, <2>3 DEF Merged, Fits
  <2> QED BY <2>4
<1>5. ASSUME NEW k \in Nat, k \in S PROVE k + 1 \in S
  <2> SUFFICES ASSUME k + 1 <= n PROVE Merged(dst, src, k + 1, f[k + 1])
    OBVIOUS
  <2>1. Merged(dst, src, k, f[k])
    BY <1>1, <1>5
  <2>2. Merged(dst, src, k + 1, Round(src, k + 1, f[k]))
    BY <1>1, <2>1, RoundMerges
  <2> QED BY <1>3, <2>2
<1>6. Nat \subseteq S
  <2> HIDE DEF S
  <2> QED BY <1>4, <1>5, Induction
<1> QED BY <1>1, <1>6

\* p accounts for every page it has.
Accounts(p) == Fits(p) /\ PagesAdd(p)

\* bank_profile_merge accounts for the pages of both, or fails.
LEMMA MergeIs ==
  ASSUME NEW dst, Accounts(dst), NEW src, Accounts(src), src.entries # <<>>,
         NEW r, r = bank_profile_merge(dst, src), r.rc = "OK"
  PROVE  Accounts(r.p) /\ r.p.entries # <<>>
<1> DEFINE n == Len(src.entries)
           after == CHOOSE f : Rounds(f, dst, src, n)
           all == after[n]
<1>1. /\ dst \in Profile /\ src \in Profile /\ Regular(src) /\ n \in Nat /\ Fits(dst)
      /\ DOMAIN src.entries = 1..n
  BY EntriesAre DEF Accounts, Fits
<1>2. Rounds(after, dst, src, n)
  <2>1. \E f : Rounds(f, dst, src, n)
    BY <1>1, RoundsExist
  <2> QED BY <2>1, Zenon
<1>3. r = IF all.rc # "OK" \/ src.entries = <<>> THEN all
          ELSE [all EXCEPT !.p = bank_profile_merge_counters(@, src)]
  BY Zenon DEF bank_profile_merge, Rounds, Round
<1> HIDE DEF after
<1>4. Merged(dst, src, n, all)
  <2> HIDE DEF n
  <2> QED BY <1>1, <1>2, RoundsMerge DEF n
<1> DEFINE p == all.p
<1>5. all.rc = "OK"
  BY <1>3
<1> HIDE DEF all
<1>6. r = [all EXCEPT !.p = bank_profile_merge_counters(p, src)]
  BY <1>3, <1>5
<1>7. r.p = bank_profile_merge_counters(p, src)
  <2>1. "p" \in DOMAIN all
    BY <1>4 DEF Merged
  <2> QED BY <1>6, <2>1
<1>8. /\ p \in Profile /\ Len(p.entries) <= BANK_PROFILE_MAX_ENTRIES /\ Regular(p)
      /\ Total(Counts(p)) = Total(Counts(dst)) + Total(First(src, n))
      /\ p.pages_sampled = dst.pages_sampled /\ p.pages_translated = dst.pages_translated
      /\ p.skipped = dst.skipped /\ p.entries # <<>>
  <2>1. n > 0
    BY <1>1, EmptyIsSeq
  <2> QED BY <1>4, <1>5, <2>1 DEF Merged
<1>9. First(src, n) = Counts(src)
  BY <1>1 DEF First, Counts
<1> HIDE DEF p, n
<1> DEFINE sk == [x \in Skips |-> p.skipped[x] + src.skipped[x]]
           p1 == [p EXCEPT !.pages_sampled = @ + src.pages_sampled]
           p2 == [p1 EXCEPT !.pages_translated = p.pages_translated + src.pages_translated]
           q == r.p
<1>10. q = [p2 EXCEPT !.skipped = sk]
  BY <1>7 DEF bank_profile_merge_counters
<1>11. /\ src.pages_sampled \in Nat /\ src.pages_translated \in Nat /\ src.skipped \in [Skips -> Nat]
       /\ p.pages_sampled \in Nat /\ p.pages_translated \in Nat /\ p.skipped \in [Skips -> Nat]
  BY <1>1, <1>8 DEF Profile
<1>12. sk \in [Skips -> Nat] /\ \A x \in Skips : sk[x] = p.skipped[x] + src.skipped[x]
  BY <1>11
<1> HIDE DEF sk, q
<1>13. /\ q \in Profile /\ q.entries = p.entries /\ q.skipped = sk
       /\ q.pages_sampled = p.pages_sampled + src.pages_sampled
       /\ q.pages_translated = p.pages_translated + src.pages_translated
  <2>1. /\ p1 \in Profile /\ p1.entries = p.entries /\ p1.pages_sampled = p.pages_sampled + src.pages_sampled
    BY <1>8, <1>11 DEF Profile
  <2> HIDE DEF p1
  <2>2. /\ p2 \in Profile /\ p2.entries = p.entries /\ p2.pages_sampled = p.pages_sampled + src.pages_sampled
        /\ p2.pages_translated = p.pages_translated + src.pages_translated
    <3> DEFINE t == p.pages_translated + src.pages_translated
    <3>1. t \in Nat /\ p2 = [p1 EXCEPT !.pages_translated = t]
      BY <1>11
    <3> HIDE DEF t, p2
    <3>2. p2 \in Profile /\ p2.entries = p1.entries /\ p2.pages_sampled = p1.pages_sampled /\ p2.pages_translated = t
      BY <2>1, <3>1 DEF Profile
    <3> QED BY <2>1, <3>2 DEF t
  <2> HIDE DEF p2
  <2> QED BY <1>10, <1>12, <2>2 DEF Profile
<1>14. Fits(q)
  BY <1>8, <1>13 DEF Fits, Regular
<1>15. Total(Counts(q)) = Total(Counts(dst)) + Total(Counts(src)) /\ Total(Counts(dst)) \in Nat /\ Total(Counts(src)) \in Nat
  <2>1. Counts(q) = Counts(p)
    BY <1>13 DEF Counts
  <2> QED BY <1>1, <1>8, <1>9, <2>1, CountsAre
<1>16. PagesAdd(q)
  <2>1. /\ dst.pages_sampled = dst.pages_translated + dst.skipped["not_present"] + dst.skipped["swapped"]
                               + dst.skipped["pfn_unavailable"] + dst.skipped["translation_error"]
        /\ dst.pages_translated = Total(Counts(dst))
    BY DEF Accounts, PagesAdd, Counts
  <2>2. /\ src.pages_sampled = src.pages_translated + src.skipped["not_present"] + src.skipped["swapped"]
                               + src.skipped["pfn_unavailable"] + src.skipped["translation_error"]
        /\ src.pages_translated = Total(Counts(src))
    BY DEF Accounts, PagesAdd, Counts
  <2>3. /\ q.skipped["not_present"] = dst.skipped["not_present"] + src.skipped["not_present"]
        /\ q.skipped["swapped"] = dst.skipped["swapped"] + src.skipped["swapped"]
        /\ q.skipped["pfn_unavailable"] = dst.skipped["pfn_unavailable"] + src.skipped["pfn_unavailable"]
        /\ q.skipped["translation_error"] = dst.skipped["translation_error"] + src.skipped["translation_error"]
    BY <1>8, <1>12, <1>13 DEF Skips
  <2>4. /\ dst.skipped["not_present"] \in Nat /\ dst.skipped["swapped"] \in Nat
        /\ dst.skipped["pfn_unavailable"] \in Nat /\ dst.skipped["translation_error"] \in Nat
        /\ src.skipped["not_present"] \in Nat /\ src.skipped["swapped"] \in Nat
        /\ src.skipped["pfn_unavailable"] \in Nat /\ src.skipped["translation_error"] \in Nat
    BY <1>8, <1>11 DEF Skips
  <2>5. q.pages_translated = Total(Counts(q))
    BY <1>8, <1>13, <1>15, <2>1, <2>2
  <2>6. q.pages_sampled = q.pages_translated + q.skipped["not_present"] + q.skipped["swapped"]
                          + q.skipped["pfn_unavailable"] + q.skipped["translation_error"]
    <3>1. q.pages_sampled = dst.pages_sampled + src.pages_sampled
          /\ q.pages_translated = dst.pages_translated + src.pages_translated
      BY <1>8, <1>13
    <3>2. dst.pages_translated \in Nat /\ src.pages_translated \in Nat
      BY <1>8, <1>11
    <3> DEFINE a0 == dst.pages_translated
               a1 == dst.skipped["not_present"]
               a2 == dst.skipped["swapped"]
               a3 == dst.skipped["pfn_unavailable"]
               a4 == dst.skipped["translation_error"]
               b0 == src.pages_translated
               b1 == src.skipped["not_present"]
               b2 == src.skipped["swapped"]
               b3 == src.skipped["pfn_unavailable"]
               b4 == src.skipped["translation_error"]
    <3>3. /\ a0 \in Nat /\ a1 \in Nat /\ a2 \in Nat /\ a3 \in Nat /\ a4 \in Nat
          /\ b0 \in Nat /\ b1 \in Nat /\ b2 \in Nat /\ b3 \in Nat /\ b4 \in Nat
      BY <2>4, <3>2
    <3>4. /\ dst.pages_sampled = a0 + a1 + a2 + a3 + a4 /\ src.pages_sampled = b0 + b1 + b2 + b3 + b4
          /\ q.pages_sampled = dst.pages_sampled + src.pages_sampled /\ q.pages_translated = a0 + b0
          /\ q.skipped["not_present"] = a1 + b1 /\ q.skipped["swapped"] = a2 + b2
          /\ q.skipped["pfn_unavailable"] = a3 + b3 /\ q.skipped["translation_error"] = a4 + b4
      BY <2>1, <2>2, <2>3, <3>1, Zenon
    <3> HIDE DEF a0, a1, a2, a3, a4, b0, b1, b2, b3, b4
    <3>5. (a0 + a1 + a2 + a3 + a4) + (b0 + b1 + b2 + b3 + b4)
          = (a0 + b0) + (a1 + b1) + (a2 + b2) + (a3 + b3) + (a4 + b4)
      BY <3>3
    <3> QED BY <3>4, <3>5, Zenon
  <2> QED BY <2>5, <2>6 DEF PagesAdd, Counts
<1> QED BY <1>8, <1>13, <1>14, <1>16 DEF Accounts, q

\* A fresh profile accounts for the pages it has.
LEMMA ResetAccounts == Accounts(bank_profile_reset)
<1> DEFINE p == bank_profile_reset
<1>1. p \in Profile /\ Len(p.entries) <= BANK_PROFILE_MAX_ENTRIES /\ p.entries = <<>>
  BY ResetProfile DEF bank_profile_reset
<1>2. DOMAIN p.entries = {}
  BY <1>1
<1>3. Total(Counts(p)) = 0
  BY <1>2, TotalNone DEF Counts
<1>4. p.pages_sampled = 0 /\ p.pages_translated = 0 /\ \A x \in Skips : p.skipped[x] = 0
  BY DEF bank_profile_reset
<1> HIDE DEF p
<1>5. PagesAdd(p)
  BY <1>3, <1>4 DEF PagesAdd, Counts, Skips
<1>6. Regular(p)
  BY <1>2 DEF Regular
<1> QED BY <1>1, <1>5, <1>6 DEF Accounts, Fits, p

\* One page is sampled and translated.
LEMMA SampledAccounts ==
  ASSUME NEW p, Accounts(p), NEW class \in {class_of[f] : f \in Nat},
         NEW q, q = [p EXCEPT !.pages_sampled = @ + 1, !.pages_translated = @ + 1],
         NEW r, r = profile_add_bank_class_count(q, class, 1)
  PROVE  Fits(r.p) /\ (r.rc = "OK" => PagesAdd(r.p))
<1>1. p \in Profile /\ Len(p.entries) <= BANK_PROFILE_MAX_ENTRIES /\ Regular(p) /\ PagesAdd(p)
  BY DEF Accounts, Fits
<1>2. /\ q \in Profile /\ q.entries = p.entries /\ q.skipped = p.skipped
      /\ q.pages_sampled = p.pages_sampled + 1 /\ q.pages_translated = p.pages_translated + 1
  <2> DEFINE p1 == [p EXCEPT !.pages_sampled = @ + 1]
  <2>1. /\ p1 \in Profile /\ p1.entries = p.entries /\ p1.skipped = p.skipped
        /\ p1.pages_sampled = p.pages_sampled + 1 /\ p1.pages_translated = p.pages_translated
    BY <1>1 DEF Profile
  <2>2. q = [p1 EXCEPT !.pages_translated = @ + 1]
    BY <1>1 DEF Profile
  <2> HIDE DEF p1
  <2> QED BY <2>1, <2>2 DEF Profile
<1>3. Regular(q) /\ Counts(q) = Counts(p)
  BY <1>1, <1>2 DEF Regular, Counts
<1>4. r.p \in Profile /\ Len(r.p.entries) <= BANK_PROFILE_MAX_ENTRIES
  BY <1>1, <1>2, AddKeeps
<1>5. Regular(r.p) /\ (r.rc = "OK" => Adds(q, 1, r.p))
  BY <1>2, <1>3, AddIs
<1>6. ASSUME r.rc = "OK" PROVE PagesAdd(r.p)
  <2>1. /\ Total(Counts(r.p)) = Total(Counts(p)) + 1
        /\ r.p.pages_sampled = q.pages_sampled /\ r.p.pages_translated = q.pages_translated /\ r.p.skipped = q.skipped
    BY <1>3, <1>5, <1>6 DEF Adds
  <2>2. /\ p.pages_sampled = p.pages_translated + p.skipped["not_present"] + p.skipped["swapped"]
                               + p.skipped["pfn_unavailable"] + p.skipped["translation_error"]
        /\ p.pages_translated = Total(Counts(p))
    BY <1>1 DEF PagesAdd, Counts
  <2>3. p.pages_sampled \in Nat /\ p.pages_translated \in Nat /\ \A x \in Skips : p.skipped[x] \in Nat
    BY <1>1 DEF Profile
  <2>4. r.p.pages_sampled = r.p.pages_translated + r.p.skipped["not_present"] + r.p.skipped["swapped"]
                          + r.p.skipped["pfn_unavailable"] + r.p.skipped["translation_error"]
    BY <1>2, <2>1, <2>2, <2>3 DEF Skips
  <2>5. r.p.pages_translated = Total(Counts(r.p))
    BY <1>2, <2>1, <2>2
  <2> QED BY <2>4, <2>5 DEF PagesAdd, Counts
<1> QED BY <1>4, <1>5, <1>6 DEF Fits

\* One page is sampled and skipped.
LEMMA SkippedAccounts ==
  ASSUME NEW p, Accounts(p), NEW code, NEW q, q = [p EXCEPT !.pages_sampled = @ + 1]
  PROVE  Accounts(count_translation_skip(q, code))
<1> DEFINE kind == IF code = "NOT_PRESENT" THEN "not_present"
                   ELSE IF code = "SWAPPED" THEN "swapped"
                   ELSE IF code = "PFN_UNAVAILABLE" THEN "pfn_unavailable"
                   ELSE "translation_error"
           sk == [q.skipped EXCEPT ![kind] = @ + 1]
           r == count_translation_skip(q, code)
<1>1. p \in Profile /\ Len(p.entries) <= BANK_PROFILE_MAX_ENTRIES /\ Regular(p) /\ PagesAdd(p)
  BY DEF Accounts, Fits
<1>2. /\ q \in Profile /\ q.entries = p.entries /\ q.skipped = p.skipped
      /\ q.pages_sampled = p.pages_sampled + 1 /\ q.pages_translated = p.pages_translated
  BY <1>1 DEF Profile
<1>3. kind \in Skips
  BY DEF Skips
<1>4. r = [q EXCEPT !.skipped = sk]
  BY DEF count_translation_skip
<1> HIDE DEF kind, r
<1>5. q.skipped \in [Skips -> Nat]
  BY <1>2 DEF Profile
<1>6. sk \in [Skips -> Nat] /\ sk[kind] = p.skipped[kind] + 1 /\ \A x \in Skips : x # kind => sk[x] = p.skipped[x]
  BY <1>2, <1>3, <1>5
<1> HIDE DEF sk
<1>7. /\ r \in Profile /\ r.entries = p.entries /\ r.skipped = sk /\ r.pages_sampled = p.pages_sampled + 1
      /\ r.pages_translated = p.pages_translated
  BY <1>2, <1>4, <1>6 DEF Profile
<1>8. Fits(r) /\ Counts(r) = Counts(p)
  BY <1>1, <1>7 DEF Fits, Regular, Counts
<1>9. PagesAdd(r)
  <2>1. /\ p.pages_sampled = p.pages_translated + p.skipped["not_present"] + p.skipped["swapped"]
                               + p.skipped["pfn_unavailable"] + p.skipped["translation_error"]
        /\ p.pages_translated = Total(Counts(p))
    BY <1>1 DEF PagesAdd, Counts
  <2>2. p.pages_sampled \in Nat /\ p.pages_translated \in Nat /\ \A x \in Skips : p.skipped[x] \in Nat
    BY <1>1 DEF Profile
  <2>3. sk["not_present"] + sk["swapped"] + sk["pfn_unavailable"] + sk["translation_error"] =
        p.skipped["not_present"] + p.skipped["swapped"] + p.skipped["pfn_unavailable"]
        + p.skipped["translation_error"] + 1
    BY <1>3, <1>6, <2>2 DEF Skips
  <2>4. /\ sk["not_present"] \in Nat /\ sk["swapped"] \in Nat
        /\ sk["pfn_unavailable"] \in Nat /\ sk["translation_error"] \in Nat
        /\ p.skipped["not_present"] \in Nat /\ p.skipped["swapped"] \in Nat
        /\ p.skipped["pfn_unavailable"] \in Nat /\ p.skipped["translation_error"] \in Nat
    BY <1>6, <2>2 DEF Skips
  <2>5. r.pages_sampled = r.pages_translated + r.skipped["not_present"] + r.skipped["swapped"]
                          + r.skipped["pfn_unavailable"] + r.skipped["translation_error"]
    BY <1>7, <2>1, <2>2, <2>3, <2>4
  <2>6. r.pages_translated = Total(Counts(r))
    BY <1>7, <1>8, <2>1
  <2> QED BY <2>5, <2>6 DEF PagesAdd, Counts
<1> QED BY <1>8, <1>9 DEF Accounts, r

-----------------------------------------------------------------------------
(* The overlap.                                                            *)

\* A sum is the number of cells in columns with names of their own.
LEMMA TotalNamed ==
  ASSUME NEW f, NEW name, NEW D, DOMAIN f = D, Column(f, D), \A k, l \in D : name[k] = name[l] => k = l
  PROVE  Total(f) = Cardinality(Cells(f, name, D)) /\ IsFiniteSet(Cells(f, name, D)) /\ Total(f) \in Nat
<1>1. Total(f) = Cardinality(Cells(f, Same(D), D)) /\ Total(f) \in Nat
  BY TotalIs
<1>2. Cardinality(Cells(f, name, D)) = Cardinality(Cells(f, Same(D), D))
  BY CellsRenamed
<1>3. IsFiniteSet(Cells(f, name, D))
  BY CellsFinite
<1> QED BY <1>1, <1>2, <1>3

\* How many pages of its class an entry has.
LEMMA ClassCount ==
  ASSUME NEW p \in Profile, Regular(p), NEW k \in DOMAIN p.entries
  PROVE  /\ EntriesOf(p, p.entries[k].bank_class) = {k}
         /\ bank_profile_count_for_class(p, p.entries[k].bank_class) = p.entries[k].page_count
         /\ Total([j \in EntriesOf(p, p.entries[k].bank_class) |-> p.entries[j].page_count]) = p.entries[k].page_count
<1> DEFINE c == p.entries[k].bank_class
           E == EntriesOf(p, c)
           f == [j \in E |-> p.entries[j].page_count]
<1>1. k \in E
  BY EntriesAre DEF EntriesOf
<1>2. E = {Min(E)}
  <2> HIDE DEF c
  <2> QED BY <1>1, OneEntry
<1>3. E = {k} /\ Min(E) = k
  <2> HIDE DEF E
  <2> QED BY <1>1, <1>2
<1>4. bank_profile_count_for_class(p, c) = p.entries[k].page_count
  <2> HIDE DEF c
  <2> QED BY <1>3 DEF bank_profile_count_for_class
<1>5. Total(f) = p.entries[k].page_count
  <2>1. DOMAIN f = {k} /\ f[k] = p.entries[k].page_count /\ f[k] \in Nat
    <3> HIDE DEF E
    <3> QED BY <1>3, EntriesAre
  <2> HIDE DEF f
  <2> QED BY <2>1, TotalOne
<1> QED BY <1>3, <1>4, <1>5

\* A count is that of an entry, or zero.
LEMMA CountIs ==
  ASSUME NEW p \in Profile, Regular(p), NEW c
  PROVE  /\ bank_profile_count_for_class(p, c) \in Nat
         /\ bank_profile_count_for_class(p, c) > 0 =>
              \E l \in DOMAIN p.entries :
                p.entries[l].bank_class = c /\ bank_profile_count_for_class(p, c) = p.entries[l].page_count
<1>1. CASE EntriesOf(p, c) = {}
  BY <1>1 DEF bank_profile_count_for_class
<1>2. CASE EntriesOf(p, c) # {}
  <2>1. PICK l : l \in EntriesOf(p, c)
    BY <1>2
  <2>2. l \in DOMAIN p.entries /\ p.entries[l].bank_class = c
    BY <2>1, EntriesAre DEF EntriesOf
  <2>3. bank_profile_count_for_class(p, c) = p.entries[l].page_count
    BY <2>2, ClassCount
  <2>4. p.entries[l].page_count \in Nat
    BY <2>2, EntriesAre
  <2> QED BY <2>2, <2>3, <2>4
<1> QED BY <1>1, <1>2

\* The pages of a profile.
LEMMA PagesAre ==
  ASSUME NEW p \in Profile, Regular(p), NEW z
  PROVE  z \in Pages(p) <=> \E k \in DOMAIN p.entries : \E i \in 1..p.entries[k].page_count :
                              z = <<p.entries[k].bank_class, i>>
<1> DEFINE count(c) == Total([k \in EntriesOf(p, c) |-> p.entries[k].page_count])
           cls(k) == p.entries[k].bank_class
<1>1. \A k \in DOMAIN p.entries : count(cls(k)) = p.entries[k].page_count
  BY ClassCount
<1>2. Pages(p) = UNION {{c} \X (1..count(c)) : c \in {cls(k) : k \in DOMAIN p.entries}}
  BY DEF Pages
<1> HIDE DEF count
<1>3. z \in Pages(p) <=> \E k \in DOMAIN p.entries : z \in {cls(k)} \X (1..count(cls(k)))
  BY <1>2
<1>4. \A k \in DOMAIN p.entries : z \in {cls(k)} \X (1..count(cls(k))) <=>
        \E i \in 1..p.entries[k].page_count : z = <<cls(k), i>>
  BY <1>1
<1> QED BY <1>3, <1>4

\* The classes of a profile tell its entries apart.
LEMMA ClassesDiffer ==
  ASSUME NEW p, Regular(p)
  PROVE  \A k, l \in DOMAIN p.entries : Classes(p)[k] = Classes(p)[l] => k = l
BY DEF Regular, Classes

\* A cell of columns named by classes.
LEMMA ClassCell ==
  ASSUME NEW p, NEW f, NEW D, D \subseteq DOMAIN p.entries, NEW z
  PROVE  z \in Cells(f, Classes(p), D) <=> \E k \in D : \E i \in 1..f[k] : z = <<p.entries[k].bank_class, i>>
<1>1. z \in Cells(f, Classes(p), D) <=> \E k \in D : \E i \in 1..f[k] : z = <<Classes(p)[k], i>>
  BY CellIs
<1>2. \A k \in D : Classes(p)[k] = p.entries[k].bank_class
  BY DEF Classes
<1> QED BY <1>1, <1>2

Pair(a, b) == a \in Profile /\ Regular(a) /\ b \in Profile /\ Regular(b)

\* What b has of the class of a's entry.
Other(a, b, k) == bank_profile_count_for_class(b, a.entries[k].bank_class)
LessOf(a, b) == [k \in DOMAIN a.entries |-> Smaller(a.entries[k].page_count, Other(a, b, k))]
MoreOf(a, b) == [k \in DOMAIN a.entries |-> Larger(a.entries[k].page_count, Other(a, b, k))]
OnlyOf(a, b) == {k \in DOMAIN b.entries : EntriesOf(a, b.entries[k].bank_class) = {}}
RestOf(a, b) == [k \in OnlyOf(a, b) |-> b.entries[k].page_count]

\* The three sums of bank_profile_overlap_score.
LEMMA OverlapSums ==
  ASSUME NEW a, NEW b
  PROVE  bank_profile_overlap_score(a, b) =
           [common |-> Total(LessOf(a, b)), union |-> Total(MoreOf(a, b)) + Total(RestOf(a, b))]
BY DEF bank_profile_overlap_score, LessOf, MoreOf, OnlyOf, RestOf, Other

\* Two entries of one class.
LEMMA SameClass ==
  ASSUME NEW a, NEW b, Pair(a, b), NEW k \in DOMAIN a.entries, NEW l \in DOMAIN b.entries,
         a.entries[k].bank_class = b.entries[l].bank_class
  PROVE  Other(a, b, k) = b.entries[l].page_count
<1>1. b \in Profile /\ Regular(b)
  BY DEF Pair
<1>2. bank_profile_count_for_class(b, b.entries[l].bank_class) = b.entries[l].page_count
  BY <1>1, ClassCount
<1> QED BY <1>2, Zenon DEF Other

\* Numbers of an entry and of the other profile.
LEMMA OtherIs ==
  ASSUME NEW a, NEW b, Pair(a, b), NEW k \in DOMAIN a.entries
  PROVE  /\ a.entries[k].page_count \in Nat /\ Other(a, b, k) \in Nat
         /\ Other(a, b, k) > 0 => \E l \in DOMAIN b.entries :
              a.entries[k].bank_class = b.entries[l].bank_class /\ Other(a, b, k) = b.entries[l].page_count
<1>1. a \in Profile /\ b \in Profile /\ Regular(b)
  BY DEF Pair
<1> DEFINE c == a.entries[k].bank_class
           n == bank_profile_count_for_class(b, c)
<1>2. n \in Nat /\ (n > 0 => \E l \in DOMAIN b.entries : b.entries[l].bank_class = c /\ n = b.entries[l].page_count)
  <2> HIDE DEF c
  <2> QED BY <1>1, CountIs
<1>3. Other(a, b, k) = n
  BY DEF Other
<1>4. a.entries[k].page_count \in Nat
  BY <1>1, EntriesAre
<1> HIDE DEF n
<1> QED BY <1>2, <1>3, <1>4

\* The first sum counts the common pages.
LEMMA CommonIs ==
  ASSUME NEW a, NEW b, Pair(a, b)
  PROVE  Total(LessOf(a, b)) = Cardinality(Pages(a) \cap Pages(b))
<1> DEFINE f == LessOf(a, b)
           D == DOMAIN a.entries
           X == Cells(f, Classes(a), D)
<1>1. a \in Profile /\ Regular(a) /\ b \in Profile /\ Regular(b) /\ IsFiniteSet(D)
  BY EntriesAre DEF Pair
<1>2. DOMAIN f = D /\ \A k \in D : f[k] = Smaller(a.entries[k].page_count, Other(a, b, k))
  BY DEF LessOf
<1>3. \A k \in D : a.entries[k].page_count \in Nat /\ Other(a, b, k) \in Nat
  BY OtherIs
<1>4. \A k \in D : f[k] \in Nat /\ f[k] <= a.entries[k].page_count /\ f[k] <= Other(a, b, k)
                   /\ (f[k] = a.entries[k].page_count \/ f[k] = Other(a, b, k))
  BY <1>2, <1>3 DEF Smaller
<1> HIDE DEF f
<1>5. Total(f) = Cardinality(X)
  <2>1. Column(f, D)
    BY <1>1, <1>4 DEF Column
  <2>2. \A k, l \in D : Classes(a)[k] = Classes(a)[l] => k = l
    BY <1>1, ClassesDiffer
  <2> HIDE DEF D
  <2> QED BY <1>2, <2>1, <2>2, TotalNamed
<1>6. ASSUME NEW z \in X PROVE z \in Pages(a) /\ z \in Pages(b)
  <2>1. PICK k \in D : \E i \in 1..f[k] : z = <<a.entries[k].bank_class, i>>
    BY <1>6, ClassCell
  <2>2. PICK i \in 1..f[k] : z = <<a.entries[k].bank_class, i>>
    BY <2>1
  <2>3. i \in 1..a.entries[k].page_count /\ i \in 1..Other(a, b, k) /\ Other(a, b, k) > 0
    BY <1>3, <1>4
  <2>4. PICK l \in DOMAIN b.entries :
          a.entries[k].bank_class = b.entries[l].bank_class /\ Other(a, b, k) = b.entries[l].page_count
    BY <2>3, OtherIs
  <2>5. z \in Pages(a)
    BY <1>1, <2>2, <2>3, PagesAre
  <2>6. i \in 1..b.entries[l].page_count /\ z = <<b.entries[l].bank_class, i>>
    BY <2>2, <2>3, <2>4
  <2>7. z \in Pages(b)
    BY <1>1, <2>6, PagesAre
  <2> QED BY <2>5, <2>7
<1>7. ASSUME NEW z, z \in Pages(a), z \in Pages(b) PROVE z \in X
  <2>1. PICK k \in D : \E i \in 1..a.entries[k].page_count : z = <<a.entries[k].bank_class, i>>
    BY <1>1, <1>7, PagesAre
  <2>2. PICK i \in 1..a.entries[k].page_count : z = <<a.entries[k].bank_class, i>>
    BY <2>1
  <2>3. PICK l \in DOMAIN b.entries : \E j \in 1..b.entries[l].page_count : z = <<b.entries[l].bank_class, j>>
    BY <1>1, <1>7, PagesAre
  <2>4. PICK j \in 1..b.entries[l].page_count : z = <<b.entries[l].bank_class, j>>
    BY <2>3
  <2>5. i = j /\ a.entries[k].bank_class = b.entries[l].bank_class
    BY <2>2, <2>4
  <2>6. Other(a, b, k) = b.entries[l].page_count
    BY <2>5, SameClass
  <2>7. i \in 1..f[k]
    BY <1>3, <1>4, <2>5, <2>6
  <2> QED BY <2>2, <2>7, ClassCell
<1>8. X = Pages(a) \cap Pages(b)
  <2> HIDE DEF X
  <2> QED BY <1>6, <1>7
<1> QED BY <1>5, <1>8 DEF f

\* The other two count the union.
LEMMA UnionIs ==
  ASSUME NEW a, NEW b, Pair(a, b)
  PROVE  Total(MoreOf(a, b)) + Total(RestOf(a, b)) = Cardinality(Pages(a) \cup Pages(b))
         /\ IsFiniteSet(Pages(a) \cup Pages(b))
<1> DEFINE g == MoreOf(a, b)
           h == RestOf(a, b)
           D == DOMAIN a.entries
           O == OnlyOf(a, b)
           X == Cells(g, Classes(a), D)
           Y == Cells(h, Classes(b), O)
<1>1. a \in Profile /\ Regular(a) /\ b \in Profile /\ Regular(b) /\ IsFiniteSet(D) /\ IsFiniteSet(DOMAIN b.entries)
  BY EntriesAre DEF Pair
<1>2. DOMAIN g = D /\ \A k \in D : g[k] = Larger(a.entries[k].page_count, Other(a, b, k))
  BY DEF MoreOf
<1>3. \A k \in D : a.entries[k].page_count \in Nat /\ Other(a, b, k) \in Nat
  BY OtherIs
<1>4. \A k \in D : g[k] \in Nat /\ g[k] >= a.entries[k].page_count /\ g[k] >= Other(a, b, k)
                   /\ (g[k] = a.entries[k].page_count \/ g[k] = Other(a, b, k))
  BY <1>2, <1>3 DEF Larger
<1>5. DOMAIN h = O /\ \A l \in O : h[l] = b.entries[l].page_count
  BY DEF RestOf
<1>6. O \subseteq DOMAIN b.entries /\ \A l \in O : EntriesOf(a, b.entries[l].bank_class) = {}
  BY DEF OnlyOf
<1>7. IsFiniteSet(O) /\ \A l \in DOMAIN b.entries : b.entries[l].page_count \in Nat
  BY <1>1, <1>6, FS_Subset, EntriesAre
<1>8. \A l \in DOMAIN b.entries : l \in O \/ \E k \in D : a.entries[k].bank_class = b.entries[l].bank_class
  <2> TAKE l \in DOMAIN b.entries
  <2>1. CASE EntriesOf(a, b.entries[l].bank_class) = {}
    BY <2>1 DEF OnlyOf
  <2>2. CASE EntriesOf(a, b.entries[l].bank_class) # {}
    <3>1. PICK k : k \in EntriesOf(a, b.entries[l].bank_class)
      BY <2>2
    <3>2. k \in D /\ a.entries[k].bank_class = b.entries[l].bank_class
      BY <1>1, <3>1, EntriesAre DEF EntriesOf
    <3> QED BY <3>2
  <2> QED BY <2>1, <2>2
<1>9. \A l \in O, k \in D : a.entries[k].bank_class # b.entries[l].bank_class
  <2> SUFFICES ASSUME NEW l \in O, NEW k \in D, a.entries[k].bank_class = b.entries[l].bank_class PROVE FALSE
    OBVIOUS
  <2>1. k \in EntriesOf(a, b.entries[l].bank_class)
    BY <1>1, EntriesAre DEF EntriesOf
  <2> QED BY <1>6, <2>1
<1> HIDE DEF g, h, O
<1>10. Total(g) = Cardinality(X) /\ IsFiniteSet(X)
  <2>1. Column(g, D)
    BY <1>1, <1>4 DEF Column
  <2>2. \A k, l \in D : Classes(a)[k] = Classes(a)[l] => k = l
    BY <1>1, ClassesDiffer
  <2> HIDE DEF D
  <2> QED BY <1>2, <2>1, <2>2, TotalNamed
<1>11. Total(h) = Cardinality(Y) /\ IsFiniteSet(Y)
  <2>1. Column(h, O)
    BY <1>5, <1>6, <1>7 DEF Column
  <2>2. \A k, l \in O : Classes(b)[k] = Classes(b)[l] => k = l
    BY <1>1, <1>6, ClassesDiffer
  <2> QED BY <1>5, <2>1, <2>2, TotalNamed
<1>12. ASSUME NEW z \in X PROVE z \in Pages(a) \cup Pages(b)
  <2>1. PICK k \in D : \E i \in 1..g[k] : z = <<a.entries[k].bank_class, i>>
    BY <1>12, ClassCell
  <2>2. PICK i \in 1..g[k] : z = <<a.entries[k].bank_class, i>>
    BY <2>1
  <2>3. CASE i \in 1..a.entries[k].page_count
    BY <1>1, <2>2, <2>3, PagesAre
  <2>4. CASE i \notin 1..a.entries[k].page_count
    <3>1. i \in 1..Other(a, b, k) /\ Other(a, b, k) > 0
      BY <1>3, <1>4, <2>4
    <3>2. PICK l \in DOMAIN b.entries :
            a.entries[k].bank_class = b.entries[l].bank_class /\ Other(a, b, k) = b.entries[l].page_count
      BY <3>1, OtherIs
    <3>3. i \in 1..b.entries[l].page_count /\ z = <<b.entries[l].bank_class, i>>
      BY <2>2, <3>1, <3>2
    <3>4. z \in Pages(b)
      BY <1>1, <3>3, PagesAre
    <3> QED BY <3>4
  <2> QED BY <2>3, <2>4
<1>13. ASSUME NEW z \in Y PROVE z \in Pages(b)
  <2>1. PICK l \in O : \E i \in 1..h[l] : z = <<b.entries[l].bank_class, i>>
    BY <1>6, <1>13, ClassCell
  <2>2. l \in DOMAIN b.entries /\ h[l] = b.entries[l].page_count
    BY <1>5, <1>6
  <2> QED BY <1>1, <2>1, <2>2, PagesAre
<1>14. ASSUME NEW z \in Pages(a) PROVE z \in X
  <2>1. PICK k \in D : \E i \in 1..a.entries[k].page_count : z = <<a.entries[k].bank_class, i>>
    BY <1>1, PagesAre
  <2>2. PICK i \in 1..a.entries[k].page_count : z = <<a.entries[k].bank_class, i>>
    BY <2>1
  <2>3. i \in 1..g[k]
    BY <1>3, <1>4
  <2> QED BY <2>2, <2>3, ClassCell
<1>15. ASSUME NEW z \in Pages(b) PROVE z \in X \cup Y
  <2>1. PICK l \in DOMAIN b.entries : \E i \in 1..b.entries[l].page_count : z = <<b.entries[l].bank_class, i>>
    BY <1>1, PagesAre
  <2>2. PICK i \in 1..b.entries[l].page_count : z = <<b.entries[l].bank_class, i>>
    BY <2>1
  <2>3. CASE l \in O
    <3>1. i \in 1..h[l]
      BY <1>5, <2>3
    <3>2. z \in Y
      BY <1>6, <2>2, <2>3, <3>1, ClassCell
    <3> QED BY <3>2
  <2>4. CASE l \notin O
    <3>1. PICK k \in D : a.entries[k].bank_class = b.entries[l].bank_class
      BY <1>8, <2>4
    <3>2. Other(a, b, k) = b.entries[l].page_count
      BY <3>1, SameClass
    <3>3. i \in 1..g[k] /\ z = <<a.entries[k].bank_class, i>>
      BY <1>3, <1>4, <2>2, <3>1, <3>2
    <3>4. z \in X
      BY <3>3, ClassCell
    <3> QED BY <3>4
  <2> QED BY <2>3, <2>4
<1>16. X \cap Y = {}
  <2> SUFFICES ASSUME NEW z, z \in X, z \in Y PROVE FALSE
    OBVIOUS
  <2>1. PICK k \in D : \E i \in 1..g[k] : z = <<a.entries[k].bank_class, i>>
    BY ClassCell
  <2>2. PICK l \in O : \E i \in 1..h[l] : z = <<b.entries[l].bank_class, i>>
    BY <1>6, ClassCell
  <2>3. a.entries[k].bank_class = b.entries[l].bank_class
    BY <2>1, <2>2
  <2> QED BY <1>9, <2>3
<1> HIDE DEF X, Y
<1>17. X \cup Y = Pages(a) \cup Pages(b)
  BY <1>12, <1>13, <1>14, <1>15
<1>18. Cardinality(X \cup Y) = Cardinality(X) + Cardinality(Y) /\ IsFiniteSet(X \cup Y)
  BY <1>10, <1>11, <1>16, Disjoint
<1> QED BY <1>10, <1>11, <1>17, <1>18 DEF g, h

\* The loops of bank_profile_overlap_score compute what they are meant to,
\* and the union of two profiles is not empty unless one is.
LEMMA OverlapIs ==
  ASSUME NEW a, NEW b, Pair(a, b), a.entries # <<>>
  PROVE  bank_profile_overlap_score(a, b) = Jaccard(a, b) /\ Jaccard(a, b).union > 0
<1>1. bank_profile_overlap_score(a, b) = Jaccard(a, b)
  BY OverlapSums, CommonIs, UnionIs, Zenon DEF Jaccard
<1> DEFINE U == Pages(a) \cup Pages(b)
           z == <<a.entries[1].bank_class, 1>>
<1>2. a \in Profile /\ Regular(a)
  BY DEF Pair
<1>3. 1 \in DOMAIN a.entries
  BY <1>2, EntriesAre
<1>4. 1 \in 1..a.entries[1].page_count
  <2>1. a.entries[1].page_count \in Nat /\ a.entries[1].page_count > 0
    BY <1>2, <1>3, EntriesAre DEF Regular
  <2> QED BY <2>1
<1>5. z \in Pages(a)
  BY <1>2, <1>3, <1>4, PagesAre
<1>6. U # {} /\ IsFiniteSet(U)
  BY <1>5, UnionIs
<1> HIDE DEF U
<1>7. Cardinality(U) # 0 /\ Cardinality(U) \in Nat
  BY <1>6, FS_EmptySet, FS_CardinalityType
<1>8. Jaccard(a, b).union = Cardinality(U)
  BY DEF Jaccard, U
<1> QED BY <1>1, <1>7, <1>8

-----------------------------------------------------------------------------
(* The histograms of one interval.                                         *)

\* The profile being built accounts for its pages until it fails, and one
\* that is handed to the caller is not empty.
BuildHist ==
    /\ Regular(profile)
    /\ build.rc = "OK" => PagesAdd(profile)
    /\ build.pc # "done" => build.rc = "OK"
    /\ build.pc = "done" /\ build.rc = "OK" => profile.entries # <<>>

\* So does the merged one, which is not empty once it is complete.
MergeHist ==
    /\ Accounts(job.aggregate)
    /\ job.phase \in {"collect", "overlap"} => job.aggregate.entries # <<>>

\* What BuildHist says of the next state.
LEMMA BuildHistNext ==
  ASSUME NEW p, profile' = p, Regular(p), build'.rc = "OK" => PagesAdd(p), build'.pc # "done" => build'.rc = "OK",
         build'.pc = "done" /\ build'.rc = "OK" => p.entries # <<>>
  PROVE  BuildHist'
BY DEF BuildHist, Regular, PagesAdd, Total

\* What MergeHist says of the next state.
LEMMA MergeHistNext ==
  ASSUME NEW p, job'.aggregate = p, Accounts(p), job'.phase \in {"collect", "overlap"} => p.entries # <<>>
  PROVE  MergeHist'
BY DEF MergeHist, Accounts, Fits, Profile, Entry, Skips, Regular, PagesAdd, Total

\* The profile is fresh.
LEMMA FreshHist ==
  ASSUME profile' = bank_profile_reset, build'.pc # "done" => build'.rc = "OK", build'.pc = "done" => build'.rc # "OK"
  PROVE  BuildHist'
<1> DEFINE p == bank_profile_reset
<1>1. Regular(p) /\ PagesAdd(p)
  BY ResetAccounts DEF Accounts, Fits
<1>2. profile' = p
  OBVIOUS
<1> HIDE DEF p
<1> QED BY <1>1, <1>2, BuildHistNext

\* bank_profile_build begins.
LEMMA HistOpen ==
  ASSUME NEW pid, BuildOpen(pid)
  PROVE  BuildHist'
<1>1. Idle.rc = "OK"
  BY DEF Idle
<1>2. CASE build' = [Idle EXCEPT !.pc = "opening", !.pid = pid, !.life = kernel[pid].life]
  <2>1. build'.pc = "opening" /\ build'.rc = "OK"
    BY <1>2 DEF Idle
  <2> QED BY <2>1, FreshHist DEF BuildOpen
<1>3. CASE build' = [Idle EXCEPT !.pc = "done", !.pid = pid, !.rc = "OPEN_MAPS"]
  <2>1. build'.pc = "done" /\ build'.rc # "OK"
    BY <1>3 DEF Idle
  <2> QED BY <2>1, FreshHist DEF BuildOpen
<1> QED BY <1>2, <1>3 DEF BuildOpen

\* The caller takes the profile.
LEMMA HistConsumed ==
  ASSUME BuildConsumed
  PROVE  BuildHist'
<1>1. build'.pc = "idle" /\ build'.rc = "OK" /\ profile' = bank_profile_reset
  BY DEF BuildConsumed, Idle
<1> QED BY <1>1, FreshHist

\* Nothing happens to it.
LEMMA HistStays ==
  ASSUME BuildHist, profile' = profile, build' = build
  PROVE  BuildHist'
<1>1. PICK p \in {profile} : TRUE
  OBVIOUS
<1>2. Regular(p) /\ (build.rc = "OK" => PagesAdd(p)) /\ (build.pc # "done" => build.rc = "OK")
      /\ (build.pc = "done" /\ build.rc = "OK" => p.entries # <<>>)
  BY <1>1 DEF BuildHist
<1>3. profile' = p
  BY <1>1
<1> QED BY <1>2, <1>3, BuildHistNext

\* One page.
LEMMA HistPage ==
  ASSUME BuildOK, BuildHist, BuildPage
  PROVE  BuildHist'
<1>1. /\ profile \in Profile /\ build \in BuildState /\ Len(profile.entries) <= BANK_PROFILE_MAX_ENTRIES
      /\ build.pc = "pages" /\ build.rc = "OK"
  BY DEF BuildOK, BuildPage, BuildHist
<1>2. Accounts(profile)
  BY <1>1 DEF Accounts, Fits, BuildHist
<1> DEFINE sampled == [profile EXCEPT !.pages_sampled = @ + 1]
           counted == [sampled EXCEPT !.pages_translated = @ + 1]
           added(e) == profile_add_bank_class_count(counted, class_of[e.pfn], 1)
           skipped(e) == count_translation_skip(sampled, TranslateCode(e))
<1>3. PICK e \in IF Readable THEN PageEntries ELSE {Unreadable} :
        \/ /\ profile' = skipped(e)
           /\ build' = [build EXCEPT !.page = @ + Larger(sample_stride_pages, 1)]
        \/ /\ added(e).rc = "OK"
           /\ profile' = added(e).p
           /\ build' = [build EXCEPT !.page = @ + Larger(sample_stride_pages, 1)]
        \/ /\ added(e).rc # "OK"
           /\ profile' = added(e).p
           /\ Return(added(e).rc)
  BY DEF BuildPage
<1>4. class_of[e.pfn] \in {class_of[f] : f \in Nat}
  <2>1. e.pfn \in Nat
    <3>1. PageEntries \subseteq PageEntry /\ Unreadable.pfn = 0
      BY ProfileAssumption DEF Unreadable
    <3> QED BY <1>3, <3>1 DEF PageEntry
  <2> QED BY <2>1
<1>5. counted = [profile EXCEPT !.pages_sampled = @ + 1, !.pages_translated = @ + 1]
  BY <1>1 DEF Profile
<1>6. Fits(added(e).p) /\ (added(e).rc = "OK" => PagesAdd(added(e).p))
  <2> HIDE DEF counted
  <2> QED BY <1>2, <1>4, <1>5, SampledAccounts
<1>7. Accounts(skipped(e))
  BY <1>2, SkippedAccounts
<1> HIDE DEF added, skipped
<1>8. build' = [build EXCEPT !.page = @ + Larger(sample_stride_pages, 1)] => build'.pc = "pages" /\ build'.rc = "OK"
  BY <1>1 DEF BuildState
<1>9. Return(added(e).rc) => build'.pc = "done" /\ build'.rc = added(e).rc
  BY <1>1 DEF Return, BuildState
<1>10. CASE profile' = skipped(e) /\ build' = [build EXCEPT !.page = @ + Larger(sample_stride_pages, 1)]
  <2>1. Regular(skipped(e)) /\ PagesAdd(skipped(e))
    BY <1>7 DEF Accounts, Fits
  <2> QED BY <1>8, <1>10, <2>1, BuildHistNext
<1>11. CASE /\ added(e).rc = "OK" /\ profile' = added(e).p
            /\ build' = [build EXCEPT !.page = @ + Larger(sample_stride_pages, 1)]
  <2>1. Regular(added(e).p) /\ PagesAdd(added(e).p)
    BY <1>6, <1>11 DEF Fits
  <2> QED BY <1>8, <1>11, <2>1, BuildHistNext
<1>12. CASE added(e).rc # "OK" /\ profile' = added(e).p /\ Return(added(e).rc)
  <2>1. Regular(added(e).p)
    BY <1>6 DEF Fits
  <2>2. build'.pc = "done" /\ build'.rc # "OK"
    BY <1>9, <1>12
  <2> QED BY <1>12, <2>1, <2>2, BuildHistNext
<1> QED BY <1>3, <1>10, <1>11, <1>12

\* The steps of bank_profile_build.
LEMMA HistBuild ==
  ASSUME BuildOK, BuildHist, BuildStep
  PROVE  BuildHist'
<1>1. build \in BuildState
  BY DEF BuildOK
<1>2. CASE BuildPage
  BY <1>2, HistPage
<1>3. ASSUME profile' = profile, build'.rc = "OK" => build.rc = "OK", build'.pc # "done" => build'.rc = "OK",
             build'.pc = "done" /\ build'.rc = "OK" => profile.entries # <<>>
      PROVE  BuildHist'
  <2>1. PICK p \in {profile} : TRUE
    OBVIOUS
  <2>2. /\ profile' = p /\ Regular(p) /\ (build.rc = "OK" => PagesAdd(p))
        /\ (build'.pc = "done" /\ build'.rc = "OK" => p.entries # <<>>)
    BY <1>3, <2>1 DEF BuildHist
  <2> QED BY <1>3, <2>2, BuildHistNext
<1>4. CASE BuildRegion
  <2>1. build.pc = "maps" /\ build.rc = "OK" /\ profile' = profile
    BY <1>4 DEF BuildRegion, BuildHist
  <2>2. build'.pc # "done" /\ build'.rc = "OK"
    BY <1>1, <1>4, <2>1 DEF BuildRegion, BuildState
  <2> QED BY <1>3, <2>1, <2>2
<1>5. CASE BuildRegionEnd
  <2>1. build.pc = "pages" /\ build.rc = "OK" /\ profile' = profile
    BY <1>5 DEF BuildRegionEnd, BuildHist
  <2>2. build'.pc # "done" /\ build'.rc = "OK"
    BY <1>1, <1>5, <2>1 DEF BuildRegionEnd, BuildState
  <2> QED BY <1>3, <2>1, <2>2
<1>6. CASE BuildEnd
  <2>1. build.pc # "done" /\ build.rc = "OK" /\ profile' = profile
    BY <1>6 DEF BuildEnd, BuildHist
  <2> DEFINE code == IF profile.pages_translated = 0 \/ profile.entries = <<>> THEN "NO_SAMPLES" ELSE "OK"
  <2>2. code = "OK" => profile.entries # <<>>
    OBVIOUS
  <2>3. Return(code) \/ Return("IO")
    BY <1>6 DEF BuildEnd
  <2> HIDE DEF code
  <2>4. \A x : Return(x) => build'.pc = "done" /\ build'.rc = x
    BY <1>1 DEF Return, BuildState
  <2> QED BY <1>3, <2>1, <2>2, <2>3, <2>4
<1>7. CASE BuildOpenPagemap
  <2>1. build.pc = "opening" /\ build.rc = "OK" /\ profile' = profile
    BY <1>7 DEF BuildOpenPagemap, BuildHist
  <2>2. build' = [build EXCEPT !.pc = "maps"] => build'.pc # "done" /\ build'.rc = "OK"
    BY <1>1, <2>1 DEF BuildState
  <2>3. Return("ADDR_OPEN") => build'.pc = "done" /\ build'.rc # "OK"
    BY <1>1 DEF Return, BuildState
  <2> QED BY <1>3, <1>7, <2>1, <2>2, <2>3 DEF BuildOpenPagemap
<1> QED BY <1>2, <1>4, <1>5, <1>6, <1>7 DEF BuildStep

\* The merged profile is left alone.
LEMMA MergeStays ==
  ASSUME MergeHist, job'.aggregate = job.aggregate, job'.phase \in {"collect", "overlap"} => job.phase \in {"collect", "overlap"}
  PROVE  MergeHist'
<1>1. PICK p \in {job.aggregate} : TRUE
  OBVIOUS
<1>2. Accounts(p) /\ job'.aggregate = p /\ (job'.phase \in {"collect", "overlap"} => p.entries # <<>>)
  BY <1>1 DEF MergeHist
<1> QED BY <1>2, MergeHistNext

\* The merged profile is fresh.
LEMMA MergeFresh ==
  ASSUME job'.aggregate = bank_profile_reset, job'.phase \in {"idle", "protected"}
  PROVE  MergeHist'
BY ResetAccounts, MergeHistNext

\* run_once returns.
LEMMA MergeLeave ==
  ASSUME NEW code, Leave(code)
  PROVE  MergeHist'
<1>1. job'.aggregate = bank_profile_reset /\ job'.phase = "idle"
  BY DEF Leave, NoJob
<1> QED BY <1>1, MergeFresh

\* A profile of a protected process is merged.
LEMMA MergeStep ==
  ASSUME DetIndInv, BuildHist, MergeHist, MergeProtected
  PROVE  MergeHist'
<1> DEFINE merged == bank_profile_merge(job.aggregate, profile)
<1>1. JobOK /\ profile \in Profile /\ Len(profile.entries) <= BANK_PROFILE_MAX_ENTRIES /\ job.phase = "protected"
      /\ build.pc = "done"
  BY DEF DetIndInv, BuildOK, MergeProtected
<1>2. CASE job' = [job EXCEPT !.i = @ + 1]
  <2>1. job'.aggregate = job.aggregate /\ job'.phase = job.phase
    BY <1>1, <1>2, JobFields
  <2> QED BY <2>1, MergeStays
<1>3. CASE build.rc = "OK" /\ merged.rc = "OK" /\ job' = [job EXCEPT !.i = @ + 1, !.aggregate = merged.p]
  <2>1. Accounts(profile) /\ profile.entries # <<>> /\ Accounts(job.aggregate)
    BY <1>1, <1>3 DEF BuildHist, MergeHist, Accounts, Fits
  <2> HIDE DEF merged
  <2>2. Accounts(merged.p) /\ merged.p.entries # <<>>
    BY <1>3, <2>1, MergeIs DEF merged
  <2>3. job'.aggregate = merged.p
    BY <1>1, <1>3, JobFields
  <2>4. PICK p \in {merged.p} : TRUE
    OBVIOUS
  <2>5. job'.aggregate = p /\ Accounts(p) /\ p.entries # <<>>
    BY <2>2, <2>3, <2>4
  <2> QED BY <2>5, MergeHistNext
<1>4. CASE Leave("PROFILE")
  BY <1>4, MergeLeave
<1> HIDE DEF merged
<1> QED BY <1>2, <1>3, <1>4 DEF MergeProtected, merged

\* The steps of the detector keep both.
LEMMA HistStep ==
  ASSUME DetIndInv, BuildHist, MergeHist, [Next]_allVars
  PROVE  BuildHist' /\ MergeHist'
<1>0. JobOK /\ BuildOK
  BY DEF DetIndInv
<1>1. ASSUME profile' = profile, build' = build PROVE BuildHist'
  BY <1>1, HistStays
<1>2. ASSUME job' = job PROVE MergeHist'
  BY <1>2, MergeStays
<1>3. ASSUME job' = [job EXCEPT !.i = @ + 1] PROVE MergeHist'
  <2>1. job'.aggregate = job.aggregate /\ job'.phase = job.phase
    BY <1>0, <1>3, JobFields
  <2> QED BY <2>1, MergeStays
<1>4. ASSUME NEW code, Leave(code) PROVE MergeHist'
  BY <1>4, MergeLeave
<1>5. CASE Begin
  <2>1. CASE job' = [NoJob EXCEPT !.phase = "protected", !.i = 1]
    <3>1. job'.phase = "protected" /\ job'.aggregate = bank_profile_reset
      BY <2>1 DEF NoJob
    <3> QED BY <1>1, <1>5, <3>1, MergeFresh DEF Begin, profVars
  <2>2. profile' = profile /\ build' = build
    BY <1>5 DEF Begin, profVars
  <2> QED BY <1>1, <1>4, <1>5, <2>1, <2>2 DEF Begin
<1>6. CASE ProfileProtected
  <2>1. CASE BuildOpen(Current.pid) /\ job' = job
    <3>1. PICK pid \in {Current.pid} : TRUE
      OBVIOUS
    <3>2. BuildOpen(pid)
      BY <2>1, <3>1
    <3> QED BY <1>2, <2>1, <3>2, HistOpen
  <2>2. CASE job' = [job EXCEPT !.i = @ + 1] /\ UNCHANGED profVars
    BY <1>1, <1>3, <2>2 DEF profVars
  <2> QED BY <1>6, <2>1, <2>2 DEF ProfileProtected
<1>7. CASE MergeProtected
  BY <1>7, MergeStep, HistConsumed DEF MergeProtected
<1>8. CASE ProtectedEnd
  <2>1. CASE job.aggregate.entries # <<>> /\ job' = [job EXCEPT !.phase = "collect", !.i = 1]
    <3>1. PICK p \in {job.aggregate} : TRUE
      OBVIOUS
    <3>2. job'.aggregate = p /\ Accounts(p) /\ p.entries # <<>>
      BY <1>0, <2>1, <3>1, JobFields DEF MergeHist
    <3>3. MergeHist'
      BY <3>2, MergeHistNext
    <3> QED BY <1>1, <1>8, <3>3 DEF ProtectedEnd, profVars
  <2>2. profile' = profile /\ build' = build
    BY <1>8 DEF ProtectedEnd, profVars
  <2> QED BY <1>1, <1>4, <1>8, <2>1, <2>2 DEF ProtectedEnd
<1>9. CASE Collect
  <2>1. job'.aggregate = job.aggregate /\ job'.phase = job.phase
    BY <1>0, <1>9, JobFields DEF Collect, SampleFails, SampleTaken
  <2>2. profile' = profile /\ build' = build
    BY <1>9 DEF Collect, profVars
  <2> QED BY <1>1, <2>1, <2>2, MergeStays
<1>10. CASE CollectEnd
  <2>1. job'.aggregate = job.aggregate /\ job.phase = "collect"
    BY <1>0, <1>10, JobFields DEF CollectEnd
  <2>2. profile' = profile /\ build' = build
    BY <1>10 DEF CollectEnd, profVars
  <2> QED BY <1>1, <2>1, <2>2, MergeStays
<1>11. CASE ProfileCandidate
  <2>1. PICK pid \in {job.active[job.i].pid} : TRUE
    OBVIOUS
  <2>2. BuildOpen(pid) /\ job' = job
    BY <1>11, <2>1 DEF ProfileCandidate, runVars
  <2> QED BY <1>2, <2>2, HistOpen
<1>12. CASE JudgeCandidate
  <2>1. job'.aggregate = job.aggregate /\ job'.phase = job.phase
    BY <1>0, <1>12, JobFields DEF JudgeCandidate
  <2> QED BY <1>12, <2>1, MergeStays, HistConsumed DEF JudgeCandidate
<1>13. CASE End
  BY <1>1, <1>4, <1>13 DEF End, profVars
<1>14. CASE Build
  BY <1>0, <1>2, <1>14, HistBuild DEF Build, runVars
<1>15. CASE \E p \in Pids : Exit(p) \/ Reuse(p)
  BY <1>1, <1>2, <1>15 DEF Exit, Reuse, profVars, runVars
<1>16. CASE UNCHANGED allVars
  BY <1>1, <1>2, <1>16 DEF allVars, profVars, runVars
<1> QED BY <1>5, <1>6, <1>7, <1>8, <1>9, <1>10, <1>11, <1>12, <1>13, <1>14, <1>15, <1>16 DEF Next

\* bank_profile.c accounts for every page it samples, in one process and in
\* the merged profile, for any number of classes, regions and processes, and
\* the overlap run_once computes is that of the two sets of pages.
THEOREM HistogramsAreRight == Spec => []HistogramsInv
<1>1. Init => BuildHist /\ MergeHist
  <2> SUFFICES ASSUME Init PROVE BuildHist /\ MergeHist
    OBVIOUS
  <2>1. profile = bank_profile_reset /\ build.pc = "idle" /\ build.rc = "OK" /\ job.phase = "idle"
        /\ job.aggregate = bank_profile_reset
    BY DEF Init, Idle, NoJob
  <2>2. Accounts(profile) /\ Accounts(job.aggregate)
    BY <2>1, ResetAccounts
  <2> QED BY <2>1, <2>2 DEF BuildHist, MergeHist, Accounts, Fits
<1>2. DetIndInv /\ (BuildHist /\ MergeHist) /\ [Next]_allVars => (BuildHist /\ MergeHist)'
  BY HistStep
<1>3. DetIndInv /\ BuildHist /\ MergeHist => HistogramsInv
  <2> SUFFICES ASSUME DetIndInv, BuildHist, MergeHist PROVE HistogramsInv
    OBVIOUS
  <2>1. Accounts(job.aggregate) /\ profile \in Profile /\ Regular(profile)
    BY DEF DetIndInv, BuildOK, BuildHist, MergeHist
  <2>2. PagesAccounted
    BY <2>1 DEF PagesAccounted, BuildHist, Accounts, Fits
  <2>3. ASSUME job.phase = "overlap"
        PROVE  /\ bank_profile_overlap_score(job.aggregate, profile) = Jaccard(job.aggregate, profile)
               /\ Jaccard(job.aggregate, profile).union > 0
    <3>1. Pair(job.aggregate, profile) /\ job.aggregate.entries # <<>>
      BY <2>1, <2>3 DEF Pair, Accounts, Fits, MergeHist
    <3> QED BY <3>1, OverlapIs
  <2> QED BY <2>2, <2>3, Zenon DEF HistogramsInv, OverlapIsJaccard
<1> QED BY <1>1, <1>2, <1>3, DetectorInductive, PTL DEF Spec
=============================================================================
