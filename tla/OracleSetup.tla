----------------------------- MODULE OracleSetup -----------------------------
(***************************************************************************)
(* What the oracle experiments prepare before, and check after, they       *)
(* measure: main reads the bank mapping, makes a pool of memory per role,  *)
(* sorts its cache lines by bank class, gives the victim and each          *)
(* aggressor the classes that make their overlap what the experiment says, *)
(* tests the result on the addresses themselves, links the lines into      *)
(* pointer chains and, at the end, looks whether a page has moved.  The    *)
(* kernel may move or drop a page at any time.  How the conditions run is  *)
(* OracleRun's matter.                                                     *)
(***************************************************************************)
EXTENDS OracleSteps, OracleClasses

CONSTANTS
    Programs,           \* which of the six programs
    Configs,            \* command lines: group (--classes), workset (in lines), target (the
                        \* worker's class), apart (no CPU twice), fits (quota within period)
    Seeds,              \* values of --seed
    MaskSets,           \* what the calibration file may hold
    Width,              \* 2^Width lines make a page
    Layouts,            \* the pages the kernel may give: [pool -> sequence of pages]
    Elsewhere,          \* the frame a page moves to
    MaxMasks,           \* the most masks the histograms allow (20 in the code)
    AGGRESSOR_STREAMS,  \* chains per aggressor (16 in the code)
    Movable,            \* bound: numbers of the pages that may move
    MaxMoves            \* bound: pages that move

Overlap == INSTANCE OracleOverlap
Sweep == INSTANCE OracleSweep
Selective == INSTANCE OracleSelective
Multi == INSTANCE OracleMulti
CpuMax == INSTANCE OracleCpuMax
Worker == INSTANCE OracleWorker

ASSUME OracleSetupAssumption ==
    /\ Programs \subseteq {"overlap", "sweep", "selective", "multi", "cpumax", "worker"}
    /\ Width \in Nat /\ AGGRESSOR_STREAMS \in Nat \ {0} /\ MaxMoves \in Nat /\ Seeds \subseteq Nat
    /\ \A c \in Configs : c.group \in Nat /\ c.workset \in Nat
    /\ \A m \in MaskSets : m \in Seq(SUBSET Int)
    /\ \A lay \in Layouts :
         /\ {"victim", "high", "low", "aggressor", "worker"} \cup Range(Levels) \subseteq DOMAIN lay
         /\ \A r \in DOMAIN lay : lay[r] \in Seq(SUBSET Nat)
         /\ \A r \in DOMAIN lay : \A p \in DOMAIN lay[r] :
              /\ IsFiniteSet(lay[r][p]) /\ lay[r][p] # Elsewhere
              /\ \A b \in lay[r][p] : b >= Width

\* Some mask is not zero, and a byte is 2^(-6) of a line.
ASSUME MasksAssumption ==
    \A m \in MaskSets : UNION Range(m) # {} /\ \A b \in UNION Range(m) : b >= -6

VARIABLES
    program, cfg, seed, \* the command line
    pagemap,            \* the kernel: the pages behind the pools
    section, pc,        \* the part of main and its next step
    rc, reason,         \* exit status, and the step at which it was decided
    masks,              \* the mapping
    sets,               \* victim_classes and disjoint_classes
    pool,               \* struct memory_pool, counts, struct line_set, chains
    permutation,
    todo, level,        \* the sweep's conditions, and the current one
    scanned, keep_page, \* the worker's page loop
    doubt,              \* pools that verify_pool_pfns found changed
    seen, moves, early  \* history: the sweep's lines by level, pages moved,
                        \* pages that moved before the verification began

params == <<program, cfg, seed>>
control == <<section, pc, rc, reason>>
kernel == <<pagemap, moves, early>>
chosen == <<masks, sets, permutation>>
sweepVars == <<todo, level, seen>>
workerVars == <<scanned, keep_page>>
vars == <<params, control, kernel, chosen, pool, sweepVars, workerVars, doubt>>

-----------------------------------------------------------------------------
PoolsOf(p) ==
    CASE p = "overlap" -> Overlap!Pools
      [] p = "sweep" -> Sweep!Pools
      [] p = "selective" -> Selective!Pools
      [] p = "multi" -> Multi!Pools
      [] p = "cpumax" -> CpuMax!Pools
      [] p = "worker" -> Worker!Pools

Script ==
    [p \in Programs |->
        CASE p = "overlap" -> [setup |-> Overlap!setup, loop |-> Overlap!loop, verify |-> Overlap!verify]
          [] p = "sweep" -> [setup |-> Sweep!setup, loop |-> Sweep!loop, verify |-> Sweep!verify]
          [] p = "selective" -> [setup |-> Selective!setup, loop |-> Selective!loop, verify |-> Selective!verify]
          [] p = "multi" -> [setup |-> Multi!setup, loop |-> Multi!loop, verify |-> Multi!verify]
          [] p = "cpumax" -> [setup |-> CpuMax!setup, loop |-> CpuMax!loop, verify |-> CpuMax!verify]
          [] p = "worker" -> [setup |-> Worker!setup, loop |-> Worker!loop, verify |-> Worker!verify]]

AcceptsArgs(p, c) ==
    CASE p = "overlap" -> Overlap!parse_args(c)
      [] p = "sweep" -> Sweep!parse_args(c)
      [] p = "selective" -> Selective!parse_args(c)
      [] p = "multi" -> Multi!parse_args(c)
      [] p = "cpumax" -> CpuMax!parse_args(c)
      [] p = "worker" -> Worker!parse_args(c)

Roles == Range(PoolsOf(program))
quota_lines == cfg.workset \div cfg.group
counts == [r \in Roles |-> pool[r].counts]

Eligible ==
    CASE program = "overlap" -> Overlap!choose_class_sets(counts, masks, quota_lines)
      [] program = "sweep" -> Sweep!choose_base_class_sets(counts, masks, quota_lines)
      [] program = "selective" -> Selective!choose_class_sets(counts, masks, quota_lines)
      [] program = "multi" -> Multi!choose_class_sets(counts, masks, quota_lines)
      [] program = "cpumax" -> CpuMax!choose_class_sets(counts, masks, quota_lines)

ClassesOf(r) ==
    CASE program = "overlap" -> Overlap!classes_of(r, sets)
      [] program = "sweep" -> Sweep!classes_of(r, sets, cfg.group, level)
      [] program = "selective" -> Selective!classes_of(r, sets)
      [] program = "multi" -> Multi!background_classes(r, sets, cfg.group)
      [] program = "cpumax" -> CpuMax!background_classes(r, sets, cfg.group)

Accepts(r) ==
    LET v == pool["victim"].hist  h == pool[r].hist
    IN  CASE program = "overlap" -> Overlap!Accepted(r, v, h)
          [] program = "sweep" -> Sweep!Accepted(r, v, h, cfg.group, quota_lines, level)
          [] program = "selective" -> Selective!Accepted(r, v, h)
          [] program = "multi" -> Multi!Accepted(r, v, h, cfg.group, quota_lines)
          [] program = "cpumax" -> CpuMax!Accepted(r, v, h, cfg.group, quota_lines)

\* The number that tells the seeds of the pools apart.
SelectSeed(r) ==
    IF program = "sweep" THEN Sweep!select_seed(r, level)
    ELSE 2 + CHOOSE i \in 1..Len(PoolsOf(program)) : PoolsOf(program)[i] = r

NoPool == [pages |-> <<>>, counts |-> <<>>, lines |-> <<>>, hist |-> <<>>, next |-> <<>>, roots |-> <<>>]

Steps == Script[program][section]
Running == rc = "none" /\ pc <= Len(Steps)
At(op) == Running /\ Steps[pc].op = op
Who == Steps[pc].who
Done == pc' = pc + 1 /\ UNCHANGED <<section, rc, reason>>

\* goto fail: everything is freed and main returns EXIT_FAILURE.
Abort(why) == rc' = "failure" /\ reason' = why /\ UNCHANGED <<section, pc>>
Fail == Abort(Steps[pc].op)

Update(r, field, value) == pool' = [pool EXCEPT ![r][field] = value]
-----------------------------------------------------------------------------
(* The mapping.                                                            *)

\* The file is missing or invalid, or has too many masks for the histograms.
load_mapping ==
    /\ At("mapping")
    /\ \E m \in MaskSets :
         /\ masks' = m
         /\ IF program # "worker" /\ Len(m) > MaxMasks THEN Fail ELSE Done
    /\ UNCHANGED <<params, kernel, sweepVars, sets, pool, permutation, workerVars, doubt>>

\* The work set is divided evenly over the classes.
DivideWorkset ==
    /\ At("quota")
    /\ IF cfg.workset % cfg.group = 0 THEN Done ELSE Fail
    /\ UNCHANGED <<params, kernel, chosen, sweepVars, pool, workerVars, doubt>>

-----------------------------------------------------------------------------
(* Pools and lines.                                                        *)

\* All pages are touched and must then have a frame that can be read.
pool_create ==
    /\ At("pool")
    /\ IF \A p \in DOMAIN pagemap[Who] : read_one_pfn(pagemap[Who][p])
         THEN Update(Who, "pages", pagemap[Who]) /\ Done
         ELSE Fail /\ UNCHANGED pool
    /\ UNCHANGED <<params, kernel, chosen, sweepVars, workerVars, doubt>>

CountLines ==
    /\ At("count")
    /\ Update(Who, "counts", count_line_classes(pool[Who].pages, masks, Width))
    /\ Done
    /\ UNCHANGED <<params, kernel, chosen, sweepVars, workerVars, doubt>>

ChooseClassSets ==
    /\ At("choose")
    /\ IF TooFew(Eligible, cfg.group) THEN Fail /\ UNCHANGED sets
       ELSE sets' = Split(Eligible, cfg.group, Seed(seed, 0)) /\ Done
    /\ UNCHANGED <<params, kernel, sweepVars, masks, pool, permutation, workerVars, doubt>>

CollectLines ==
    /\ At("collect")
    /\ LET slots == collect_line_set(pool[Who].pages, masks, Width, ClassesOf(Who), quota_lines,
                                     Seed(seed, SelectSeed(Who)))
       IN  IF AllFilled(slots, quota_lines)
             THEN Update(Who, "lines", LineSet(slots, quota_lines)) /\ Done
             ELSE Fail /\ UNCHANGED pool
    /\ UNCHANGED <<params, kernel, chosen, sweepVars, workerVars, doubt>>

BuildHistogram ==
    /\ At("histogram")
    /\ Update(Who, "hist", build_histogram(pool[Who].pages, masks, Width, pool[Who].lines))
    /\ Done
    /\ UNCHANGED <<params, kernel, chosen, sweepVars, workerVars, doubt>>

\* The hard acceptance criterion.
Accept ==
    /\ At("accept")
    /\ IF Accepts(Who) THEN Done ELSE Fail
    /\ UNCHANGED <<params, kernel, chosen, sweepVars, pool, workerVars, doubt>>

-----------------------------------------------------------------------------
(* Chains.  They are written into the lines, over what was there.          *)

MakePermutation ==
    /\ At("permutation")
    /\ permutation' = make_permutation(cfg.workset, Seed(seed, 9))
    /\ Done
    /\ UNCHANGED <<params, kernel, sweepVars, masks, sets, pool, workerVars, doubt>>

Over(f, g) == [x \in DOMAIN f \cup DOMAIN g |-> IF x \in DOMAIN f THEN f[x] ELSE g[x]]
Link(r, chain, roots) == pool' = [pool EXCEPT ![r].next = Over(chain, @), ![r].roots = roots]

SingleChain ==
    /\ At("single")
    /\ LET lines == pool[Who].lines
       IN  Link(Who, build_single_chain(lines, permutation), <<lines[permutation[1]]>>)
    /\ Done
    /\ UNCHANGED <<params, kernel, chosen, sweepVars, workerVars, doubt>>

MultiChain ==
    /\ At("multi")
    /\ LET lines == pool[Who].lines
       IN  IF Len(lines) < AGGRESSOR_STREAMS THEN Fail /\ UNCHANGED pool
           ELSE /\ Link(Who, build_multi_chain(lines, permutation, AGGRESSOR_STREAMS),
                        [s \in 1..AGGRESSOR_STREAMS |-> lines[permutation[s]]])
                /\ Done
    /\ UNCHANGED <<params, kernel, chosen, sweepVars, workerVars, doubt>>

-----------------------------------------------------------------------------
(* The worker.                                                             *)

\* The class must be one of the mapping's.
CheckClass ==
    /\ At("class")
    /\ IF cfg.target \in Range(class_space(masks)) THEN Done ELSE Fail
    /\ UNCHANGED <<params, kernel, chosen, sweepVars, pool, workerVars, doubt>>

CheckGranularity ==
    /\ At("granularity")
    /\ IF Worker!GranularityRefused(masks, Width, cfg.workset) THEN Fail ELSE Done
    /\ UNCHANGED <<params, kernel, chosen, sweepVars, pool, workerVars, doubt>>

\* One page: touched, translated, and its blocks of the class selected.
Wanted == (cfg.workset - Len(pool["worker"].lines)) \div Pow2[Worker!find_minimum_mask_bit(masks)]

ScanPage ==
    /\ At("scan")
    /\ scanned < Len(pagemap["worker"]) /\ Wanted > 0
    /\ LET p == scanned + 1
           page == pagemap["worker"][p]
           blocks == Worker!BlocksOf(page, masks, Width, cfg.target, Wanted)
       IN  /\ scanned' = p
           /\ IF ~read_one_pfn(page) THEN Fail /\ UNCHANGED <<pool, keep_page>>
              ELSE /\ keep_page' = keep_page \cup (IF blocks = <<>> THEN {} ELSE {p})
                   /\ Update("worker", "lines", pool["worker"].lines \o Worker!LinesOf(p, blocks, masks))
                   /\ UNCHANGED control
    /\ UNCHANGED <<params, kernel, chosen, sweepVars, doubt>>

ScanEnds ==
    /\ At("scan")
    /\ scanned = Len(pagemap["worker"]) \/ Wanted = 0
    /\ Done
    /\ UNCHANGED <<params, kernel, chosen, sweepVars, pool, workerVars, doubt>>

CheckCapacity ==
    /\ At("capacity")
    /\ IF Len(pool["worker"].lines) = cfg.workset THEN Done ELSE Fail
    /\ UNCHANGED <<params, kernel, chosen, sweepVars, pool, workerVars, doubt>>

\* MADV_DONTNEED: the pages have no frame any more.
ReleasePages ==
    /\ At("release")
    /\ LET gone == Worker!release_unselected_pages(scanned, keep_page)
       IN  pagemap' = [pagemap EXCEPT !["worker"] =
                          [p \in DOMAIN @ |-> IF p \in gone THEN {} ELSE @[p]]]
    /\ Done
    /\ UNCHANGED <<params, chosen, sweepVars, pool, workerVars, doubt, moves, early>>

ShuffleLines ==
    /\ At("shuffle")
    /\ Update("worker", "lines", Worker!shuffle_lines(pool["worker"].lines))
    /\ Done
    /\ UNCHANGED <<params, kernel, chosen, sweepVars, workerVars, doubt>>

LinkLines ==
    /\ At("chain")
    /\ LET lines == pool["worker"].lines
       IN  Link("worker", build_single_chain(lines, [i \in 1..Len(lines) |-> i]), <<lines[1]>>)
    /\ Done
    /\ UNCHANGED <<params, kernel, chosen, sweepVars, workerVars, doubt>>

-----------------------------------------------------------------------------
(* The conditions and the end.                                             *)

\* parse_order allows any order of the levels.  ("none" makes no lines.)
NextLevel ==
    /\ At("level")
    /\ \E v \in todo : level' = v /\ todo' = todo \ {v}
    /\ Done
    /\ UNCHANGED <<params, kernel, chosen, pool, workerVars, doubt, seen>>

\* run_condition, see OracleRun.
RunConditions ==
    /\ At("run")
    /\ seen' = [seen EXCEPT ![level] = IF program = "sweep" THEN Range(pool["aggressor"].lines) ELSE @]
    /\ Done
    /\ UNCHANGED <<params, kernel, chosen, pool, todo, level, workerVars, doubt>>

\* pagemap is opened again and compared with what pool_create found.
VerifyPool ==
    /\ At("verify")
    /\ LET found == verify_pool_pfns(pool[Who].pages, pagemap[Who])
       IN  doubt' = doubt \cup (IF found.moved # {} \/ found.unreadable # {} THEN {Who} ELSE {})
    /\ Done
    /\ UNCHANGED <<params, kernel, chosen, sweepVars, pool, workerVars>>

Judge ==
    /\ At("stable")
    /\ IF doubt = {} THEN Done ELSE Fail
    /\ UNCHANGED <<params, kernel, chosen, sweepVars, pool, workerVars, doubt>>

\* A call the step makes fails: memory, a file, a measurement.
CallFails ==
    /\ Running
    /\ Steps[pc].op \in {"mapping", "pool", "count", "choose", "collect", "histogram", "permutation",
                         "granularity", "release", "run", "verify"}
    /\ Abort("call")
    /\ UNCHANGED <<params, kernel, chosen, pool, sweepVars, workerVars, doubt>>

NextSection ==
    /\ rc = "none" /\ pc > Len(Steps)
    /\ CASE section = "setup" -> section' = "loop" /\ UNCHANGED <<rc, reason>>
         [] section = "loop" -> section' = (IF todo = {} THEN "verify" ELSE "loop") /\ UNCHANGED <<rc, reason>>
         [] section = "verify" -> rc' = "success" /\ reason' = "end" /\ UNCHANGED section
    /\ pc' = 1
    /\ UNCHANGED <<params, kernel, chosen, sweepVars, pool, workerVars, doubt>>

\* The kernel migrates a page, or takes its frame away.
MovePage ==
    /\ rc = "none" /\ Cardinality(moves) < MaxMoves
    /\ \E r \in Roles : \E p \in Movable \cap DOMAIN pagemap[r], to \in {Elsewhere, {}} :
         /\ pool[r].pages # <<>> \/ p <= scanned
         /\ pagemap' = [pagemap EXCEPT ![r][p] = to]
         /\ moves' = moves \cup {<<r, p>>}
         /\ early' = IF section = "verify" THEN early ELSE early \cup {r}
    /\ UNCHANGED <<params, control, chosen, sweepVars, pool, workerVars, doubt>>

Init ==
    /\ program \in Programs /\ cfg \in Configs /\ seed \in Seeds
    /\ AcceptsArgs(program, cfg)
    /\ \E lay \in Layouts : pagemap = [r \in Roles |-> lay[r]]
    /\ section = "setup" /\ pc = 1 /\ rc = "none" /\ reason = "none"
    /\ masks = <<>> /\ sets = [victim |-> <<>>, disjoint |-> <<>>]
    /\ pool = [r \in Roles |-> NoPool] /\ permutation = <<>>
    /\ todo = (IF program = "sweep" THEN Range(Levels) ELSE {}) /\ level = "o0"
    /\ scanned = 0 /\ keep_page = {} /\ doubt = {}
    /\ seen = [v \in Range(Levels) |-> {}] /\ moves = {} /\ early = {}

Finished == rc # "none" /\ UNCHANGED vars

Main ==
    \/ load_mapping \/ DivideWorkset \/ pool_create \/ CountLines \/ ChooseClassSets \/ CollectLines
    \/ BuildHistogram \/ Accept \/ MakePermutation \/ SingleChain \/ MultiChain
    \/ CheckClass \/ CheckGranularity \/ ScanPage \/ ScanEnds \/ CheckCapacity
    \/ ReleasePages \/ ShuffleLines \/ LinkLines
    \/ NextLevel \/ RunConditions \/ VerifyPool \/ Judge \/ CallFails \/ NextSection

Next == Main \/ MovePage \/ Finished

Spec == Init /\ [][Next]_vars

-----------------------------------------------------------------------------
(* Properties.                                                             *)

\* Types.
TypeOK ==
    /\ section \in {"setup", "loop", "verify"} /\ pc \in 1..(Len(Steps) + 1)
    /\ rc \in {"none", "success", "failure"}
    /\ \A r \in Roles : Range(pool[r].lines) \subseteq Addresses(pagemap[r], Width)
    /\ todo \subseteq Range(Levels) /\ doubt \subseteq Roles /\ early \subseteq Roles

\* Once choose_class_sets has found its classes, no pool runs out of lines
\* of one: collect_line_set never fails for want of lines, in the last pool
\* and at the last level no more than in the first.
CollectNeverShort == reason # "collect"

\* The lines selected are lines of the pool, and there are always enough.
SelectionInv == TypeOK /\ CollectNeverShort

\* The classes were computed from page and offset apart; the acceptance
\* test computes them from whole addresses.  It never finds an overlap
\* other than the one asked for.
OverlapAsNamed == reason # "accept"

\* The lines the chain at r reaches from a root.
Reached(r, root) ==
    LET line[k \in Nat] == IF k = 0 THEN root ELSE pool[r].next[line[k - 1]]
    IN  {line[k] : k \in 0..Len(pool[r].lines)}

\* When the conditions run, the loops read exactly the selected lines: each
\* root is on a cycle, the cycles of one aggressor have no line in common,
\* and together they visit every line and none left from an earlier level.
ChainsCover ==
    At("run") =>
        \A r \in Roles :
            LET cycle == [s \in DOMAIN pool[r].roots |-> Reached(r, pool[r].roots[s])]
            IN  /\ UNION Range(cycle) = Range(pool[r].lines)
                /\ \A s, t \in DOMAIN cycle : s # t => cycle[s] \cap cycle[t] = {}
                /\ \A s \in DOMAIN cycle : \E a \in cycle[s] : pool[r].next[a] = pool[r].roots[s]

\* In the sweep, two levels that share a bank class use the same lines of
\* it, in whatever order the levels are run.
StableLines ==
    program = "sweep" /\ section = "verify" /\ pc = 1 =>
        LET class == [a \in Addresses(pagemap["aggressor"], Width) |->
                          address_bank_class(pool["aggressor"].pages, masks, Width, a)]
            lines(v, c) == {a \in seen[v] : class[a] = c}
        IN  \A c \in Range(class_space(masks)) : \A v, w \in Range(Levels) :
                lines(v, c) # {} /\ lines(w, c) # {} => lines(v, c) = lines(w, c)

\* An experiment that reports success had every page where it was from the
\* time the lines were chosen to the verification.
SuccessMeansUnmoved == rc = "success" /\ program # "worker" => early = {}

\* Every line the single-class worker reads is of its class, and none is in
\* a page it has given back.
WorkerKeepsToClass ==
    program = "worker" /\ At("run") =>
        \A a \in Range(pool["worker"].lines) :
            \/ <<"worker", a[1]>> \in moves
            \/ /\ read_one_pfn(pagemap["worker"][a[1]])
               /\ address_bank_class(pagemap["worker"], masks, Width, a) = cfg.target
=============================================================================
