---------------------------- MODULE OracleCpuMax ----------------------------
(***************************************************************************)
(* experiments/stage6_5/6_5f_control_cpumax/src/oracle_cpu_max_sweep.c:    *)
(* five candidates, of which the one with full overlap is limited to 75,   *)
(* 50, 25 and 10 percent of a CPU.                                         *)
(***************************************************************************)
EXTENDS OracleSteps, OracleClasses

candidate_name == Levels
Conditions == {"none", "uncontrolled", "cpu75", "cpu50", "cpu25", "cpu10"}
Swept == Conditions \ {"none", "uncontrolled"}

condition_cpu_allow_pct ==
    [none |-> 0, uncontrolled |-> 100, cpu75 |-> 75, cpu50 |-> 50, cpu25 |-> 25, cpu10 |-> 10]

quota_us(c, period) == (period * condition_cpu_allow_pct[c]) \div 100

\* Defect: a quota of zero is written.
Bug_NeverRefuses(c, period) == FALSE

\* run_condition gives up before it has done anything.
Refused(c, period) == c \in Swept /\ quota_us(c, period) = 0

throttled(c) == IF c \in Swept THEN {candidate_name[Len(candidate_name)]} ELSE {}

\* Defect: the limits are set when the candidates already run.
Bug_LimitLate(c) ==
    LET bg == IF c = "none" THEN <<>> ELSE candidate_name
    IN  ForEachAll(<<"spawn", "stopped">>, <<"victim">>)
        \o ForEachAll(<<"spawn", "stopped", "move">>, bg)
        \o ForEach("cont", bg)
        \o ForEach("limit", bg)
        \o ForEach("cont", <<"victim">>)
        \o ForEach("wait", <<"victim">> \o bg)
        \o ForEach("read", <<"victim">> \o bg)

\* A candidate is moved to its cgroup as soon as it has stopped.
run_condition(c) ==
    LET bg == IF c = "none" THEN <<>> ELSE candidate_name
    IN  ForEach("limit", bg)
        \o ForEachAll(<<"spawn", "stopped">>, <<"victim">>)
        \o ForEachAll(<<"spawn", "stopped", "move">>, bg)
        \o ForEach("cont", bg \o <<"victim">>)
        \o ForEach("wait", <<"victim">> \o bg)
        \o ForEach("read", <<"victim">> \o bg)

-----------------------------------------------------------------------------
(* main up to the chains, and at the end.                                  *)

\* The configurations that are accepted.
parse_args(cfg) == cfg.group > 0 /\ cfg.workset > 0 /\ cfg.group % 4 = 0 /\ cfg.apart

\* Six independent pools.
Pools == <<"victim">> \o candidate_name

load_mapping == <<Step("mapping", "main"), Step("quota", "main")>>
CreatePools == ForEach("pool", Pools)
CountClasses == ForEach("count", Pools)
ChooseClasses == <<Step("choose", "main")>>
CollectLines == ForEach("collect", Pools)
CheckOverlap ==
    ForEach("histogram", <<"victim">>) \o ForEachAll(<<"histogram", "accept">>, candidate_name)
BuildChains ==
    <<Step("permutation", "main"), Step("single", "victim")>> \o ForEach("multi", candidate_name)
setup ==
    load_mapping \o CreatePools \o CountClasses \o ChooseClasses \o CollectLines
    \o CheckOverlap \o BuildChains

loop == <<Step("run", "main")>>

\* Defect: only the victim's pages are looked at again.
Bug_VerifyVictim == ForEachAll(<<"verify", "stable">>, <<"victim">>)

\* Each pool is read and judged before the next.
verify == ForEachAll(<<"verify", "stable">>, Pools)

\* Every selected class must have enough lines in all six pools.
choose_class_sets(counts, masks, quota) ==
    Matching(class_space(masks), LAMBDA c : \A p \in Range(Pools) : counts[p][c] >= quota)

\* The classes of a candidate: the shared ones first, then disjoint ones.
background_classes(r, sets, group) ==
    LET shared == candidate_shared_classes(r, group)
    IN  IF r = "victim" THEN sets.victim
        ELSE SubSeq(sets.victim, 1, shared) \o SubSeq(sets.disjoint, 1, group - shared)

Accepted(r, victim, hist, group, quota) ==
    LevelIsExact(victim, hist, candidate_shared_classes(r, group), group, quota)
=============================================================================
