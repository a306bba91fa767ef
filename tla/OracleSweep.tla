----------------------------- MODULE OracleSweep -----------------------------
(***************************************************************************)
(* experiments/stage6_5/6_5c_bank_overlap/src/oracle_bank_overlap_sweep.c: *)
(* one aggressor, whose share of the victim's banks is swept; its lines    *)
(* and its pointer chain are made anew, in one pool, for every condition.  *)
(***************************************************************************)
EXTENDS OracleSteps, OracleClasses

candidate_name == <<"aggressor">>
Conditions == {"none", "o0", "o25", "o50", "o75", "o100"}

\* main prepares the aggressor's lines before it calls run_condition.
prepare(c) == IF c = "none" THEN <<>> ELSE <<Step("build", "aggressor")>>

run_condition(c) ==
    LET bg == IF c = "none" THEN <<>> ELSE candidate_name
    IN  ForEachAll(<<"spawn", "stopped">>, <<"victim">> \o bg)
        \o ForEach("cont", bg \o <<"victim">>)
        \o ForEach("wait", <<"victim">> \o bg)
        \o ForEach("read", <<"victim">> \o bg)

-----------------------------------------------------------------------------
(* main up to the chains, for every level, and at the end.                 *)

\* The configurations that are accepted, here or at the head of main.
parse_args(cfg) == cfg.group > 0 /\ cfg.workset > 0 /\ cfg.group % 4 = 0

\* The aggressor's pool is used again for every level.
Pools == <<"victim", "aggressor">>

load_mapping == <<Step("mapping", "main"), Step("quota", "main")>>
CreatePools == ForEach("pool", Pools)
CountClasses == ForEach("count", Pools)
ChooseClasses == <<Step("choose", "main")>>
VictimLines ==
    ForEachAll(<<"collect", "histogram", "accept">>, <<"victim">>)
    \o <<Step("permutation", "main"), Step("single", "victim")>>
setup == load_mapping \o CreatePools \o CountClasses \o ChooseClasses \o VictimLines

\* A level: its classes, its lines, their test, their chains.
NewLines == ForEachAll(<<"level", "collect">>, <<"aggressor">>)
TestLines == ForEachAll(<<"histogram", "accept">>, <<"aggressor">>)
loop == NewLines \o TestLines \o <<Step("multi", "aggressor"), Step("run", "main")>>

\* Both pools are read before they are judged.
verify == ForEach("verify", Pools) \o <<Step("stable", "main")>>

choose_base_class_sets(counts, masks, quota) ==
    Matching(class_space(masks),
              LAMBDA c : counts["victim"][c] >= quota /\ counts["aggressor"][c] >= quota)

condition_shared_classes(level, group) == candidate_shared_classes(level, group)

build_overlap_classes(sets, group, shared) ==
    SubSeq(sets.victim, 1, shared) \o SubSeq(sets.disjoint, 1, group - shared)

classes_of(r, sets, group, level) ==
    IF r = "victim" THEN sets.victim
    ELSE build_overlap_classes(sets, group, condition_shared_classes(level, group))

Accepted(r, victim, hist, group, quota, level) ==
    IF r = "victim" THEN histogram_unique_classes(hist) = group
    ELSE LevelIsExact(victim, hist, condition_shared_classes(level, group), group, quota)

\* Defect: every level has a seed of its own.
Bug_SeedPerLevel(r, level) == IF r = "victim" THEN 3 ELSE 4 + condition_shared_classes(level, 4)

\* The selection order of the aggressor's lines is the same for every level.
select_seed(r, level) == IF r = "victim" THEN 3 ELSE 4
=============================================================================
