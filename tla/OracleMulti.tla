----------------------------- MODULE OracleMulti -----------------------------
(***************************************************************************)
(* experiments/stage6_5/6_5e_multicandidate_control/src/                   *)
(* oracle_multicandidate_control.c: five candidates, of which different    *)
(* sets are limited to one quota.                                          *)
(***************************************************************************)
EXTENDS OracleSteps, OracleClasses

candidate_name == Levels
Conditions == {"none", "uncontrolled", "lowest", "highest", "top2", "all"}

throttled(c) ==
    CASE c = "lowest" -> {candidate_name[1]}
      [] c = "highest" -> {candidate_name[5]}
      [] c = "top2" -> {candidate_name[4], candidate_name[5]}
      [] c = "all" -> Range(candidate_name)
      [] c \in {"none", "uncontrolled"} -> {}

\* Defect: the stop of the victim is not waited for.
Bug_NoStopWait(c) ==
    LET bg == IF c = "none" THEN <<>> ELSE candidate_name
    IN  ForEach("limit", bg)
        \o ForEach("spawn", <<"victim">>)
        \o ForEachAll(<<"spawn", "stopped", "move">>, bg)
        \o ForEach("cont", bg \o <<"victim">>)
        \o ForEach("wait", <<"victim">> \o bg)
        \o ForEach("read", <<"victim">> \o bg)

run_condition(c) ==
    LET bg == IF c = "none" THEN <<>> ELSE candidate_name
    IN  ForEach("limit", bg)
        \o ForEachAll(<<"spawn", "stopped">>, <<"victim">>)
        \o ForEachAll(<<"spawn", "stopped", "move">>, bg)
        \o ForEach("cont", bg \o <<"victim">>)
        \o ForEach("wait", <<"victim">> \o bg)
        \o ForEach("read", <<"victim">> \o bg)

-----------------------------------------------------------------------------
(* main up to the chains, and at the end.                                  *)

\* The configurations that are accepted.
parse_args(cfg) == cfg.group > 0 /\ cfg.workset > 0 /\ cfg.group % 4 = 0 /\ cfg.apart /\ cfg.fits

\* Six independent pools.
Pools == <<"victim">> \o candidate_name

load_mapping == <<Step("mapping", "main"), Step("quota", "main")>>
CreatePools == ForEach("pool", Pools)
CountClasses == ForEach("count", Pools)
ChooseClasses == <<Step("choose", "main")>>
CollectLines == ForEach("collect", Pools)
CheckOverlap ==
    ForEach("histogram", <<"victim">>) \o ForEachAll(<<"histogram", "accept">>, candidate_name)
BuildChains ==
    <<Step("permutation", "main"), Step("single", "victim")>> \o ForEach("multi", candidate_name)
setup ==
    load_mapping \o CreatePools \o CountClasses \o ChooseClasses \o CollectLines
    \o CheckOverlap \o BuildChains

loop == <<Step("run", "main")>>

\* Each pool is read and judged before the next.
verify == ForEachAll(<<"verify", "stable">>, Pools)

\* Every selected class must have enough lines in all six pools.
choose_class_sets(counts, masks, quota) ==
    Matching(class_space(masks), LAMBDA c : \A p \in Range(Pools) : counts[p][c] >= quota)

\* The classes of a candidate: the shared ones first, then disjoint ones.
background_classes(r, sets, group) ==
    LET shared == candidate_shared_classes(r, group)
    IN  IF r = "victim" THEN sets.victim
        ELSE SubSeq(sets.victim, 1, shared) \o SubSeq(sets.disjoint, 1, group - shared)

Accepted(r, victim, hist, group, quota) ==
    LevelIsExact(victim, hist, candidate_shared_classes(r, group), group, quota)
=============================================================================
