--------------------------- MODULE OracleSelective ---------------------------
(***************************************************************************)
(* experiments/stage6_5/6_5d_selective_control/src/                        *)
(* oracle_selective_control.c: one aggressor on the victim's banks         *)
(* ("high") and one on other banks ("low"); the first is limited, or both. *)
(***************************************************************************)
EXTENDS OracleSteps, OracleClasses

candidate_name == <<"high", "low">>
Conditions == {"none", "uncontrolled", "selective", "all"}

throttled(c) ==
    {a \in {"high", "low"} : (a = "high" /\ c = "selective") \/ c = "all"}

\* Defect: the victim is let go first.
Bug_VictimFirst(c) ==
    LET bg == IF c = "none" THEN <<>> ELSE candidate_name
    IN  ForEach("limit", bg)
        \o ForEachAll(<<"spawn", "stopped">>, <<"victim">> \o bg)
        \o ForEach("move", bg)
        \o ForEach("cont", <<"victim">> \o bg)
        \o ForEach("wait", <<"victim">> \o bg)
        \o ForEach("read", <<"victim">> \o bg)

\* Both workers are stopped before either is moved.
run_condition(c) ==
    LET bg == IF c = "none" THEN <<>> ELSE candidate_name
    IN  ForEach("limit", bg)
        \o ForEachAll(<<"spawn", "stopped">>, <<"victim">> \o bg)
        \o ForEach("move", bg)
        \o ForEach("cont", bg \o <<"victim">>)
        \o ForEach("wait", <<"victim">> \o bg)
        \o ForEach("read", <<"victim">> \o bg)

-----------------------------------------------------------------------------
(* main up to the chains, and at the end.                                  *)

\* The configurations that are accepted.
parse_args(cfg) == cfg.group > 0 /\ cfg.workset > 0 /\ cfg.apart /\ cfg.fits

\* Three independent pools.
Pools == <<"victim", "high", "low">>

load_mapping == <<Step("mapping", "main"), Step("quota", "main")>>
CreatePools == ForEach("pool", Pools)
CountClasses == ForEach("count", Pools)
ChooseClasses == <<Step("choose", "main")>>
CollectLines == ForEach("collect", Pools)
CheckOverlap == ForEach("histogram", Pools) \o ForEach("accept", <<"high", "low">>)
BuildChains ==
    <<Step("permutation", "main"), Step("single", "victim")>> \o ForEach("multi", <<"high", "low">>)
setup ==
    load_mapping \o CreatePools \o CountClasses \o ChooseClasses \o CollectLines
    \o CheckOverlap \o BuildChains

loop == <<Step("run", "main")>>

\* All pools are read before they are judged.
verify == ForEach("verify", Pools) \o <<Step("stable", "main")>>

\* Defect: only the victim's pool has to have enough lines.
Bug_VictimEligible(counts, masks, quota) ==
    Matching(class_space(masks), LAMBDA c : counts["victim"][c] >= quota)

\* One eligibility set for the victim and both aggressors.
choose_class_sets(counts, masks, quota) ==
    Matching(class_space(masks),
              LAMBDA c : /\ counts["victim"][c] >= quota
                         /\ counts["high"][c] >= quota
                         /\ counts["low"][c] >= quota)

classes_of(r, sets) == IF r = "low" THEN sets.disjoint ELSE sets.victim

\* Equal histograms of victim and high, and none in common with low.
Accepted(r, victim, hist) ==
    IF r = "high" THEN hist = victim ELSE Intersection(victim, hist) = 0
=============================================================================
