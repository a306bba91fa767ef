------------------------- MODULE ActivityPrefilter -------------------------
(***************************************************************************)
(* protected-daemon/src/activity_prefilter.c: a cheap choice of the        *)
(* processes worth a closer look.  An observation is a process's latest    *)
(* sample and its change since the one before, valid if both are and are   *)
(* of that process.  Its configuration has a min_rss_pages of its own, 1 by *)
(* default; that of proc_activity.c is 256.                                *)
(***************************************************************************)
EXTENDS ProcActivity, SequencesExt

CONSTANT prefilter_min_rss_pages    \* min_rss_pages of activity_prefilter_config

ASSUME PrefilterAssumption == prefilter_min_rss_pages \in Nat

observation_is_valid(obs) == obs.pid > 0 /\ obs.valid

\* Defect: only CPU time counts as activity.
Bug_CpuOnly(obs) == obs.delta.cpu > 0 \/ obs.delta.state \in {"R", "D"}

has_cheap_activity_signal(obs) ==
    \/ obs.delta.cpu > 0
    \/ obs.delta.minflt > 0 \/ obs.delta.majflt > 0
    \/ obs.delta.state \in {"R", "D"}

Zombie(obs) == obs.delta.state = "Z"
SmallRss(obs) == obs.delta.rss_pages <= 0 \/ obs.delta.rss_pages < prefilter_min_rss_pages

activity_prefilter_is_eligible(obs) ==
    /\ observation_is_valid(obs)
    /\ ~Zombie(obs) /\ ~SmallRss(obs)
    /\ has_cheap_activity_signal(obs)

\* max3 of the scores of CPU time, faults and resident memory.
screening_score(c) ==
    Max({clamp01(c.cpu, cpu_ratio_full_scale * c.elapsed),
         clamp01(weighted_faults(c), faults_per_sec_full_scale * c.elapsed),
         clamp01(c.rss_pages, rss_full_scale)})

compare_candidate_desc(a, b) ==
    a.screening_score > b.screening_score
    \/ (a.screening_score = b.screening_score /\ a.pid < b.pid)

\* The candidate made of observation i.
Cheap(observations, i) ==
    [pid |-> observations[i].pid, screening_score |-> screening_score(observations[i].delta)]

\* Defect: the observations are handed out in the order they came.
Bug_Unsorted(observations, eligible) == [k \in 1..Cardinality(eligible) |->
    Cheap(observations, CHOOSE i \in eligible : Cardinality({j \in eligible : j <= i}) = k)]

\* qsort: the eligible observations in an order in which none comes before a
\* better one.
Ranked(observations, eligible) ==
    LET N == 1..Cardinality(eligible)
        order == CHOOSE p \in [N -> eligible] :
                   /\ \A i \in eligible : \E k \in N : p[k] = i
                   /\ \A k, l \in N : k < l =>
                        ~compare_candidate_desc(Cheap(observations, p[l]), Cheap(observations, p[k]))
    IN  [k \in N |-> Cheap(observations, order[k])]

\* The counters; a zombie is not looked at further, nor a process without memory.
Stats(observations, eligible) ==
    LET valid == {i \in DOMAIN observations : observation_is_valid(observations[i])}
        zombie == {i \in valid : Zombie(observations[i])}
        small == {i \in valid \ zombie : SmallRss(observations[i])}
        silent == {i \in valid \ (zombie \cup small) : ~activity_prefilter_is_eligible(observations[i])}
    IN  [observations |-> Len(observations), valid_observations |-> Cardinality(valid),
         excluded_zombie |-> Cardinality(zombie), excluded_small_rss |-> Cardinality(small),
         excluded_no_signal |-> Cardinality(silent), eligible_candidates |-> Cardinality(eligible)]

\* max_candidates = 0 means no limit.  Either all selected candidates fit the
\* caller's array or none is handed out.
activity_prefilter_select_topk(observations, max_candidates, out_cap_) ==
    LET eligible == {i \in DOMAIN observations : activity_prefilter_is_eligible(observations[i])}
        found == Cardinality(eligible)
        selected == IF max_candidates > 0 /\ found > max_candidates THEN max_candidates ELSE found
    IN  [rc |-> IF out_cap_ < selected THEN "NO_SPACE" ELSE "OK",
         out |-> IF out_cap_ < selected THEN <<>> ELSE SubSeq(Ranked(observations, eligible), 1, selected),
         stats |-> Stats(observations, eligible)]
=============================================================================
