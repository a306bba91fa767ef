---------------------------- MODULE ProcActivity ----------------------------
(***************************************************************************)
(* protected-daemon/src/proc_activity.c: how active a process was between  *)
(* two samples of /proc/[pid]/stat.                                        *)
(*                                                                         *)
(* Only differences of the counters matter, so a sample keeps its start    *)
(* time (and, as a history, which process it is of), and a change says how *)
(* the counters of the two samples differ.  Times and counts are integers; *)
(* a score is an integer in 0..SCALE instead of a double in 0..1.          *)
(***************************************************************************)
EXTENDS Integers

CONSTANTS
    SCALE,
    active_cpu_ratio_threshold, active_faults_per_sec_threshold, min_rss_pages,
    major_fault_weight, cpu_ratio_full_scale, faults_per_sec_full_scale, rss_full_scale

ASSUME ActivityAssumption ==
    /\ SCALE \in Nat \ {0}
    /\ {active_cpu_ratio_threshold, active_faults_per_sec_threshold, min_rss_pages,
        major_fault_weight} \subseteq Nat
    /\ {cpu_ratio_full_scale, faults_per_sec_full_scale, rss_full_scale} \subseteq Nat \ {0}

Change == [elapsed : Nat, cpu : Int, minflt : Int, majflt : Int, rss_pages : Int,
           state : {"R", "D", "S", "Z"}]

\* clamp01(n / d).
clamp01(n, d) == IF n < 0 THEN 0 ELSE IF n >= d THEN SCALE ELSE (SCALE * n) \div d

weighted_faults(c) == c.minflt + major_fault_weight * c.majflt

\* Out of 10 * SCALE.
total_score(c) ==
    2 * clamp01(c.cpu, cpu_ratio_full_scale * c.elapsed)
    + 5 * clamp01(weighted_faults(c), faults_per_sec_full_scale * c.elapsed)
    + 3 * clamp01(c.rss_pages, rss_full_scale)

is_active(c) ==
    /\ c.state # "Z" /\ c.rss_pages >= min_rss_pages
    /\ \/ c.cpu >= active_cpu_ratio_threshold * c.elapsed
       \/ weighted_faults(c) >= active_faults_per_sec_threshold * c.elapsed
       \/ c.state \in {"R", "D"}

\* Defect: the samples are taken to be of one process.
Bug_DeltaIgnoresReuse(old, new, c) ==
    IF c.elapsed = 0 THEN "NON_MONOTONIC_TIME"
    ELSE IF c.cpu < 0 \/ c.minflt < 0 \/ c.majflt < 0 THEN "PARSE" ELSE "OK"

\* Return code of proc_activity_compute_delta.  A process that took over the
\* pid within one clock tick has the same start time.
compute_delta_rc(old, new, c) ==
    IF old.start # new.start THEN "PID_REUSED"
    ELSE IF c.elapsed = 0 THEN "NON_MONOTONIC_TIME"
    ELSE IF c.cpu < 0 \/ c.minflt < 0 \/ c.majflt < 0 THEN "PARSE" ELSE "OK"
=============================================================================
