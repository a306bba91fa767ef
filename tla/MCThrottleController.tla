------------------------ MODULE MCThrottleController ------------------------
EXTENDS ThrottleController, TLC

PidSymmetry == Permutations(Pids)

\* A caller that knows one configuration.  With a nanosecond for a
\* millisecond its minimum duration is longer than the two others.
Usual == [max_records |-> 2, low_score_threshold |-> 1, high_score_threshold |-> 2,
          min_throttle_duration_ms |-> 2, cooldown_duration_ms |-> 1, stale_after_ms |-> 1,
          dry_run |-> FALSE,
          configure_throttled_cpu_max |-> TRUE, configure_protected_memory_low |-> TRUE]
OneConfig == {Usual}

\* The same with room for fewer records than there are processes.
OneSmallConfig == {[Usual EXCEPT !.max_records = 1]}

\* A caller that tries several, with two nanoseconds for a millisecond: one
\* under which every process has a record and whoever is not a candidate is
\* stale at once; one whose array fills up and whose minimum duration is so
\* long that its nanoseconds exceed UINT64_MAX; that one again as a dry run;
\* and one that init refuses.
Roomy == [Usual EXCEPT !.min_throttle_duration_ms = 1, !.stale_after_ms = 0]
Tight == [Usual EXCEPT !.max_records = 1, !.min_throttle_duration_ms = 5]
SeveralConfigs == {Roomy, Tight, [Tight EXCEPT !.dry_run = TRUE], [Usual EXCEPT !.max_records = 0]}
=============================================================================
