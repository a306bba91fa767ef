----------------------- MODULE MCInterferenceDetector -----------------------
(* Two protected and two normal processes; three bank classes for two      *)
(* entries; of each region every second page is sampled.                   *)
EXTENDS InterferenceDetector

MCListed == <<[pid |-> 1, role |-> "PROTECTED"], [pid |-> 2, role |-> "PROTECTED"],
              [pid |-> 3, role |-> "NORMAL"], [pid |-> 4, role |-> "NORMAL"]>>
MCManyNormal == <<[pid |-> 1, role |-> "PROTECTED"], [pid |-> 2, role |-> "NORMAL"],
                  [pid |-> 3, role |-> "NORMAL"], [pid |-> 4, role |-> "NORMAL"]>>
\* The configuration's limit, and the caller's array.
MCLimits == {[max_normal_candidates |-> 1, out_cap |-> 2], [max_normal_candidates |-> 0, out_cap |-> 1]}
MCRegions == {[kind |-> "heap", perms |-> "rw", pages |-> 3], [kind |-> "file", perms |-> "r", pages |-> 1]}
MCPageEntries ==
    {[readable |-> TRUE, present |-> TRUE, swapped |-> FALSE, pfn |-> f] : f \in 1..3}
    \cup {[readable |-> TRUE, present |-> FALSE, swapped |-> TRUE, pfn |-> 0]}
MCClassOf == <<"a", "b", "c">>
Busy == [elapsed |-> 1, cpu |-> 1, minflt |-> 0, majflt |-> 0, rss_pages |-> 3, state |-> "R"]
Faulting == [elapsed |-> 2, cpu |-> 0, minflt |-> 2, majflt |-> 1, rss_pages |-> 2, state |-> "S"]
Sleeping == [elapsed |-> 1, cpu |-> 0, minflt |-> 0, majflt |-> 0, rss_pages |-> 2, state |-> "S"]
AtOnce == [Busy EXCEPT !.elapsed = 0]
Younger == [Busy EXCEPT !.cpu = -1]
Gone == [Sleeping EXCEPT !.state = "Z", !.rss_pages = 0]
Swapped == [Busy EXCEPT !.rss_pages = 0]
Small == [Busy EXCEPT !.rss_pages = 1]
MCChanges == {Busy, Faulting, Sleeping, AtOnce, Younger, Gone, Swapped, Small}
=============================================================================
