------------------------ MODULE InterferenceDetector ------------------------
(***************************************************************************)
(* protected-daemon/src/interference_detector.c: one interval of the       *)
(* detector.  run_once merges the bank profiles of the protected processes,*)
(* samples the activity of the normal ones, and compares the profiles of   *)
(* the most active with the merged one.  Processes come and go all the     *)
(* while, and a pid may be taken over by another process.                  *)
(***************************************************************************)
EXTENDS BankProfile, ActivityPrefilter

CONSTANTS
    Listed,                    \* the caller's processes: a sequence of [pid, role]
    Changes,                   \* what may happen to a process between two samples
    Limits,                    \* settings of the two limits, [max_normal_candidates, out_cap]
    activity_score_threshold,  \* of 10 * SCALE
    overlap_score_threshold, throttle_score_threshold,   \* in percent
    MaxRuns,                   \* bound: intervals
    Mortal,                    \* bound: processes that may exit
    MaxExits,                  \* bound: how often that happens
    MaxFaults                  \* bound: samples that fail for no fault of the process

ASSUME DetectorAssumption ==
    /\ Changes \subseteq Change
    /\ Listed \in Seq([pid : Pids, role : {"NORMAL", "PROTECTED"}])
    /\ Limits \subseteq [max_normal_candidates : Nat, out_cap : Nat \ {0}]
    /\ MaxRuns \in Nat /\ MaxExits \in Nat /\ MaxFaults \in Nat

VARIABLES
    processes,        \* struct interference_process_state array; faulted: history,
                      \* sample_now failed for a process it could have sampled
    job,              \* the local variables of run_once, and which loop it is in
    limits,           \* the limit of the configuration and the size of the caller's array
    out, rc, stats,   \* what the caller is given
    runs, exits       \* bounded counters

runVars == <<processes, job, limits, out, rc, stats, runs>>
allVars == <<kernel, profVars, stat_files, runVars, exits>>

\* observed: history, what the loop over the normal processes has seen of each.
NoJob == [phase |-> "idle", i |-> 0, aggregate |-> bank_profile_reset, observed |-> <<>>,
          active |-> <<>>, produced |-> <<>>]
NoSample == [life |-> 0, start |-> -1]
Sampled(p) == p.sample # NoSample
NoStats == [protected_processes |-> 0, protected_profiles_built |-> 0, normal_processes |-> 0,
            activity_samples |-> 0, activity_errors |-> 0, active_normal_candidates |-> 0,
            normal_profiles_built |-> 0, profile_errors |-> 0, output_candidates |-> 0]

max_normal_candidates == limits.max_normal_candidates
out_cap == limits.out_cap

\* compare_active_candidate_desc.
Before(a, b) == a.score > b.score \/ (a.score = b.score /\ a.pid < b.pid)

\* Defect: the least active candidates come first.
Bug_Ascending(seq) == SortSeq(seq, LAMBDA a, b : Before(b, a))

\* qsort: the candidates in an order in which none comes before a better one.
Sorted(seq) ==
    LET I == 1..Len(seq)
        order == CHOOSE p \in [I -> I] :
                   /\ \A i \in I : \E k \in I : p[k] = i
                   /\ \A k, l \in I : k < l => ~Before(seq[p[l]], seq[p[k]])
    IN  [k \in I |-> seq[order[k]]]

\* Defect: the caller's array is taken to be large enough.
Bug_IgnoresOutCap(n) == IF max_normal_candidates > 0 THEN Smaller(n, max_normal_candidates) ELSE n

\* Of n active candidates, so many are profiled.
Limit(n) ==
    Smaller(out_cap, IF max_normal_candidates > 0 THEN Smaller(n, max_normal_candidates) ELSE n)

Count(field) == stats' = [stats EXCEPT ![field] = @ + 1]
Count2(f, g) == stats' = [stats EXCEPT ![f] = @ + 1, ![g] = @ + 1]

\* run_once returns.
Leave(code) == job' = NoJob /\ rc' = code

-----------------------------------------------------------------------------
\* run_once begins.  Whether the mapping is ready is up to the caller.
Begin ==
    /\ job.phase = "idle" /\ runs < MaxRuns
    /\ runs' = runs + 1
    /\ out' = <<>> /\ stats' = NoStats
    /\ \/ job' = [NoJob EXCEPT !.phase = "protected", !.i = 1] /\ UNCHANGED rc
       \/ Leave("NO_MAPPING")
    /\ UNCHANGED <<kernel, profVars, stat_files, exits, limits, processes>>

Current == processes[job.i]
Tracked(p, role) == p.alive /\ p.role = role

\* build_protected_aggregate_profile, one process.
ProfileProtected ==
    /\ job.phase = "protected" /\ build.pc = "idle" /\ job.i <= Len(processes)
    /\ IF Tracked(Current, "PROTECTED")
         THEN BuildOpen(Current.pid) /\ Count("protected_processes") /\ UNCHANGED job
         ELSE job' = [job EXCEPT !.i = @ + 1] /\ UNCHANGED <<profVars, stats>>
    /\ UNCHANGED <<kernel, stat_files, exits, limits, processes, out, rc, runs>>

MergeProtected ==
    /\ job.phase = "protected" /\ build.pc = "done"
    /\ BuildConsumed
    /\ LET merged == bank_profile_merge(job.aggregate, profile)
       IN  \/ /\ build.rc # "OK"
              /\ Count("profile_errors")
              /\ job' = [job EXCEPT !.i = @ + 1]
              /\ UNCHANGED rc
           \/ /\ build.rc = "OK" /\ merged.rc = "OK"
              /\ Count("protected_profiles_built")
              /\ job' = [job EXCEPT !.i = @ + 1, !.aggregate = merged.p]
              /\ UNCHANGED rc
           \/ /\ build.rc = "OK" /\ merged.rc # "OK"
              /\ Count("profile_errors")
              /\ Leave("PROFILE")
    /\ UNCHANGED <<kernel, stat_files, exits, limits, processes, out, runs>>

\* The aggregate is complete; calloc for the candidates may fail.
ProtectedEnd ==
    /\ job.phase = "protected" /\ build.pc = "idle" /\ job.i > Len(processes)
    /\ \/ job.aggregate.entries = <<>> /\ Leave("NO_PROTECTED_PROFILE")
       \/ job.aggregate.entries # <<>> /\ Leave("NO_MEMORY")
       \/ /\ job.aggregate.entries # <<>>
          /\ job' = [job EXCEPT !.phase = "collect", !.i = 1]
          /\ UNCHANGED rc
    /\ UNCHANGED <<kernel, profVars, stat_files, exits, limits, processes, out, stats, runs>>

\* Given up for good, whatever the reason.
Dropped(p, fault) == [p EXCEPT !.alive = FALSE, !.sample = NoSample, !.faulted = @ \/ fault]

\* sample_now fails: the process is gone or no descriptor is left for its
\* stat file; or, though neither is so, sysconf, the clock, the open or the
\* read fails, or the line cannot be parsed or has a negative counter.  Only
\* a failed read closes the stream; after a failure to parse it stays open.
SampleFails ==
    /\ \/ /\ ~Exists(Current.pid) \/ FilesOpen >= MaxFiles
          /\ processes' = [processes EXCEPT ![job.i] = Dropped(@, FALSE)]
          /\ UNCHANGED stat_files
       \/ /\ Cardinality({k \in 1..Len(processes) : processes[k].faulted}) < MaxFaults
          /\ Exists(Current.pid) /\ FilesOpen < MaxFiles
          /\ processes' = [processes EXCEPT ![job.i] = Dropped(@, TRUE)]
          /\ stat_files' \in {stat_files, stat_files + 1}
    /\ Count2("normal_processes", "activity_errors")
    /\ job' = [job EXCEPT !.i = @ + 1]

\* Defect: a sample that cannot be used means a dead process.
Bug_DropOnError(p, new, code) ==
    [p EXCEPT !.sample = IF code = "PID_REUSED" THEN NoSample ELSE new, !.alive = (code = "OK")]

\* The entry after two samples were compared: the new one is kept, except
\* that a reused pid starts over.
Resampled(p, new, code) == [p EXCEPT !.sample = IF code = "PID_REUSED" THEN NoSample ELSE new]

\* A first sample, or a second one to compare it with.  The stream that
\* proc_activity_sample_now opens is closed only if reading it fails.
SampleTaken ==
    LET new == [life |-> kernel[Current.pid].life, start |-> kernel[Current.pid].start]
    IN  /\ Exists(Current.pid) /\ FilesOpen < MaxFiles
        /\ stat_files' = stat_files + 1
        /\ \/ /\ ~Sampled(Current)
              /\ processes' = [processes EXCEPT ![job.i].sample = new]
              /\ Count2("normal_processes", "activity_samples")
              /\ job' = [job EXCEPT !.i = @ + 1]
           \/ /\ Sampled(Current)
              /\ \E c \in Changes :
                   LET code == compute_delta_rc(Current.sample, new, c)
                       score == total_score(c)
                       found == code = "OK" /\ is_active(c) /\ score >= activity_score_threshold
                   IN  /\ new.life = Current.sample.life => c.cpu >= 0 /\ c.minflt >= 0 /\ c.majflt >= 0
                       /\ processes' = [processes EXCEPT ![job.i] = Resampled(@, new, code)]
                       /\ stats' = [stats EXCEPT !.normal_processes = @ + 1, !.activity_samples = @ + 1,
                                      !.activity_errors = IF code = "OK" THEN @ ELSE @ + 1]
                       /\ job' = [job EXCEPT !.i = @ + 1,
                            !.observed = Append(@, [pid |-> Current.pid, valid |-> code = "OK", delta |-> c]),
                            !.active =
                                     IF found THEN Append(@, [pid |-> Current.pid, score |-> score,
                                                              of |-> {Current.sample, new}]) ELSE @]

\* collect_active_normal_candidates, one process.
Collect ==
    /\ job.phase = "collect" /\ job.i <= Len(processes)
    /\ IF Tracked(Current, "NORMAL")
         THEN SampleFails \/ SampleTaken
         ELSE job' = [job EXCEPT !.i = @ + 1] /\ UNCHANGED <<processes, stats, stat_files>>
    /\ UNCHANGED <<kernel, profVars, exits, limits, out, rc, runs>>

CollectEnd ==
    /\ job.phase = "collect" /\ job.i > Len(processes)
    /\ job' = [job EXCEPT !.phase = "overlap", !.i = 1, !.observed = <<>>, !.active = Sorted(@)]
    /\ stats' = [stats EXCEPT !.active_normal_candidates = Len(job.active)]
    /\ UNCHANGED <<kernel, profVars, stat_files, exits, limits, processes, out, rc, runs>>

ProfileCandidate ==
    /\ job.phase = "overlap" /\ build.pc = "idle" /\ job.i <= Limit(Len(job.active))
    /\ BuildOpen(job.active[job.i].pid)
    /\ UNCHANGED <<kernel, stat_files, exits, runVars>>

should_throttle(score, o) ==
    /\ 100 * o.common >= overlap_score_threshold * o.union
    /\ 100 * score * o.common >= throttle_score_threshold * 10 * SCALE * o.union

\* The candidate as it is handed out.
Judged(c, o) ==
    [pid |-> c.pid, score |-> c.score, common_pages |-> o.common,
     should_throttle |-> should_throttle(c.score, o)]

\* Defect: a profile that could not be built counts as built.
Bug_JudgeMiscounts ==
    /\ job.phase = "overlap" /\ build.pc = "done"
    /\ BuildConsumed
    /\ Count("normal_profiles_built")
    /\ job' = IF build.rc # "OK" THEN [job EXCEPT !.i = @ + 1]
              ELSE [job EXCEPT !.i = @ + 1, !.produced = Append(@, Judged(job.active[job.i],
                      bank_profile_overlap_score(job.aggregate, profile)))]
    /\ UNCHANGED <<kernel, stat_files, exits, limits, processes, out, rc, runs>>

\* One candidate of run_once's last loop.  The overlap score cannot fail:
\* both profiles have entries (OverlapIsJaccard).
JudgeCandidate ==
    /\ job.phase = "overlap" /\ build.pc = "done"
    /\ BuildConsumed
    /\ \/ /\ build.rc # "OK"
          /\ Count("profile_errors")
          /\ job' = [job EXCEPT !.i = @ + 1]
       \/ /\ build.rc = "OK"
          /\ Count("normal_profiles_built")
          /\ job' = [job EXCEPT !.i = @ + 1, !.produced = Append(@, Judged(job.active[job.i],
                       bank_profile_overlap_score(job.aggregate, profile)))]
    /\ UNCHANGED <<kernel, stat_files, exits, limits, processes, out, rc, runs>>

End ==
    /\ job.phase = "overlap" /\ build.pc = "idle" /\ job.i > Limit(Len(job.active))
    /\ Leave("OK")
    /\ out' = job.produced
    /\ stats' = [stats EXCEPT !.output_candidates = Len(job.produced)]
    /\ UNCHANGED <<kernel, profVars, stat_files, exits, limits, processes, runs>>

-----------------------------------------------------------------------------
(* The system around the detector.                                         *)

Exit(p) ==
    /\ p \in Mortal /\ Exists(p) /\ exits < MaxExits
    /\ exits' = exits + 1
    /\ kernel' = [kernel EXCEPT ![p].exists = FALSE]
    /\ UNCHANGED <<profVars, stat_files, runVars>>

\* Another process gets the pid, in a later clock tick or in the same one.
Reuse(p) ==
    /\ ~Exists(p)
    /\ \E start \in {kernel[p].start, kernel[p].start + 1} :
         kernel' = [kernel EXCEPT ![p] = [exists |-> TRUE, life |-> @.life + 1, start |-> start]]
    /\ UNCHANGED <<profVars, stat_files, runVars, exits>>

Init ==
    /\ kernel = [p \in Pids |-> [exists |-> TRUE, life |-> 1, start |-> 0]]
    /\ profile = bank_profile_reset /\ build = Idle /\ build_files = {} /\ stat_files = 0
    /\ processes = [k \in 1..Len(Listed) |->
                      [pid |-> Listed[k].pid, role |-> Listed[k].role, alive |-> TRUE, sample |-> NoSample,
                       faulted |-> FALSE]]
    /\ limits \in Limits
    /\ job = NoJob /\ out = <<>> /\ rc = "OK" /\ stats = NoStats
    /\ runs = 0 /\ exits = 0

Build == BuildStep /\ UNCHANGED <<kernel, stat_files, exits, runVars>>

Next ==
    \/ Begin \/ ProfileProtected \/ MergeProtected \/ ProtectedEnd
    \/ Collect \/ CollectEnd \/ ProfileCandidate \/ JudgeCandidate \/ End
    \/ Build
    \/ \E p \in Pids : Exit(p) \/ Reuse(p)

Spec == Init /\ [][Next]_allVars

-----------------------------------------------------------------------------
(* Properties.                                                             *)

\* Types, and the bounds of the caller's array.
TypeOK ==
    /\ build.pc \in {"idle", "opening", "maps", "pages", "ending", "done"}
    /\ build_files \subseteq {"maps", "pagemap"} /\ stat_files \in 0..MaxFiles
    /\ job.phase \in {"idle", "protected", "collect", "overlap"}
    /\ Len(out) <= out_cap /\ Len(job.produced) <= out_cap
    /\ Len(profile.entries) <= BANK_PROFILE_MAX_ENTRIES

\* bank_profile.c accounts for every page it samples, in one process and in
\* the merged profile, also when the process goes away meanwhile, and the
\* merged profile fits its array.
PagesAccounted ==
    /\ build.rc = "OK" => PagesAdd(profile)
    /\ job.phase \in {"protected", "collect", "overlap"} => PagesAdd(job.aggregate)
    /\ Len(job.aggregate.entries) <= BANK_PROFILE_MAX_ENTRIES

\* max_pages_to_sample bounds what is read of one process, over all its regions.
SampleBudgetKept == max_pages_to_sample > 0 => profile.pages_sampled <= max_pages_to_sample

\* However bank_profile_build ends, it leaves neither of its files open.
BuildClosesFiles == build.pc \in {"idle", "done"} => build_files = {}

\* The loops of bank_profile_overlap_score compute the common pages and the
\* union over all classes of both histograms, and the union is never empty.
OverlapIsJaccard ==
    job.phase = "overlap" /\ build.pc = "done" /\ build.rc = "OK" =>
        /\ bank_profile_overlap_score(job.aggregate, profile) = Jaccard(job.aggregate, profile)
        /\ Jaccard(job.aggregate, profile).union > 0

\* The histograms are right, of one process and merged, and so is the
\* overlap of the two that run_once compares.
HistogramsInv == PagesAccounted /\ OverlapIsJaccard

\* The score of a candidate compares two samples of one process, even when
\* pids are reused between the samples; only a process that took over the
\* pid within one clock tick cannot be told apart.
ScoreIsOfOneProcess ==
    \A k \in 1..Len(job.active) : \A s, t \in job.active[k].of :
        s.life = t.life \/ s.start = t.start

\* No candidate left out for lack of room was more active than one examined.
BestAreExamined ==
    job.phase = "overlap" =>
        LET limit == Limit(Len(job.active))
        IN  \A k \in 1..limit, l \in limit + 1..Len(job.active) : ~Before(job.active[l], job.active[k])

\* After a run without error the counters of stats add up: every profile
\* that was tried was built or counted as an error, and every one built for
\* a candidate led to an output.
StatsAddUp ==
    job.phase = "idle" /\ rc = "OK" /\ runs > 0 =>
        /\ stats.output_candidates = Len(out) /\ stats.normal_profiles_built = Len(out)
        /\ stats.profile_errors = (stats.protected_processes - stats.protected_profiles_built)
                                  + (Limit(stats.active_normal_candidates) - Len(out))
        /\ stats.activity_samples <= stats.normal_processes
        /\ stats.normal_processes - stats.activity_samples <= stats.activity_errors

\* What a run hands out is accounted for: no buffer overflows, no process is
\* sampled beyond the budget, files are closed, the most active candidates
\* are the ones examined, and the counters add up.
DetectorInv ==
    TypeOK /\ SampleBudgetKept /\ BuildClosesFiles /\ BestAreExamined /\ StatsAddUp

\* A process that has been running all the time stays on the detector's list
\* of live processes unless reading or parsing its own stat file failed:
\* collect_active_normal_candidates gives it up neither for samples it cannot
\* compare (a reused pid, a clock that stands still, a counter that went
\* back) nor for what happened to other processes.
TrackedWhileAlive ==
    \A k \in 1..Len(processes) :
        /\ kernel[processes[k].pid] = [exists |-> TRUE, life |-> 1, start |-> 0]
        /\ ~processes[k].faulted
        => processes[k].alive

\* Activity needs more than nothing and, as with the defaults, the prefilter
\* asks for no more resident pages than the detector.
SettingsAgree ==
    /\ 0 \notin {active_cpu_ratio_threshold, active_faults_per_sec_threshold, min_rss_pages}
    /\ prefilter_min_rss_pages <= min_rss_pages

\* A process that the detector finds active would pass the screening of
\* activity_prefilter.c as well: with room for all of them the prefilter
\* drops none, so putting it in front of the detector loses no candidate if
\* the two modules' separate settings agree.
PrefilterKeepsActive ==
    job.phase = "collect" /\ SettingsAgree =>
        \A k \in 1..Len(job.active) :
            LET passed == activity_prefilter_select_topk(job.observed, 0, Len(job.observed)).out
            IN  \E l \in 1..Len(passed) : passed[l].pid = job.active[k].pid

\* For every limit and every size of the caller's array, select_topk hands
\* out the best candidates or, if they do not fit, none; every valid
\* observation is counted once, and a process left out for the limit does
\* not outrank one handed out.
PrefilterSelectsBest ==
    job.phase = "collect" => \A limit \in 0..2, cap \in 0..2 :
        LET r == activity_prefilter_select_topk(job.observed, limit, cap)
            all == activity_prefilter_select_topk(job.observed, 0, Len(job.observed)).out
            handed == {r.out[l] : l \in 1..Len(r.out)}
        IN  /\ r.rc = "OK" =>
                 /\ limit > 0 => Len(r.out) <= limit
                 /\ limit = 0 \/ Len(r.out) < limit => Len(r.out) = Len(all)
                 /\ \A a \in handed, l \in 1..Len(all) :
                      all[l] \in handed \/ ~compare_candidate_desc(all[l], a)
            /\ r.rc # "OK" => r.out = <<>>
            /\ r.stats.valid_observations =
                 r.stats.excluded_zombie + r.stats.excluded_small_rss
                 + r.stats.excluded_no_signal + r.stats.eligible_candidates
=============================================================================
