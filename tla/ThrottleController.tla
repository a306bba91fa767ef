------------------------- MODULE ThrottleController -------------------------
(***************************************************************************)
(* protected-daemon/src/throttle_controller.c: the controller that moves   *)
(* interfering processes to the throttled cgroup and back.                 *)
(*                                                                         *)
(* The code stores the monotonic times at which a record was last seen and *)
(* last changed state, and only ever compares "now - then" with a          *)
(* duration.  A record here keeps the difference, which Tick advances up   *)
(* to the bound AgeCap.  The record array is a function from pid to        *)
(* record: its order never matters, because each record is settled on its  *)
(* own.  Reasons, statistics and the scores kept for display are left out. *)
(***************************************************************************)
EXTENDS Integers, FiniteSets

CONSTANTS
    Pids,                       \* process ids
    Configs,                    \* the configurations a caller passes to init, refused ones included
    Scores,                     \* final scores a candidate can carry
    NSEC_PER_MSEC,
    UINT64_MAX,
    AgeCap,                     \* bound: ages saturate here
    FaultsAllowed               \* may cgroup writes of live pids, the clock or the caller's list be bad?

\* struct throttle_controller_config; a dry run decides, but never touches a cgroup.
Config == [max_records : Nat,
           low_score_threshold : Nat, high_score_threshold : Nat,
           min_throttle_duration_ms : Nat, cooldown_duration_ms : Nat, stale_after_ms : Nat,
           dry_run : BOOLEAN,
           configure_throttled_cpu_max : BOOLEAN, configure_protected_memory_low : BOOLEAN]

ASSUME ConfigAssumption ==
    /\ Configs \subseteq Config
    /\ IsFiniteSet(Pids)
    /\ Scores \subseteq Nat
    /\ NSEC_PER_MSEC \in Nat \ {0} /\ UINT64_MAX \in Nat
    /\ AgeCap \in Nat /\ AgeCap < UINT64_MAX
    /\ FaultsAllowed \in BOOLEAN

VARIABLES
    initialized,  \* controller->initialized
    cfg,          \* controller->cfg; read only while initialized
    records,      \* pid -> record, for the pids that have one
    cpu_max,      \* has cpu.max of the throttled group been written?
    cgroup,       \* pid -> cgroup of the live process, or "absent"
    moved,        \* history: where this controller last put the process, and when
    offered,      \* pids of the last candidate list the caller passed
    ret           \* last call, its return code and the pids whose cgroup write failed in it

controller == <<initialized, cfg, records>>
system == <<cpu_max, cgroup, moved>>
vars == <<initialized, cfg, records, cpu_max, cgroup, moved, offered, ret>>

max_records == cfg.max_records
low_score_threshold == cfg.low_score_threshold
high_score_threshold == cfg.high_score_threshold
min_throttle_duration_ms == cfg.min_throttle_duration_ms
cooldown_duration_ms == cfg.cooldown_duration_ms
stale_after_ms == cfg.stale_after_ms
dry_run == cfg.dry_run
configure_throttled_cpu_max == cfg.configure_throttled_cpu_max

Age == 0..AgeCap
Record == [state : {"NONE", "THROTTLED", "COOLDOWN"}, seen : Age, entered : Age]
CgroupName == {"absent", "BACKGROUND", "THROTTLED"}
Move == [to : {"none", "BACKGROUND", "THROTTLED"}, age : Age, by : {"none", "apply", "release_all"}]
NotMoved == [to |-> "none", age |-> 0, by |-> "none"]

\* One candidate: its final score, and active /\ should_throttle.
Candidate == [score : Scores, asks : BOOLEAN]
\* Candidate lists that pass candidate_valid and name no pid twice.
CandidateList == UNION {[S -> Candidate] : S \in SUBSET Pids}

Returned(op, code) == [op |-> op, code |-> code, failed |-> {}]

Alive == {p \in Pids : cgroup[p] # "absent"}
NoRecords == [p \in {} |-> p]

-----------------------------------------------------------------------------
(* Time.                                                                   *)

\* Defect: the product wraps around.
Bug_Wraps(ms) == (ms * NSEC_PER_MSEC) % (UINT64_MAX + 1)

\* Saturating conversion.
ms_to_ns(ms) == IF ms > UINT64_MAX \div NSEC_PER_MSEC THEN UINT64_MAX ELSE ms * NSEC_PER_MSEC

elapsed_at_least(age, ms) == age >= ms_to_ns(ms)

-----------------------------------------------------------------------------
(* What apply_candidates decides for one record.                           *)

candidate_requests_throttle(c) == c.asks /\ c.score >= high_score_threshold

create_record == [state |-> "NONE", seen |-> 0, entered |-> 0]

RecordOf(p) == IF p \in DOMAIN records THEN records[p] ELSE create_record

MayRelease(r, c) ==
    /\ r.state = "THROTTLED"
    /\ c.score <= low_score_threshold
    /\ elapsed_at_least(r.entered, min_throttle_duration_ms)

\* Defect: a request to throttle is honoured during cooldown.
Bug_NoCooldown(r, c) ==
    IF r.state # "THROTTLED" /\ candidate_requests_throttle(c) THEN "throttle"
    ELSE IF MayRelease(r, c) THEN "release" ELSE "keep"

\* The move attempted for a record whose pid is a candidate.
DecideSeen(r, c) ==
    IF /\ \/ r.state = "NONE"
          \/ r.state = "COOLDOWN" /\ elapsed_at_least(r.entered, cooldown_duration_ms)
       /\ candidate_requests_throttle(c)
      THEN "throttle"
    ELSE IF MayRelease(r, c) THEN "release" ELSE "keep"

\* Defect: a stale record is released however briefly it was throttled.
Bug_StaleIgnoresMin(r) ==
    IF r.state = "THROTTLED" /\ elapsed_at_least(r.seen, stale_after_ms)
      THEN "release" ELSE "keep"

\* Defect: a record that is not a candidate is never released.
Bug_NoStaleRelease(r) == "keep"

\* The move attempted for a record whose pid is no longer a candidate.
DecideUnseen(r) ==
    IF /\ r.state = "THROTTLED"
       /\ elapsed_at_least(r.seen, stale_after_ms)
       /\ elapsed_at_least(r.entered, min_throttle_duration_ms)
      THEN "release" ELSE "keep"

\* A cooldown that is over ends, whether or not a throttle follows or fails.
CooldownOver(r) ==
    IF r.state = "COOLDOWN" /\ elapsed_at_least(r.entered, cooldown_duration_ms)
      THEN [state |-> "NONE", seen |-> r.seen, entered |-> 0] ELSE r

\* The state a successful move leads to.
Moved(r, decision) ==
    [state |-> IF decision = "throttle" THEN "THROTTLED" ELSE "COOLDOWN", seen |-> r.seen, entered |-> 0]

\* Defect: the record changes state although the cgroup write failed.
Bug_SettleAnyway(r, decision, ok) ==
    IF decision # "keep" THEN Moved(r, decision) ELSE CooldownOver(r)

\* throttle_record_pid and release_record_pid: the record follows the cgroup
\* write, and stays as it was when the write failed.
Settle(r, decision, ok) ==
    IF decision # "keep" /\ ok THEN Moved(r, decision) ELSE CooldownOver(r)

Target(decision) == IF decision = "throttle" THEN "THROTTLED" ELSE "BACKGROUND"

\* Sets of pids whose cgroup write succeeds: never a dead one, every live
\* one unless failures are allowed.  A dry run writes nothing and succeeds.
Outcomes ==
    IF dry_run THEN {Pids}
    ELSE IF FaultsAllowed THEN SUBSET Alive ELSE {Alive}

\* The pids whose cgroup one call changes, given what was decided for each record.
Written(decision, works) == {p \in DOMAIN decision : decision[p] # "keep" /\ p \in works /\ ~dry_run}

\* The cgroup writes of one call.
MoveAll(decision, works, by) ==
    /\ cgroup' = [p \in Pids |-> IF p \in Written(decision, works) THEN Target(decision[p]) ELSE cgroup[p]]
    /\ moved' = [p \in Pids |-> IF p \in Written(decision, works)
                                  THEN [to |-> Target(decision[p]), age |-> 0, by |-> by]
                                  ELSE moved[p]]

\* The pids whose write one call tried in vain.
Failed(decision, works) == {p \in DOMAIN decision : decision[p] # "keep" /\ p \notin works}

\* What both loops return: they go on after a failed write, and any failure
\* is the result of the whole call.
LoopResult(op, failed) ==
    [op |-> op, code |-> IF failed # {} THEN "CGROUP" ELSE "OK", failed |-> failed]

-----------------------------------------------------------------------------
(* The exported operations.                                                *)

InitFailed(code) == initialized' = FALSE /\ ret' = Returned("init", code)

validate_config(c) == c.max_records > 0 /\ c.low_score_threshold <= c.high_score_threshold

\* Defect: the limit is written only after init has reported success.
Bug_InitIgnoresFailure(c) ==
    /\ cfg' = c
    /\ records' = NoRecords
    /\ initialized' = TRUE
    /\ cpu_max' \in {cpu_max, TRUE}
    /\ moved' = [p \in Pids |-> NotMoved]
    /\ ret' = Returned("init", "OK")
    /\ UNCHANGED <<cgroup, offered>>

\* The controller counts as initialized after every configured control write
\* has succeeded.  A failed memory.low write leaves cpu.max written.  init
\* clears the controller first, so one that is in use forgets its records
\* and releases nobody, also when the new configuration is refused.
throttle_controller_init(c) ==
    LET writes_cpu == ~c.dry_run /\ c.configure_throttled_cpu_max
        writes_low == ~c.dry_run /\ c.configure_protected_memory_low
        after_cpu == cpu_max \/ writes_cpu
    IN  /\ cfg' = c
        /\ records' = NoRecords
        /\ moved' = [p \in Pids |-> NotMoved]
        /\ \/ ~validate_config(c) /\ cpu_max' = cpu_max /\ InitFailed("INVALID_ARG")
           \/ validate_config(c) /\ cpu_max' = cpu_max /\ InitFailed("NO_MEMORY")
           \/ validate_config(c) /\ writes_cpu /\ cpu_max' = cpu_max /\ InitFailed("CGROUP")
           \/ validate_config(c) /\ writes_low /\ cpu_max' = after_cpu /\ InitFailed("CGROUP")
           \/ /\ validate_config(c)
              /\ cpu_max' = after_cpu
              /\ initialized' = TRUE
              /\ ret' = Returned("init", "OK")
        /\ UNCHANGED <<cgroup, offered>>

\* Frees the records and releases nobody.
throttle_controller_destroy ==
    /\ initialized' = FALSE
    /\ records' = NoRecords
    /\ moved' = [p \in Pids |-> NotMoved]
    /\ ret' = Returned("destroy", "OK")
    /\ UNCHANGED <<cfg, cpu_max, cgroup, offered>>

\* prevalidate_candidates: room for every pid that has no record yet.
FitsRecords(cands) ==
    Cardinality(DOMAIN cands \ DOMAIN records) <= max_records - Cardinality(DOMAIN records)

\* A call that returns before it touches a record.
ApplyRefused(cands, code) ==
    /\ offered' = DOMAIN cands
    /\ ret' = Returned("apply", code)
    /\ UNCHANGED <<controller, system>>

\* What one call decides for every record, the new ones included.
Decisions(cands) ==
    [p \in DOMAIN records \cup DOMAIN cands |->
       IF p \in DOMAIN cands THEN DecideSeen(RecordOf(p), cands[p]) ELSE DecideUnseen(records[p])]

\* A candidate's record is marked as seen now.
Touched(cands, p) ==
    IF p \in DOMAIN cands THEN [RecordOf(p) EXCEPT !.seen = 0] ELSE records[p]

\* The two loops of apply_candidates.
SettleRecords(cands, works) ==
    /\ records' = [p \in DOMAIN records \cup DOMAIN cands |->
                     Settle(Touched(cands, p), Decisions(cands)[p], p \in works)]
    /\ MoveAll(Decisions(cands), works, "apply")
    /\ ret' = LoopResult("apply", Failed(Decisions(cands), works))

throttle_controller_apply_candidates(cands) ==
    \/ /\ ~initialized
       /\ ApplyRefused(cands, "NOT_INITIALIZED")
    \/ /\ initialized
       /\ FaultsAllowed                         \* a malformed list
       /\ ApplyRefused(cands, "INVALID_ARG")
    \/ /\ initialized
       /\ ~FitsRecords(cands)
       /\ ApplyRefused(cands, "NO_SPACE")
    \/ /\ initialized
       /\ FitsRecords(cands)
       /\ FaultsAllowed                         \* the clock cannot be read
       /\ ApplyRefused(cands, "TIME")
    \/ /\ initialized
       /\ FitsRecords(cands)
       /\ \E works \in Outcomes : SettleRecords(cands, works)
       /\ offered' = DOMAIN cands
       /\ UNCHANGED <<initialized, cfg, cpu_max>>

\* The move release_all attempts, however briefly the pid was throttled.
DecideRollback(r) == IF r.state = "THROTTLED" THEN "release" ELSE "keep"

Rollback == [p \in DOMAIN records |-> DecideRollback(records[p])]

\* Defect: a later release that succeeds overwrites the error of a failed one.
Bug_ErrorOverwritten(works) ==
    LET failed == Failed(Rollback, works)
        released == {p \in DOMAIN Rollback : Rollback[p] = "release"} \ failed
    IN  /\ records' = [p \in DOMAIN records |->
                         IF p \in released THEN Moved(records[p], "release") ELSE records[p]]
        /\ MoveAll(Rollback, works, "release_all")
        /\ ret' = [op |-> "release_all", failed |-> failed,
                   code |-> IF failed # {} /\ released = {} THEN "CGROUP" ELSE "OK"]

\* The loop of release_all.  It does not look at cooldowns.
ReleaseRecords(works) ==
    /\ records' = [p \in DOMAIN records |->
                     IF Rollback[p] = "release" THEN Settle(records[p], "release", p \in works)
                                                ELSE records[p]]
    /\ MoveAll(Rollback, works, "release_all")
    /\ ret' = LoopResult("release_all", Failed(Rollback, works))

throttle_controller_release_all ==
    \/ /\ ~initialized
       /\ ret' = Returned("release_all", "NOT_INITIALIZED")
       /\ UNCHANGED <<controller, system, offered>>
    \/ /\ initialized
       /\ FaultsAllowed                         \* the clock cannot be read
       /\ ret' = Returned("release_all", "TIME")
       /\ UNCHANGED <<controller, system, offered>>
    \/ /\ initialized
       /\ \E works \in Outcomes : ReleaseRecords(works)
       /\ UNCHANGED <<initialized, cfg, cpu_max, offered>>

-----------------------------------------------------------------------------
(* The rest of the system.                                                 *)

Older(age) == IF age < AgeCap THEN age + 1 ELSE age

Aged(r) == [state |-> r.state, seen |-> Older(r.seen), entered |-> Older(r.entered)]

\* Time passes.
Tick ==
    /\ records' = [p \in DOMAIN records |-> Aged(records[p])]
    /\ moved' = [p \in Pids |-> IF moved[p] = NotMoved THEN NotMoved
                                ELSE [moved[p] EXCEPT !.age = Older(@)]]
    /\ UNCHANGED <<initialized, cfg, cpu_max, cgroup, offered, ret>>

\* A process appears under a free pid, in the cgroup of its parent; the
\* parent is an unmanaged process or any live one.
Spawn(p) ==
    /\ cgroup[p] = "absent"
    /\ \E g \in {"BACKGROUND"} \cup {cgroup[q] : q \in Alive} : cgroup' = [cgroup EXCEPT ![p] = g]
    /\ moved' = [moved EXCEPT ![p] = NotMoved]
    /\ UNCHANGED <<controller, cpu_max, offered, ret>>

\* A process exits; its pid may be reused.
Exit(p) ==
    /\ cgroup[p] # "absent"
    /\ cgroup' = [cgroup EXCEPT ![p] = "absent"]
    /\ moved' = [moved EXCEPT ![p] = NotMoved]
    /\ UNCHANGED <<controller, cpu_max, offered, ret>>

Init ==
    /\ initialized = FALSE
    /\ cfg \in Configs
    /\ records = NoRecords
    /\ cpu_max = FALSE
    /\ cgroup = [p \in Pids |-> "BACKGROUND"]
    /\ moved = [p \in Pids |-> NotMoved]
    /\ offered = {}
    /\ ret = Returned("none", "OK")

Apply == \E cands \in CandidateList : throttle_controller_apply_candidates(cands)

Next ==
    \/ \E c \in Configs : throttle_controller_init(c)
    \/ throttle_controller_destroy
    \/ Apply
    \/ throttle_controller_release_all
    \/ Tick
    \/ \E p \in Pids : Spawn(p) \/ Exit(p)

Spec == Init /\ [][Next]_vars

\* The caller keeps polling the controller and time keeps passing.
Fairness == WF_vars(Tick) /\ WF_vars(Apply)
FairSpec == Spec /\ Fairness

-----------------------------------------------------------------------------
(* Properties.                                                             *)

\* Every variable keeps its type.
TypeOK ==
    /\ initialized \in BOOLEAN /\ cfg \in Configs /\ cpu_max \in BOOLEAN
    /\ DOMAIN records \subseteq Pids /\ \A p \in DOMAIN records : records[p] \in Record
    /\ cgroup \in [Pids -> CgroupName]
    /\ moved \in [Pids -> Move]
    /\ offered \subseteq Pids

\* prevalidate_candidates alone keeps the array within max_records: the loop
\* never needs the second capacity test, whose early return would leave the
\* candidates before it settled and the others not.
RecordsFit == Cardinality(DOMAIN records) <= max_records

\* The controller never loses track of a process it moved: one it put in
\* the throttled cgroup is there and its record says THROTTLED, one it put
\* back is out and its record does not, whichever cgroup writes failed.
MovesAreRecorded ==
    \A p \in Pids :
        /\ moved[p].to = "THROTTLED" => /\ cgroup[p] = "THROTTLED"
                                        /\ p \in DOMAIN records /\ records[p].state = "THROTTLED"
        /\ moved[p].to = "BACKGROUND" => /\ cgroup[p] = "BACKGROUND"
                                         /\ p \in DOMAIN records /\ records[p].state # "THROTTLED"

\* Between the cgroup write that throttled a process and the one that
\* released it, unless release_all did, min_throttle_duration_ms has passed.
MinDurationKept ==
    [][\A p \in Pids :
         /\ moved[p].to = "THROTTLED"
         /\ moved'[p].to = "BACKGROUND"
         /\ moved'[p].by = "apply"
         => moved[p].age >= min_throttle_duration_ms * NSEC_PER_MSEC]_vars

\* Between a release, by whatever call, and the next throttling of the same
\* process cooldown_duration_ms has passed: the controller does not flap.
CooldownKept ==
    [][\A p \in Pids :
         moved[p].to = "BACKGROUND" /\ moved'[p].to = "THROTTLED"
         => moved[p].age >= cooldown_duration_ms * NSEC_PER_MSEC]_vars

\* After a release_all that got as far as its loop, and until the next call,
\* a process this controller throttled is still throttled only if its own
\* cgroup write failed, and then the call has not reported success: one
\* failed write neither stops the release of the others nor is forgotten.
RollbackComplete ==
    ret.op = "release_all" /\ ret.code \in {"OK", "CGROUP"} =>
        \A p \in Pids : moved[p].to = "THROTTLED" => p \in ret.failed /\ ret.code = "CGROUP"

\* No process is moved to the throttled cgroup before its cpu.max limit is
\* in place, although init can fail between its two control writes.
QuotaBeforeThrottle ==
    configure_throttled_cpu_max => \A p \in Pids : moved[p].to = "THROTTLED" => cpu_max

\* throttle_controller.h:51: a throttled process that is gone from the
\* candidate lists for good is released in the end (while it lives).
StaleIsReleased ==
    \A p \in Pids :
        <>[](p \notin offered /\ p \in Alive)
            => <>[](p \in DOMAIN records => records[p].state # "THROTTLED")
=============================================================================
