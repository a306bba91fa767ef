------------------------------ MODULE OracleRun ------------------------------
(***************************************************************************)
(* How the five oracle experiments run: main makes the cgroups, and for    *)
(* every condition starts a victim and its aggressors as stopped children, *)
(* places them, lets them go, waits for them and reads their results.      *)
(* Every call may fail and every child may die; then everything is undone. *)
(*                                                                         *)
(* The functions are copied from program to program; those that do not     *)
(* differ are modelled once, from oracle_cpu_max_sweep.c.  The modules of  *)
(* the programs give the conditions and the steps of run_condition.        *)
(***************************************************************************)
EXTENDS OracleSteps, FiniteSets

CONSTANTS
    Programs,      \* which of the five experiments
    Periods,       \* values of --throttle-period-us
    throttle_quota_us,   \* --throttle-quota-us of the programs that have it
    MaxFaults      \* bound, by program: calls that fail and workers that die

Overlap == INSTANCE OracleOverlap
Sweep == INSTANCE OracleSweep
Selective == INSTANCE OracleSelective
Multi == INSTANCE OracleMulti
CpuMax == INSTANCE OracleCpuMax

ASSUME OracleRunAssumption ==
    /\ Programs \subseteq {"overlap", "sweep", "selective", "multi", "cpumax"}
    /\ Periods \subseteq Nat \ {0} /\ throttle_quota_us \in Nat \ {0}
    /\ MaxFaults \in [Programs -> Nat]

VARIABLES
    program, period,   \* which experiment, and its throttle_period_us
    phase,             \* where main is
    todo,              \* conditions of cfg.order that are still to be run
    condition, step,   \* run_condition: its argument and its next step
    worker,            \* the children, by role
    dirs, cpu_max,     \* cgroupfs: directories and the cpu.max files
    built,             \* the overlap level whose chain is in the sweep's pool
    out,               \* struct condition_result: whose results were read
    rc,                \* exit status of the program
    faults, died, stray   \* bound and history: failures, workers that died,
                          \* workers that were signalled after being reaped

kernelVars == <<dirs, cpu_max>>
history == <<faults, died, stray>>
vars == <<program, period, phase, todo, condition, step, worker, dirs, cpu_max, built, out, rc,
          faults, died, stray>>

-----------------------------------------------------------------------------
Candidates(p) ==
    CASE p \in {"multi", "cpumax"} -> Levels
      [] p = "selective" -> Selective!candidate_name
      [] p \in {"overlap", "sweep"} -> <<"aggressor">>

Conditions(p) ==
    CASE p = "overlap" -> Overlap!Conditions
      [] p = "sweep" -> Sweep!Conditions
      [] p = "selective" -> Selective!Conditions
      [] p = "multi" -> Multi!Conditions
      [] p = "cpumax" -> CpuMax!Conditions

StepsOf(p, c) ==
    CASE p = "overlap" -> Overlap!run_condition(c)
      [] p = "sweep" -> Sweep!prepare(c) \o Sweep!run_condition(c)
      [] p = "selective" -> Selective!run_condition(c)
      [] p = "multi" -> Multi!run_condition(c)
      [] p = "cpumax" -> CpuMax!run_condition(c)

Script == [p \in Programs |-> [c \in Conditions(p) |-> StepsOf(p, c)]]

UsesCgroups(p) == p \in {"selective", "multi", "cpumax"}

\* "max" in a cpu.max file, which no quota is equal to.
Unlimited == -1

\* What run_condition writes to the cpu.max of a candidate.
Limit(p, c, a) ==
    CASE p = "selective" -> IF a \in Selective!throttled(c) THEN throttle_quota_us ELSE Unlimited
      [] p = "multi" -> IF a \in Multi!throttled(c) THEN throttle_quota_us ELSE Unlimited
      [] p = "cpumax" -> IF a \in CpuMax!throttled(c) THEN CpuMax!quota_us(c, period) ELSE Unlimited

AggressorsOf == [p \in Programs |-> Range(Candidates(p))]
Aggressors == AggressorsOf[program]
Roles == {"victim"} \cup Aggressors

\* state: the kernel's view of the child; pid, fd: the variables of run_condition.
NoWorker == [state |-> "none", pid |-> FALSE, fd |-> FALSE, group |-> "root", data |-> FALSE]
States == {"none", "starting", "stopped", "running", "exited", "failed"}

\* A child that exists and has not been waited for.
Child(r) == worker[r].state # "none"
Live(r) == worker[r].state \in {"starting", "stopped", "running"}

MayFail == faults < MaxFaults[program]
Fault == MayFail /\ faults' = faults + 1

Steps == Script[program][condition]
Current == Steps[step]
At(op) == phase = "run" /\ step <= Len(Steps) /\ Current.op = op
Who == Current.who
Done == step' = step + 1 /\ UNCHANGED phase

\* goto fail; the clean-up goes through the workers one by one.
Fail == phase' = "fail" /\ step' = 1

-----------------------------------------------------------------------------
(* main before and after the conditions.                                   *)

\* Everything up to the chains: see OracleSetup.
Prepare ==
    /\ phase = "prepare"
    /\ \/ phase' = (IF UsesCgroups(program) THEN "cgroups" ELSE "loop") /\ UNCHANGED faults
       \/ phase' = "undo" /\ Fault
    /\ UNCHANGED <<program, period, todo, condition, step, worker, kernelVars, built, out, rc, died, stray>>

\* The directories that one pass of cgroup_context_destroy leaves: a
\* directory with a task or with a child directory stays.
cgroup_context_destroy ==
    LET busy == {d \in dirs : \E r \in Roles : Child(r) /\ worker[r].group = d}
    IN  busy \cup (IF busy # {} THEN dirs \cap {"run"} ELSE {})

\* cgroup_context_create, one directory at a time.
cgroup_context_create ==
    /\ phase = "cgroups"
    /\ LET wanted == <<"run">> \o Candidates(program)
           missing == {i \in 1..Len(wanted) : wanted[i] \notin dirs}
       IN  \/ /\ \E i \in missing : (\A j \in missing : i <= j) /\ dirs' = dirs \cup {wanted[i]}
              /\ UNCHANGED <<phase, faults>>
           \/ missing = {} /\ phase' = "loop" /\ UNCHANGED <<dirs, faults>>
           \/ Fault /\ dirs' = cgroup_context_destroy /\ phase' = "undo"
    /\ UNCHANGED <<program, period, todo, condition, step, worker, cpu_max, built, out, rc, died, stray>>

\* Defect: the condition stays on the list.
Bug_SameCondition ==
    /\ phase = "loop"
    /\ \E c \in todo : condition' = c
    /\ phase' = "run" /\ step' = 1 /\ out' = {} /\ UNCHANGED todo
    /\ worker' = [r \in Roles |-> [worker[r] EXCEPT !.pid = FALSE, !.fd = FALSE]]
    /\ UNCHANGED <<program, period, kernelVars, built, rc, history>>

\* Defect: the result of the condition before is not cleared.
Bug_KeepResult ==
    /\ phase = "loop"
    /\ \E c \in todo :
         /\ condition' = c /\ todo' = todo \ {c}
         /\ phase' = IF program = "cpumax" /\ CpuMax!Refused(c, period) THEN "undo" ELSE "run"
    /\ step' = 1 /\ UNCHANGED out
    /\ worker' = [r \in Roles |-> [worker[r] EXCEPT !.pid = FALSE, !.fd = FALSE]]
    /\ UNCHANGED <<program, period, kernelVars, built, rc, history>>

\* The next condition of cfg.order, which parse_order lets be any
\* permutation.  run_condition clears its variables and its result.
Begin ==
    /\ phase = "loop"
    /\ \E c \in todo :
         /\ condition' = c /\ todo' = todo \ {c}
         /\ phase' = IF program = "cpumax" /\ CpuMax!Refused(c, period) THEN "undo" ELSE "run"
    /\ step' = 1 /\ out' = {}
    /\ worker' = [r \in Roles |-> [worker[r] EXCEPT !.pid = FALSE, !.fd = FALSE]]
    /\ UNCHANGED <<program, period, kernelVars, built, rc, history>>

\* run_condition returns 0.
Return ==
    /\ phase = "run" /\ step > Len(Steps)
    /\ phase' = "loop"
    /\ UNCHANGED <<program, period, todo, condition, step, worker, kernelVars, built, out, rc, history>>

\* verify_pool_pfns, after the last condition.
Verify ==
    /\ phase = "loop" /\ todo = {}
    /\ \/ rc' = "success" /\ UNCHANGED faults
       \/ rc' = "failure" /\ Fault
    /\ phase' = "undo"
    /\ UNCHANGED <<program, period, todo, condition, step, worker, kernelVars, built, out, died, stray>>

\* The end of main, after success and after fail.
Exit ==
    /\ phase = "undo"
    /\ dirs' = cgroup_context_destroy
    /\ rc' = IF rc = "none" THEN "failure" ELSE rc
    /\ phase' = "exit"
    /\ UNCHANGED <<program, period, todo, condition, step, worker, cpu_max, built, out, history>>

-----------------------------------------------------------------------------
(* The steps of run_condition.                                             *)

\* Defect: "max" is not written, as a new cgroup has no limit.
Bug_SetOnlyQuota ==
    /\ At("limit")
    /\ cpu_max' = IF Limit(program, condition, Who) = Unlimited THEN cpu_max
                  ELSE [cpu_max EXCEPT ![Who] = Limit(program, condition, Who)]
    /\ Done
    /\ UNCHANGED <<program, period, todo, condition, worker, dirs, built, out, rc, history>>

cgroup_set_cpu_max ==
    /\ At("limit")
    /\ \/ /\ cpu_max' = [cpu_max EXCEPT ![Who] = Limit(program, condition, Who)]
          /\ Done /\ UNCHANGED faults
       \/ Fault /\ Fail /\ UNCHANGED cpu_max
    /\ UNCHANGED <<program, period, todo, condition, worker, dirs, built, out, rc, died, stray>>

\* pipe and fork; the parent closes the write end.
spawn ==
    /\ At("spawn")
    /\ \/ /\ worker' = [worker EXCEPT ![Who] = [NoWorker EXCEPT !.state = "starting", !.pid = TRUE, !.fd = TRUE]]
          /\ Done /\ UNCHANGED faults
       \/ Fault /\ Fail /\ UNCHANGED worker
    /\ UNCHANGED <<program, period, todo, condition, kernelVars, built, out, rc, died, stray>>

\* waitpid with WUNTRACED: a child that ended instead has been reaped, and
\* its pid is still in the variable.
wait_until_stopped ==
    /\ At("stopped")
    /\ \/ worker[Who].state = "stopped" /\ Done /\ UNCHANGED worker
       \/ /\ worker[Who].state \in {"exited", "failed"}
          /\ worker' = [worker EXCEPT ![Who].state = "none"]
          /\ Fail
    /\ UNCHANGED <<program, period, todo, condition, kernelVars, built, out, rc, history>>

cgroup_move_pid ==
    /\ At("move")
    /\ \/ worker' = [worker EXCEPT ![Who].group = Who] /\ Done /\ UNCHANGED faults
       \/ Fault /\ Fail /\ UNCHANGED worker
    /\ UNCHANGED <<program, period, todo, condition, kernelVars, built, out, rc, died, stray>>

\* SIGCONT.  The pid is that of an unreaped child, so kill succeeds; it
\* does nothing to a child that has not stopped yet or has ended.
Continue ==
    /\ At("cont")
    /\ worker' = [worker EXCEPT ![Who].state = IF @ = "stopped" THEN "running" ELSE @]
    /\ Done
    /\ UNCHANGED <<program, period, todo, condition, kernelVars, built, out, rc, history>>

\* Defect: the pid is kept after the child was reaped.
Bug_KeepPid ==
    /\ At("wait")
    /\ worker[Who].state \in {"exited", "failed"}
    /\ worker' = [worker EXCEPT ![Who].state = "none"]
    /\ IF worker[Who].state = "exited" THEN Done ELSE Fail
    /\ UNCHANGED <<program, period, todo, condition, kernelVars, built, out, rc, history>>

\* Defect: the status of the child is not looked at.
Bug_IgnoreStatus ==
    /\ At("wait")
    /\ worker[Who].state \in {"exited", "failed"}
    /\ worker' = [worker EXCEPT ![Who].state = "none", ![Who].pid = FALSE]
    /\ Done
    /\ UNCHANGED <<program, period, todo, condition, kernelVars, built, out, rc, history>>

\* Only after success is the pid cleared.
wait_success ==
    /\ At("wait")
    /\ \/ /\ worker[Who].state = "exited"
          /\ worker' = [worker EXCEPT ![Who].state = "none", ![Who].pid = FALSE]
          /\ Done
       \/ /\ worker[Who].state = "failed"
          /\ worker' = [worker EXCEPT ![Who].state = "none"]
          /\ Fail
    /\ UNCHANGED <<program, period, todo, condition, kernelVars, built, out, rc, history>>

\* The result is in the pipe, or the pipe is at its end.
read_full ==
    /\ At("read")
    /\ \/ /\ worker[Who].data
          /\ worker' = [worker EXCEPT ![Who].fd = FALSE, ![Who].data = FALSE]
          /\ out' = out \cup {Who}
          /\ Done
       \/ ~worker[Who].data /\ Fail /\ UNCHANGED <<worker, out>>
    /\ UNCHANGED <<program, period, todo, condition, kernelVars, built, rc, history>>

\* Defect: the lines of the first level are kept.
Bug_BuildOnce ==
    /\ At("build")
    /\ built' = IF built = "none" THEN condition ELSE built
    /\ Done
    /\ UNCHANGED <<program, period, todo, condition, worker, kernelVars, out, rc, history>>

\* The sweep's main: new lines for the aggressor, checked, and their chain.
BuildLevel ==
    /\ At("build")
    /\ \/ built' = condition /\ Done /\ UNCHANGED faults
       \/ Fault /\ phase' = "undo" /\ UNCHANGED <<built, step>>
    /\ UNCHANGED <<program, period, todo, condition, worker, kernelVars, out, rc, died, stray>>

\* Defect: a worker that has not been continued is left alone.
Bug_KillRunning ==
    LET r == (<<"victim">> \o Candidates(program))[step]
    IN  /\ phase = "fail" /\ step <= Len(Candidates(program)) + 1
        /\ stray' = stray \cup (IF worker[r].pid /\ ~Child(r) THEN {r} ELSE {})
        /\ worker' = [worker EXCEPT ![r] = IF @.state = "stopped" THEN @ ELSE NoWorker]
        /\ step' = step + 1
        /\ UNCHANGED <<program, period, phase, todo, condition, kernelVars, built, out, rc, faults, died>>

\* fail: continue, kill and reap every worker whose pid is set, and close
\* its pipe.  The signals of a pid that was reaped go to whoever has it now.
CleanUp ==
    LET r == (<<"victim">> \o Candidates(program))[step]
    IN  /\ phase = "fail" /\ step <= Len(Candidates(program)) + 1
        /\ stray' = stray \cup (IF worker[r].pid /\ ~Child(r) THEN {r} ELSE {})
        /\ worker' = [worker EXCEPT ![r] = IF @.pid THEN NoWorker ELSE [@ EXCEPT !.fd = FALSE]]
        /\ step' = step + 1
        /\ UNCHANGED <<program, period, phase, todo, condition, kernelVars, built, out, rc, faults, died>>

\* run_condition returns -1.
ReturnFailure ==
    /\ phase = "fail" /\ step > Len(Candidates(program)) + 1
    /\ phase' = "undo"
    /\ UNCHANGED <<program, period, todo, condition, step, worker, kernelVars, built, out, rc, history>>

-----------------------------------------------------------------------------
(* The children.                                                           *)

\* A child pins itself and raises SIGSTOP.
Stop(r) ==
    /\ worker[r].state = "starting"
    /\ worker' = [worker EXCEPT ![r].state = "stopped"]
    /\ UNCHANGED <<program, period, phase, todo, condition, step, kernelVars, built, out, rc, history>>

\* It has run its loops, written its result and exits.
Finish(r) ==
    /\ worker[r].state = "running"
    /\ worker' = [worker EXCEPT ![r].state = "exited", ![r].data = TRUE]
    /\ UNCHANGED <<program, period, phase, todo, condition, step, kernelVars, built, out, rc, history>>

\* A call of it fails, or it is killed from outside, perhaps when it has
\* already written its result.
Die(r) ==
    /\ Live(r) /\ Fault
    /\ \E sent \in {FALSE, worker[r].state = "running"} :
         worker' = [worker EXCEPT ![r].state = "failed", ![r].data = sent]
    /\ died' = died \cup {r}
    /\ UNCHANGED <<program, period, phase, todo, condition, step, kernelVars, built, out, rc, stray>>

-----------------------------------------------------------------------------
Init ==
    /\ program \in Programs
    /\ period \in (IF program = "cpumax" THEN Periods ELSE {100})
    /\ phase = "prepare" /\ todo = Conditions(program)
    /\ condition = "none" /\ step = 1
    /\ worker = [r \in Roles |-> NoWorker]
    /\ dirs = {} /\ cpu_max = [a \in Aggressors |-> Unlimited]
    /\ built = "none" /\ out = {} /\ rc = "none"
    /\ faults = 0 /\ died = {} /\ stray = {}

Parent ==
    \/ Prepare \/ cgroup_context_create \/ Begin \/ Return \/ Verify \/ Exit
    \/ cgroup_set_cpu_max \/ spawn \/ wait_until_stopped \/ cgroup_move_pid \/ Continue
    \/ wait_success \/ read_full \/ BuildLevel \/ CleanUp \/ ReturnFailure

Finished == phase = "exit" /\ UNCHANGED vars

Next == Parent \/ Finished \/ \E r \in Roles : Stop(r) \/ Finish(r) \/ Die(r)

AllRoles == {"victim", "aggressor", "high", "low"} \cup Range(Levels)

\* The parent is scheduled; so is a child, whose loops end by the clock.
Fairness ==
    /\ WF_vars(Parent)
    /\ \A r \in AllRoles : WF_vars(r \in Roles /\ (Stop(r) \/ Finish(r)))

Spec == Init /\ [][Next]_vars /\ Fairness

-----------------------------------------------------------------------------
(* Properties.                                                             *)

\* Types.
TypeOK ==
    /\ phase \in {"prepare", "cgroups", "loop", "run", "fail", "undo", "exit"}
    /\ todo \subseteq Conditions(program) /\ condition \in Conditions(program)
    /\ step \in 1..Len(Steps) + 6 /\ out \subseteq Roles
    /\ \A r \in Roles : worker[r].state \in States /\ worker[r].group \in {"root"} \cup Aggressors
    /\ dirs \subseteq {"run"} \cup Aggressors /\ rc \in {"none", "success", "failure"}
    /\ phase \in {"run", "fail"} => condition \notin todo

\* The limits the names of the conditions promise.
Promised(a) ==
    CASE program = "selective" ->
           IF condition = "all" \/ (condition = "selective" /\ a = "high")
             THEN throttle_quota_us ELSE Unlimited
      [] program = "multi" ->
           IF \/ condition = "all"
              \/ condition = "lowest" /\ a = "o0"
              \/ condition \in {"highest", "top2"} /\ a = "o100"
              \/ condition = "top2" /\ a = "o75"
             THEN throttle_quota_us ELSE Unlimited
      [] program = "cpumax" ->
           IF a # "o100" \/ condition \in {"none", "uncontrolled"} THEN Unlimited
           ELSE (period * [cpu75 |-> 75, cpu50 |-> 50, cpu25 |-> 25, cpu10 |-> 10][condition]) \div 100

\* While an aggressor of a control experiment runs, it is in its own cgroup
\* and the cpu.max there is the one its condition stands for: no limit is
\* left over from an earlier condition, whatever the order, and none of its
\* loops runs before it is placed.  A percentage of the period that is
\* rounded down to nothing is not a limit it ever runs under.
LimitInForce ==
    UsesCgroups(program) =>
        \A a \in Aggressors : worker[a].state = "running" =>
            worker[a].group = a /\ a \in dirs /\ cpu_max[a] = Promised(a) /\ cpu_max[a] # 0

\* The chain in the sweep's one pool of aggressor lines is that of the
\* condition for as long as an aggressor follows it.
ChainOfCondition ==
    program = "sweep" /\ Child("aggressor") => built = condition

\* The victim is let go only after every aggressor of its condition was, and
\* none of them is waited for before the victim has ended.  Whether they
\* still run is not promised: all have the same duration, and they began
\* first.
VictimComesLast ==
    worker["victim"].state = "running" /\ phase = "run" /\ condition # "none" =>
        \A a \in Aggressors : worker[a].state \in {"running", "exited", "failed"} /\ worker[a].pid

\* Whatever runs, runs under what the name of its condition promises: the
\* limits, the chain, and the victim against aggressors that were all let go.
RunInv == TypeOK /\ LimitInForce /\ ChainOfCondition /\ VictimComesLast

\* A condition that counts as done has the results of the victim and of all
\* its aggressors, and none of an earlier run.  It does not count as done if
\* one of its workers died, however late, and neither does the program
\* succeed: no result stands that was measured against a load with a part
\* missing.
ResultsComplete ==
    /\ phase = "loop" /\ todo # Conditions(program) =>
         /\ out = IF condition = "none" THEN {"victim"} ELSE Roles
         /\ \A r \in Roles : ~worker[r].data
    /\ phase = "loop" \/ rc = "success" => died = {}

\* However the program ends, it leaves no child and no cgroup behind, and
\* from one condition to the next no pipe either.
NothingLeft ==
    /\ phase \in {"loop", "undo", "exit"} => \A r \in Roles : ~Child(r) /\ ~worker[r].fd
    /\ phase = "exit" => dirs = {}

\* The clean-up of run_condition signals a pid that was reaped, and may by
\* then belong to another process, only if that very worker had died: a
\* worker that ended well is never signalled again.
StrayOnlyAfterDeath == stray \subseteq died

\* The program ends: no wait for a child lasts forever, whichever calls
\* fail and whichever children die.
Ends == <>(phase = "exit")
=============================================================================
