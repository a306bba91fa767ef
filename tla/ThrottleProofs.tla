--------------------------- MODULE ThrottleProofs ---------------------------
(***************************************************************************)
(* Proofs about ThrottleController, for every set of configurations, every *)
(* finite set of pids and every bound on the ages.                         *)
(***************************************************************************)
EXTENDS ThrottleController, FiniteSetTheorems, TLAPS

\* The records of a controller that is not initialized are gone, an
\* initialized one has written its limit, and a dry run moves nobody.
Phases ==
    /\ ~initialized => records = NoRecords
    /\ initialized /\ configure_throttled_cpu_max /\ ~dry_run => cpu_max
    /\ dry_run => \A p \in Pids : moved[p].to = "none"

\* How the time in state that a record knows bounds the time since the
\* cgroup write it stems from.
AgesAgree(p) ==
    /\ moved[p].to = "THROTTLED" => records[p].entered <= moved[p].age
    /\ moved[p].to = "BACKGROUND" /\ records[p].state = "COOLDOWN"
         => records[p].entered <= moved[p].age
    /\ moved[p].to = "BACKGROUND" /\ records[p].state = "NONE"
         => elapsed_at_least(moved[p].age, cooldown_duration_ms)

\* The inductive invariant.
ThrottleInv ==
    /\ TypeOK /\ RecordsFit /\ Phases /\ MovesAreRecorded
    /\ \A p \in Pids : AgesAgree(p)

-----------------------------------------------------------------------------
\* The fields of the configuration have their types.
LEMMA CfgType ==
  ASSUME TypeOK
  PROVE  /\ max_records \in Nat /\ min_throttle_duration_ms \in Nat /\ cooldown_duration_ms \in Nat
         /\ dry_run \in BOOLEAN /\ configure_throttled_cpu_max \in BOOLEAN
  <1>1. cfg \in Config
    BY ConfigAssumption DEF ConfigAssumption, TypeOK
  <1> QED BY <1>1 DEF Config, max_records, min_throttle_duration_ms, cooldown_duration_ms,
                      dry_run, configure_throttled_cpu_max

\* A step that keeps the configuration keeps its fields.
LEMMA CfgKept ==
  ASSUME UNCHANGED cfg
  PROVE  UNCHANGED <<max_records, cooldown_duration_ms, dry_run, configure_throttled_cpu_max>>
  BY DEF max_records, cooldown_duration_ms, dry_run, configure_throttled_cpu_max

\* ms_to_ns yields a natural number.
LEMMA DurationType == \A ms \in Nat : ms_to_ns(ms) \in Nat
  BY ConfigAssumption DEF ConfigAssumption, ms_to_ns

\* An age below the saturation value that counts as elapsed really is as
\* long as the duration in milliseconds says.
LEMMA ElapsedIsReal ==
  ASSUME NEW age \in Age, NEW ms \in Nat, elapsed_at_least(age, ms)
  PROVE  age >= ms * NSEC_PER_MSEC
  <1>1. AgeCap \in Nat /\ UINT64_MAX \in Nat /\ AgeCap < UINT64_MAX /\ NSEC_PER_MSEC \in Nat
    BY ConfigAssumption DEF ConfigAssumption
  <1>2. age \in Nat /\ age < UINT64_MAX
    BY <1>1 DEF Age
  <1>3. CASE ms > UINT64_MAX \div NSEC_PER_MSEC
    BY <1>2, <1>1, <1>3 DEF elapsed_at_least, ms_to_ns
  <1>4. CASE ~(ms > UINT64_MAX \div NSEC_PER_MSEC)
    BY <1>4 DEF elapsed_at_least, ms_to_ns
  <1> QED BY <1>3, <1>4

\* A longer age has elapsed whenever a shorter one has.
LEMMA ElapsedGrows ==
  ASSUME NEW a \in Nat, NEW b \in Nat, NEW ms \in Nat, a <= b, elapsed_at_least(a, ms)
  PROVE  elapsed_at_least(b, ms)
  BY DurationType DEF elapsed_at_least

\* Ages stay ages, grow, and keep their order.
LEMMA OlderFacts ==
  ASSUME NEW a \in Age, NEW b \in Age
  PROVE  /\ Older(a) \in Age /\ a <= Older(a)
         /\ a <= b => Older(a) <= Older(b)
  BY ConfigAssumption DEF ConfigAssumption, Older, Age

\* Zero is an age.
LEMMA ZeroAge == 0 \in Age /\ Age \subseteq Nat
  BY ConfigAssumption DEF ConfigAssumption, Age

\* What settling does to one record, whatever was decided.
LEMMA SettleType ==
  ASSUME NEW r \in Record, NEW d, NEW ok
  PROVE  Settle(r, d, ok) \in Record
  BY ZeroAge DEF Settle, Moved, CooldownOver, Record

\* A new record, and the record of a pid that has one.
LEMMA RecordOfType ==
  ASSUME TypeOK, NEW p \in Pids
  PROVE  RecordOf(p) \in Record
  BY ZeroAge DEF TypeOK, RecordOf, create_record, Record

-----------------------------------------------------------------------------
\* What the two loops of apply_candidates see and decide.
LEMMA DecisionFacts ==
  ASSUME TypeOK, NEW cands \in CandidateList
  PROVE  /\ DOMAIN cands \subseteq Pids
         /\ DOMAIN Decisions(cands) = DOMAIN records \cup DOMAIN cands
         /\ \A p \in DOMAIN records \cup DOMAIN cands :
              /\ p \in Pids
              /\ Touched(cands, p) \in Record
              /\ Decisions(cands)[p] \in {"throttle", "release", "keep"}
  <1>1. DOMAIN cands \subseteq Pids
    BY DEF CandidateList
  <1>2. DOMAIN records \subseteq Pids
    BY DEF TypeOK
  <1>3. DOMAIN Decisions(cands) = DOMAIN records \cup DOMAIN cands
    BY DEF Decisions
  <1>4. ASSUME NEW p \in DOMAIN records \cup DOMAIN cands
        PROVE  Touched(cands, p) \in Record
    <2>1. RecordOf(p) \in Record
      BY <1>1, <1>2, RecordOfType
    <2>2. p \notin DOMAIN cands => records[p] \in Record
      BY DEF TypeOK
    <2> QED BY <2>1, <2>2, ZeroAge DEF Touched, Record
  <1>5. ASSUME NEW p \in DOMAIN records \cup DOMAIN cands
        PROVE  Decisions(cands)[p] \in {"throttle", "release", "keep"}
    BY DEF Decisions, DecideSeen, DecideUnseen
  <1> QED BY <1>1, <1>2, <1>3, <1>4, <1>5

\* The capacity test of prevalidate_candidates is enough.
LEMMA FitsAfter ==
  ASSUME TypeOK, RecordsFit, NEW cands \in CandidateList, FitsRecords(cands)
  PROVE  Cardinality(DOMAIN records \cup DOMAIN cands) <= max_records
  <1> DEFINE R == DOMAIN records
             N == DOMAIN cands \ DOMAIN records
  <1>1. IsFiniteSet(R) /\ IsFiniteSet(N)
    <2>1. R \subseteq Pids /\ N \subseteq Pids /\ IsFiniteSet(Pids)
      BY ConfigAssumption, DecisionFacts DEF TypeOK, ConfigAssumption
    <2> QED BY <2>1, FS_Subset
  <1>2. R \cap N = {} /\ R \cup N = DOMAIN records \cup DOMAIN cands
    OBVIOUS
  <1>3. Cardinality(R \cup N) = Cardinality(R) + Cardinality(N) - Cardinality(R \cap N)
    BY <1>1, FS_Union
  <1>4. Cardinality(R \cap N) = 0
    BY <1>2, FS_EmptySet
  <1>5. Cardinality(R) \in Nat /\ Cardinality(N) \in Nat /\ max_records \in Nat
    BY <1>1, FS_CardinalityType, CfgType
  <1>6. Cardinality(N) <= max_records - Cardinality(R)
    BY DEF FitsRecords
  <1> HIDE DEF R, N
  <1>7. Cardinality(R \cup N) <= max_records
    BY <1>3, <1>4, <1>5, <1>6
  <1> QED BY <1>2, <1>7

\* What MoveAll does to one process.
LEMMA MoveAllFacts ==
  ASSUME TypeOK, NEW decision, NEW works, NEW by \in {"apply", "release_all"},
         MoveAll(decision, works, by),
         \A p \in DOMAIN decision : decision[p] \in {"throttle", "release", "keep"}
  PROVE  /\ cgroup' \in [Pids -> CgroupName] /\ moved' \in [Pids -> Move]
         /\ dry_run => moved' = moved
         /\ \A p \in Pids :
              \/ /\ p \in Written(decision, works)
                 /\ decision[p] = "throttle"
                 /\ cgroup'[p] = "THROTTLED"
                 /\ moved'[p] = [to |-> "THROTTLED", age |-> 0, by |-> by]
              \/ /\ p \in Written(decision, works)
                 /\ decision[p] = "release"
                 /\ cgroup'[p] = "BACKGROUND"
                 /\ moved'[p] = [to |-> "BACKGROUND", age |-> 0, by |-> by]
              \/ /\ p \notin Written(decision, works)
                 /\ cgroup'[p] = cgroup[p] /\ moved'[p] = moved[p]
  <1>0. cgroup \in [Pids -> CgroupName] /\ moved \in [Pids -> Move]
    BY DEF TypeOK
  <1>1. \A p \in Pids : p \in Written(decision, works) => decision[p] \in {"throttle", "release"}
    BY DEF Written
  <1>2. \A p \in Pids :
          /\ cgroup'[p] = IF p \in Written(decision, works) THEN Target(decision[p]) ELSE cgroup[p]
          /\ moved'[p] = IF p \in Written(decision, works)
                           THEN [to |-> Target(decision[p]), age |-> 0, by |-> by] ELSE moved[p]
    BY DEF MoveAll
  <1>3. cgroup' \in [Pids -> CgroupName]
    BY <1>0, <1>1 DEF MoveAll, Target, CgroupName
  <1>4. moved' \in [Pids -> Move]
    BY <1>0, <1>1, ZeroAge DEF MoveAll, Target, Move
  <1>5. dry_run => moved' = moved
    <2>1. dry_run => Written(decision, works) = {}
      BY DEF Written
    <2> QED BY <1>0, <2>1 DEF MoveAll
  <1> QED BY <1>1, <1>2, <1>3, <1>4, <1>5 DEF Target

\* A record that was not settled by a move keeps its state, unless its
\* cooldown is over.
LEMMA CooldownOverFacts ==
  ASSUME NEW r \in Record
  PROVE  \/ CooldownOver(r) = r
         \/ /\ r.state = "COOLDOWN" /\ elapsed_at_least(r.entered, cooldown_duration_ms)
            /\ CooldownOver(r).state = "NONE"
  BY DEF CooldownOver

\* What the invariant says of one process.
PidInv(p) ==
    /\ moved[p].to = "THROTTLED" => /\ cgroup[p] = "THROTTLED"
                                    /\ p \in DOMAIN records /\ records[p].state = "THROTTLED"
    /\ moved[p].to = "BACKGROUND" => /\ cgroup[p] = "BACKGROUND"
                                     /\ p \in DOMAIN records /\ records[p].state # "THROTTLED"
    /\ AgesAgree(p)

\* A process that a step neither moves nor forgets keeps its part of the
\* invariant when its record only ages by nothing or ends its cooldown.
LEMMA UnmovedKeepsPidInv ==
  ASSUME TypeOK, UNCHANGED cfg, NEW p \in Pids, PidInv(p), NEW r \in Record,
         cgroup'[p] = cgroup[p], moved'[p] = moved[p],
         moved[p].to # "none" =>
             /\ p \in DOMAIN records' /\ records'[p] = CooldownOver(r)
             /\ r.state = records[p].state /\ r.entered = records[p].entered
  PROVE  PidInv(p)'
  <1>0. moved[p] \in Move /\ UNCHANGED cooldown_duration_ms
    BY CfgKept DEF TypeOK
  <1>1. CASE moved[p].to = "none"
    BY <1>1 DEF PidInv, AgesAgree
  <1>2. CASE moved[p].to # "none" /\ CooldownOver(r) = r
    BY <1>0, <1>2 DEF PidInv, AgesAgree, elapsed_at_least
  <1>3. CASE /\ moved[p].to # "none"
             /\ r.state = "COOLDOWN" /\ elapsed_at_least(r.entered, cooldown_duration_ms)
             /\ CooldownOver(r).state = "NONE"
    <2>1. moved[p].to = "BACKGROUND"
      BY <1>0, <1>3 DEF PidInv, Move
    <2>2. r.entered <= moved[p].age /\ r.entered \in Nat /\ moved[p].age \in Nat
      BY <1>0, <1>3, <2>1, ZeroAge DEF PidInv, AgesAgree, Record, Move
    <2>3. elapsed_at_least(moved[p].age, cooldown_duration_ms)
      BY <1>3, <2>2, ElapsedGrows, CfgType
    <2> QED BY <1>0, <1>3, <2>1, <2>3 DEF PidInv, AgesAgree, elapsed_at_least
  <1> QED BY <1>1, <1>2, <1>3, CooldownOverFacts

\* A process a step moves satisfies its part of the invariant afterwards.
LEMMA MovedKeepsPidInv ==
  ASSUME NEW p \in Pids, NEW r \in Record, NEW by, NEW d \in {"throttle", "release"},
         p \in DOMAIN records', records'[p] = Moved(r, d),
         cgroup'[p] = Target(d), moved'[p] = [to |-> Target(d), age |-> 0, by |-> by]
  PROVE  PidInv(p)'
  BY DEF PidInv, AgesAgree, Moved, Target

\* The loops of apply_candidates keep the invariant.
LEMMA SettleKeepsInv ==
  ASSUME ThrottleInv, initialized,
         NEW cands \in CandidateList, FitsRecords(cands),
         NEW works \in Outcomes, SettleRecords(cands, works),
         offered' = DOMAIN cands, UNCHANGED <<initialized, cfg, cpu_max>>
  PROVE  ThrottleInv'
  <1> DEFINE D == DOMAIN records \cup DOMAIN cands
             d == Decisions(cands)
  <1>0. TypeOK /\ RecordsFit /\ Phases
    BY DEF ThrottleInv
  <1>c. UNCHANGED <<max_records, cooldown_duration_ms, dry_run, configure_throttled_cpu_max>>
    BY CfgKept DEF Tick, Spawn, Exit, controller
  <1>1. /\ DOMAIN d = D /\ DOMAIN cands \subseteq Pids
        /\ \A p \in D : /\ p \in Pids
                        /\ Touched(cands, p) \in Record
                        /\ d[p] \in {"throttle", "release", "keep"}
    BY <1>0, DecisionFacts
  <1>2. /\ DOMAIN records' = D
        /\ \A p \in D : records'[p] = Settle(Touched(cands, p), d[p], p \in works)
    BY DEF SettleRecords
  <1>3. MoveAll(d, works, "apply")
    BY DEF SettleRecords
  <1>4. /\ cgroup' \in [Pids -> CgroupName] /\ moved' \in [Pids -> Move]
        /\ dry_run => moved' = moved
        /\ \A p \in Pids :
             \/ /\ p \in Written(d, works) /\ d[p] = "throttle"
                /\ cgroup'[p] = "THROTTLED"
                /\ moved'[p] = [to |-> "THROTTLED", age |-> 0, by |-> "apply"]
             \/ /\ p \in Written(d, works) /\ d[p] = "release"
                /\ cgroup'[p] = "BACKGROUND"
                /\ moved'[p] = [to |-> "BACKGROUND", age |-> 0, by |-> "apply"]
             \/ /\ p \notin Written(d, works)
                /\ cgroup'[p] = cgroup[p] /\ moved'[p] = moved[p]
    <2> HIDE DEF d
    <2>1. \A p \in DOMAIN d : d[p] \in {"throttle", "release", "keep"}
      BY <1>1
    <2> QED BY <1>0, <1>3, <2>1, MoveAllFacts
  <1> HIDE DEF d
  <1>5. TypeOK'
    <2>1. ASSUME NEW p \in D PROVE records'[p] \in Record
      <3>1. records'[p] = Settle(Touched(cands, p), d[p], p \in works)
        BY <1>2
      <3>2. Settle(Touched(cands, p), d[p], p \in works) \in Record
        BY <1>1, SettleType
      <3> QED BY <3>1, <3>2
    <2> QED BY <1>0, <1>1, <1>2, <1>4, <2>1 DEF TypeOK
  <1>6. RecordsFit'
    <2>1. Cardinality(D) <= max_records
      BY <1>0, FitsAfter
    <2> QED BY <1>2, <1>c, <2>1 DEF RecordsFit
  <1>7. Phases'
    BY <1>0, <1>c, <1>4 DEF Phases
  <1>8. ASSUME NEW p \in Pids PROVE PidInv(p)'
    <2>1. PidInv(p)
      BY DEF ThrottleInv, MovesAreRecorded, PidInv
    <2>2. CASE p \in Written(d, works)
      <3>1. p \in D /\ d[p] # "keep" /\ p \in works
        BY <1>1, <2>2 DEF Written
      <3>2. records'[p] = Moved(Touched(cands, p), d[p])
        BY <1>2, <3>1 DEF Settle
      <3>3. /\ d[p] \in {"throttle", "release"}
            /\ cgroup'[p] = Target(d[p])
            /\ moved'[p] = [to |-> Target(d[p]), age |-> 0, by |-> "apply"]
        BY <1>4, <2>2 DEF Target
      <3> QED BY <1>1, <1>2, <3>1, <3>2, <3>3, MovedKeepsPidInv
    <2>3. CASE p \notin Written(d, works)
      <3>1. cgroup'[p] = cgroup[p] /\ moved'[p] = moved[p]
        BY <1>4, <2>3
      <3>2. CASE moved[p].to = "none"
        BY <3>1, <3>2 DEF PidInv, AgesAgree
      <3>3. CASE moved[p].to # "none"
        <4>1. p \in DOMAIN records /\ p \in D /\ ~dry_run
          <5>1. moved[p] \in Move
            BY <1>0 DEF TypeOK
          <5> QED BY <1>0, <2>1, <3>3, <5>1 DEF PidInv, Phases, Move
        <4>2. d[p] = "keep" \/ p \notin works
          BY <1>1, <2>3, <4>1 DEF Written
        <4>3. records'[p] = CooldownOver(Touched(cands, p))
          BY <1>2, <4>1, <4>2 DEF Settle
        <4>4. /\ Touched(cands, p).state = records[p].state
              /\ Touched(cands, p).entered = records[p].entered
          <5>1. records[p] \in Record
            BY <1>0, <4>1 DEF TypeOK
          <5> QED BY <4>1, <5>1 DEF Touched, RecordOf, Record
        <4> QED BY <1>0, <1>1, <1>2, <2>1, <3>1, <4>1, <4>3, <4>4, UnmovedKeepsPidInv
      <3> QED BY <3>2, <3>3
    <2> QED BY <2>2, <2>3
  <1>9. MovesAreRecorded' /\ \A p \in Pids : AgesAgree(p)'
    BY <1>8 DEF MovesAreRecorded, PidInv
  <1> QED BY <1>5, <1>6, <1>7, <1>9 DEF ThrottleInv

\* The loop of release_all keeps the invariant.
LEMMA ReleaseKeepsInv ==
  ASSUME ThrottleInv, initialized,
         NEW works \in Outcomes, ReleaseRecords(works),
         UNCHANGED <<initialized, cfg, cpu_max, offered>>
  PROVE  ThrottleInv'
  <1> DEFINE D == DOMAIN records
             d == Rollback
  <1>0. TypeOK /\ RecordsFit /\ Phases
    BY DEF ThrottleInv
  <1>c. UNCHANGED <<max_records, cooldown_duration_ms, dry_run, configure_throttled_cpu_max>>
    BY CfgKept DEF Tick, Spawn, Exit, controller
  <1>1. /\ DOMAIN d = D
        /\ \A p \in D : /\ p \in Pids /\ records[p] \in Record
                        /\ d[p] = DecideRollback(records[p])
                        /\ d[p] \in {"release", "keep"}
    BY <1>0 DEF Rollback, TypeOK, DecideRollback
  <1>2. /\ DOMAIN records' = D
        /\ \A p \in D : records'[p] = IF d[p] = "release" THEN Settle(records[p], "release", p \in works)
                                                          ELSE records[p]
    BY DEF ReleaseRecords
  <1>3. MoveAll(d, works, "release_all")
    BY DEF ReleaseRecords
  <1> HIDE DEF d
  <1>4. /\ cgroup' \in [Pids -> CgroupName] /\ moved' \in [Pids -> Move]
        /\ dry_run => moved' = moved
        /\ \A p \in Pids :
             \/ /\ p \in Written(d, works) /\ d[p] = "throttle"
                /\ cgroup'[p] = "THROTTLED"
                /\ moved'[p] = [to |-> "THROTTLED", age |-> 0, by |-> "release_all"]
             \/ /\ p \in Written(d, works) /\ d[p] = "release"
                /\ cgroup'[p] = "BACKGROUND"
                /\ moved'[p] = [to |-> "BACKGROUND", age |-> 0, by |-> "release_all"]
             \/ /\ p \notin Written(d, works)
                /\ cgroup'[p] = cgroup[p] /\ moved'[p] = moved[p]
    <2>1. \A p \in DOMAIN d : d[p] \in {"throttle", "release", "keep"}
      BY <1>1
    <2> QED BY <1>0, <1>3, <2>1, MoveAllFacts
  <1>5. TypeOK'
    <2>1. ASSUME NEW p \in D PROVE records'[p] \in Record
      <3>1. Settle(records[p], "release", p \in works) \in Record
        BY <1>1, SettleType
      <3> QED BY <1>1, <1>2, <3>1
    <2> QED BY <1>0, <1>2, <1>4, <2>1 DEF TypeOK
  <1>6. RecordsFit'
    BY <1>0, <1>c, <1>2 DEF RecordsFit
  <1>7. Phases'
    BY <1>0, <1>c, <1>4 DEF Phases
  <1>8. ASSUME NEW p \in Pids PROVE PidInv(p)'
    <2>1. PidInv(p)
      BY DEF ThrottleInv, MovesAreRecorded, PidInv
    <2>2. CASE p \in Written(d, works)
      <3>1. p \in D /\ d[p] = "release" /\ p \in works
        BY <1>1, <2>2 DEF Written
      <3>2. records'[p] = Moved(records[p], "release")
        BY <1>2, <3>1 DEF Settle
      <3>3. /\ cgroup'[p] = Target("release")
            /\ moved'[p] = [to |-> Target("release"), age |-> 0, by |-> "release_all"]
        BY <1>4, <2>2, <3>1 DEF Target
      <3> QED BY <1>1, <1>2, <3>1, <3>2, <3>3, MovedKeepsPidInv
    <2>3. CASE p \notin Written(d, works)
      <3>1. cgroup'[p] = cgroup[p] /\ moved'[p] = moved[p]
        BY <1>4, <2>3
      <3>2. CASE moved[p].to = "none"
        BY <3>1, <3>2 DEF PidInv, AgesAgree
      <3>3. CASE moved[p].to # "none"
        <4>1. p \in D /\ ~dry_run
          <5>1. moved[p] \in Move
            BY <1>0 DEF TypeOK
          <5> QED BY <1>0, <2>1, <3>3, <5>1 DEF PidInv, Phases, Move
        <4>2. d[p] = "keep" \/ p \notin works
          BY <1>1, <2>3, <4>1 DEF Written
        <4>3. records'[p] = records[p]
          BY <1>1, <1>2, <4>1, <4>2 DEF Settle, CooldownOver, DecideRollback
        <4> QED BY <1>c, <1>2, <2>1, <3>1, <4>1, <4>3 DEF PidInv, AgesAgree, elapsed_at_least
      <3> QED BY <3>2, <3>3
    <2> QED BY <2>2, <2>3
  <1>9. MovesAreRecorded' /\ \A p \in Pids : AgesAgree(p)'
    BY <1>8 DEF MovesAreRecorded, PidInv
  <1> QED BY <1>5, <1>6, <1>7, <1>9 DEF ThrottleInv

\* Time passes: ages grow together, so they stay in order.
LEMMA TickKeepsInv == ThrottleInv /\ Tick => ThrottleInv'
  <1> SUFFICES ASSUME ThrottleInv, Tick PROVE ThrottleInv'
    OBVIOUS
  <1>0. TypeOK /\ RecordsFit /\ Phases
    BY DEF ThrottleInv
  <1>c. UNCHANGED <<max_records, cooldown_duration_ms, dry_run, configure_throttled_cpu_max>>
    BY CfgKept DEF Tick, Spawn, Exit, controller
  <1>1. /\ DOMAIN records' = DOMAIN records
        /\ \A p \in DOMAIN records :
             records'[p] = Aged(records[p])
    BY DEF Tick
  <1>2. \A p \in DOMAIN records : p \in Pids /\ records[p] \in Record
    BY <1>0 DEF TypeOK
  <1>3. ASSUME NEW p \in DOMAIN records
        PROVE  /\ records'[p] \in Record
               /\ records'[p].state = records[p].state
               /\ records'[p].entered = Older(records[p].entered)
    <2>1. records'[p] = Aged(records[p]) /\ records[p] \in Record
      BY <1>1, <1>2
    <2>2. Older(records[p].seen) \in Age /\ Older(records[p].entered) \in Age
      BY <2>1, OlderFacts DEF Record
    <2> QED BY <2>1, <2>2 DEF Aged, Record
  <1>4. ASSUME NEW p \in Pids
        PROVE  /\ moved[p] \in Move /\ moved'[p] \in Move
               /\ moved'[p].to = moved[p].to
               /\ moved[p].to # "none" => moved'[p].age = Older(moved[p].age)
    <2>1. moved[p] \in Move
      BY <1>0 DEF TypeOK
    <2>2. moved'[p] = IF moved[p] = NotMoved THEN NotMoved
                      ELSE [moved[p] EXCEPT !.age = Older(moved[p].age)]
      BY DEF Tick
    <2> QED BY <2>1, <2>2, OlderFacts, ZeroAge DEF NotMoved, Move
  <1>5. TypeOK'
    <2>1. DOMAIN records' \subseteq Pids /\ \A p \in DOMAIN records' : records'[p] \in Record
      BY <1>1, <1>2, <1>3
    <2>2. moved' \in [Pids -> Move]
      <3>1. moved' = [p \in Pids |-> moved'[p]]
        BY DEF Tick
      <3> QED BY <1>4, <3>1
    <2> QED BY <1>0, <2>1, <2>2 DEF TypeOK, Tick
  <1>6. RecordsFit'
    BY <1>0, <1>c, <1>1 DEF RecordsFit
  <1>7. Phases'
    <2>1. ~initialized => records' = NoRecords
      BY <1>0, <1>1 DEF Phases, NoRecords, Tick
    <2> QED BY <1>0, <1>c, <1>4, <2>1 DEF Phases, Tick
  <1>8. ASSUME NEW p \in Pids PROVE PidInv(p)'
    <2>1. PidInv(p)
      BY DEF ThrottleInv, MovesAreRecorded, PidInv
    <2>2. cgroup'[p] = cgroup[p]
      BY DEF Tick
    <2>3. CASE moved[p].to = "none"
      BY <1>4, <2>3 DEF PidInv, AgesAgree
    <2>4. CASE moved[p].to # "none"
      <3>1. p \in DOMAIN records
        BY <1>4, <2>1, <2>4 DEF PidInv, Move
      <3>2. records[p].entered \in Age /\ moved[p].age \in Age
        BY <1>2, <1>4, <3>1 DEF Record, Move
      <3>3. /\ records[p].entered <= moved[p].age => records'[p].entered <= moved'[p].age
            /\ moved[p].age <= moved'[p].age
            /\ moved[p].age \in Nat /\ moved'[p].age \in Nat
        BY <1>3, <1>4, <2>4, <3>1, <3>2, OlderFacts, ZeroAge
      <3>4. elapsed_at_least(moved[p].age, cooldown_duration_ms)
              => elapsed_at_least(moved'[p].age, cooldown_duration_ms)
        BY <1>0, <3>3, ElapsedGrows, CfgType
      <3> QED BY <1>c, <1>1, <1>3, <1>4, <2>1, <2>2, <3>1, <3>3, <3>4
              DEF PidInv, AgesAgree, elapsed_at_least
    <2> QED BY <2>3, <2>4
  <1>9. MovesAreRecorded' /\ \A p \in Pids : AgesAgree(p)'
    BY <1>8 DEF MovesAreRecorded, PidInv
  <1> QED BY <1>5, <1>6, <1>7, <1>9 DEF ThrottleInv

\* Processes come and go: their history starts anew.
LEMMA ProcessKeepsInv ==
  ASSUME ThrottleInv, NEW q \in Pids, Spawn(q) \/ Exit(q)
  PROVE  ThrottleInv'
  <1>0. TypeOK /\ RecordsFit /\ Phases
    BY DEF ThrottleInv
  <1>c. UNCHANGED <<max_records, cooldown_duration_ms, dry_run, configure_throttled_cpu_max>>
    BY CfgKept DEF Tick, Spawn, Exit, controller
  <1>1. /\ moved' = [moved EXCEPT ![q] = NotMoved]
        /\ UNCHANGED <<initialized, cfg, records, cpu_max, offered>>
        /\ \A p \in Pids \ {q} : cgroup'[p] = cgroup[p]
        /\ cgroup' \in [Pids -> CgroupName]
    <2>1. CASE Spawn(q)
      <3>1. PICK g \in {"BACKGROUND"} \cup {cgroup[x] : x \in Alive} : cgroup' = [cgroup EXCEPT ![q] = g]
        BY <2>1 DEF Spawn
      <3>2. g \in CgroupName
        BY <1>0 DEF TypeOK, Alive, CgroupName
      <3> QED BY <1>0, <2>1, <3>1, <3>2 DEF Spawn, controller, TypeOK
    <2>2. CASE Exit(q)
      BY <1>0, <2>2 DEF Exit, controller, TypeOK, CgroupName
    <2> QED BY <2>1, <2>2
  <1>2. moved \in [Pids -> Move] /\ moved' \in [Pids -> Move]
    BY <1>0, <1>1, ZeroAge DEF TypeOK, Move, NotMoved
  <1>3. \A p \in Pids : moved'[p] = IF p = q THEN NotMoved ELSE moved[p]
    BY <1>1, <1>2
  <1>4. TypeOK' /\ RecordsFit'
    BY <1>0, <1>c, <1>1, <1>2 DEF TypeOK, RecordsFit
  <1>5. Phases'
    BY <1>0, <1>c, <1>1, <1>3 DEF Phases, NotMoved
  <1>6. ASSUME NEW p \in Pids PROVE PidInv(p)'
    <2>1. PidInv(p)
      BY DEF ThrottleInv, MovesAreRecorded, PidInv
    <2>2. CASE p = q
      BY <1>3, <2>2 DEF PidInv, AgesAgree, NotMoved
    <2>3. CASE p # q
      BY <1>c, <1>1, <1>3, <2>1, <2>3 DEF PidInv, AgesAgree, elapsed_at_least
    <2> QED BY <2>2, <2>3
  <1>7. MovesAreRecorded' /\ \A p \in Pids : AgesAgree(p)'
    BY <1>6 DEF MovesAreRecorded, PidInv
  <1> QED BY <1>4, <1>5, <1>7 DEF ThrottleInv

\* Init establishes the invariant.
LEMMA InitInv == Init => ThrottleInv
  <1> SUFFICES ASSUME Init PROVE ThrottleInv
    OBVIOUS
  <1>1. TypeOK
    BY ZeroAge DEF Init, TypeOK, NoRecords, CgroupName, Move, NotMoved
  <1>2. Phases
    BY DEF Init, Phases, NotMoved
  <1>3. RecordsFit
    BY <1>1, FS_EmptySet, CfgType DEF Init, NoRecords, RecordsFit
  <1>4. MovesAreRecorded /\ \A p \in Pids : AgesAgree(p)
    BY DEF Init, NotMoved, MovesAreRecorded, AgesAgree
  <1> QED BY <1>1, <1>2, <1>3, <1>4 DEF ThrottleInv

\* throttle_controller_init and throttle_controller_destroy keep it.
LEMMA LifecycleKeepsInv ==
  ASSUME ThrottleInv, NEW c \in Configs, throttle_controller_init(c) \/ throttle_controller_destroy
  PROVE  ThrottleInv'
  <1>0. TypeOK /\ Phases
    BY DEF ThrottleInv
  <1>1. records' = NoRecords
    BY DEF throttle_controller_init, throttle_controller_destroy
  <1>2. \A p \in Pids : moved'[p].to = "none"
    BY DEF throttle_controller_init, throttle_controller_destroy, NotMoved
  <1>3. TypeOK'
    <2>1. initialized' \in BOOLEAN /\ cpu_max' \in BOOLEAN
      <3>1. c.dry_run \in BOOLEAN /\ c.configure_throttled_cpu_max \in BOOLEAN
        BY ConfigAssumption DEF ConfigAssumption, Config
      <3>2. CASE throttle_controller_init(c)
        BY <1>0, <3>1, <3>2 DEF TypeOK, throttle_controller_init, InitFailed
      <3>3. CASE throttle_controller_destroy
        BY <1>0, <3>3 DEF TypeOK, throttle_controller_destroy
      <3> QED BY <3>2, <3>3
    <2>2. moved' \in [Pids -> Move]
      <3>1. NotMoved \in Move
        BY ZeroAge DEF NotMoved, Move
      <3> QED BY <3>1 DEF throttle_controller_init, throttle_controller_destroy
    <2>3. cgroup' = cgroup /\ offered' = offered /\ cfg' \in Configs
      BY <1>0 DEF TypeOK, throttle_controller_init, throttle_controller_destroy
    <2> QED BY <1>0, <1>1, <2>1, <2>2, <2>3 DEF TypeOK, NoRecords
  <1>4. Phases'
    <2>1. initialized' /\ configure_throttled_cpu_max' /\ ~dry_run' => cpu_max'
      BY DEF throttle_controller_init, throttle_controller_destroy, InitFailed,
             configure_throttled_cpu_max, dry_run
    <2> QED BY <1>1, <1>2, <2>1 DEF Phases
  <1>5. RecordsFit'
    <2>1. max_records' \in Nat
      BY <1>3, ConfigAssumption DEF ConfigAssumption, TypeOK, Config, max_records
    <2> QED BY <1>1, <2>1, FS_EmptySet DEF NoRecords, RecordsFit
  <1>6. MovesAreRecorded' /\ \A p \in Pids : AgesAgree(p)'
    BY <1>2 DEF MovesAreRecorded, AgesAgree
  <1> QED BY <1>3, <1>4, <1>5, <1>6 DEF ThrottleInv

\* A step that leaves the controller and the cgroups alone.
LEMMA RefusalKeepsInv ==
  ASSUME ThrottleInv, UNCHANGED <<controller, system>>, offered' \subseteq Pids
  PROVE  ThrottleInv'
  <1>1. UNCHANGED <<initialized, cfg, records, cpu_max, cgroup, moved>>
    BY DEF controller, system
  <1>2. UNCHANGED <<max_records, cooldown_duration_ms, dry_run, configure_throttled_cpu_max>>
    BY <1>1, CfgKept
  <1> QED BY <1>1, <1>2 DEF ThrottleInv, TypeOK, RecordsFit, Phases, MovesAreRecorded, AgesAgree,
                            elapsed_at_least

\* Every step keeps the invariant.
LEMMA NextKeepsInv == ThrottleInv /\ [Next]_vars => ThrottleInv'
  <1> SUFFICES ASSUME ThrottleInv, [Next]_vars PROVE ThrottleInv'
    OBVIOUS
  <1>0. offered \subseteq Pids
    BY DEF ThrottleInv, TypeOK
  <1>1. CASE (\E c \in Configs : throttle_controller_init(c)) \/ throttle_controller_destroy
    <2>1. cfg \in Configs
      BY DEF ThrottleInv, TypeOK
    <2> QED BY <1>1, <2>1, LifecycleKeepsInv
  <1>2. CASE Apply
    <2>1. PICK cands \in CandidateList : throttle_controller_apply_candidates(cands)
      BY <1>2 DEF Apply
    <2>2. DOMAIN cands \subseteq Pids
      BY DEF CandidateList
    <2>3. CASE \E code : ApplyRefused(cands, code)
      BY <2>2, <2>3, RefusalKeepsInv DEF ApplyRefused
    <2>4. CASE /\ initialized /\ FitsRecords(cands)
               /\ \E works \in Outcomes : SettleRecords(cands, works)
               /\ offered' = DOMAIN cands
               /\ UNCHANGED <<initialized, cfg, cpu_max>>
      BY <2>4, SettleKeepsInv
    <2> QED BY <2>1, <2>3, <2>4 DEF throttle_controller_apply_candidates
  <1>3. CASE throttle_controller_release_all
    <2>1. CASE UNCHANGED <<controller, system, offered>>
      BY <1>0, <2>1, RefusalKeepsInv
    <2>2. CASE /\ initialized
               /\ \E works \in Outcomes : ReleaseRecords(works)
               /\ UNCHANGED <<initialized, cfg, cpu_max, offered>>
      BY <2>2, ReleaseKeepsInv
    <2> QED BY <1>3, <2>1, <2>2 DEF throttle_controller_release_all
  <1>4. CASE Tick
    BY <1>4, TickKeepsInv
  <1>5. CASE \E p \in Pids : Spawn(p) \/ Exit(p)
    BY <1>5, ProcessKeepsInv
  <1>6. CASE UNCHANGED vars
    <2>1. UNCHANGED <<controller, system, offered>>
      BY <1>6 DEF vars, controller, system
    <2> QED BY <1>0, <2>1, RefusalKeepsInv
  <1> QED BY <1>1, <1>2, <1>3, <1>4, <1>5, <1>6 DEF Next

\* The invariant holds in every reachable state.
THEOREM InvariantHolds == Spec => []ThrottleInv
  <1>1. Init => ThrottleInv
    BY InitInv
  <1>2. ThrottleInv /\ [Next]_vars => ThrottleInv'
    BY NextKeepsInv
  <1> QED BY <1>1, <1>2, PTL DEF Spec

\* Every variable keeps its type; in particular no recorded age is out of range.
THEOREM TypesHold == Spec => []TypeOK
  <1>1. ThrottleInv => TypeOK
    BY DEF ThrottleInv
  <1> QED BY <1>1, InvariantHolds, PTL

\* The record array never outgrows max_records, so apply_candidates never
\* leaves its first loop half way.
THEOREM NeverOutgrown == Spec => []RecordsFit
  <1>1. ThrottleInv => RecordsFit
    BY DEF ThrottleInv
  <1> QED BY <1>1, InvariantHolds, PTL

\* Whatever cgroup writes fail, the records say where the controller put
\* each live process.
THEOREM NeverLosesTrack == Spec => []MovesAreRecorded
  <1>1. ThrottleInv => MovesAreRecorded
    BY DEF ThrottleInv
  <1> QED BY <1>1, InvariantHolds, PTL

\* No process is put in the throttled cgroup before its limit is written.
THEOREM LimitComesFirst == Spec => []QuotaBeforeThrottle
  <1>1. ThrottleInv => QuotaBeforeThrottle
    <2> SUFFICES ASSUME ThrottleInv, configure_throttled_cpu_max,
                        NEW p \in Pids, moved[p].to = "THROTTLED"
                 PROVE  cpu_max
      BY DEF QuotaBeforeThrottle
    <2>1. p \in DOMAIN records /\ ~dry_run
      BY DEF ThrottleInv, MovesAreRecorded, Phases
    <2>2. initialized
      BY <2>1 DEF ThrottleInv, Phases, NoRecords
    <2> QED BY <2>1, <2>2 DEF ThrottleInv, Phases
  <1> QED BY <1>1, InvariantHolds, PTL

-----------------------------------------------------------------------------
(* Action properties.                                                      *)

\* Only the loops of apply_candidates and release_all put a process anywhere.
LEMMA WhoMoves ==
  ASSUME ThrottleInv, [Next]_vars, NEW p \in Pids,
         moved'[p].to # moved[p].to, moved'[p].to # "none"
  PROVE  \/ moved'[p].to = "BACKGROUND" /\ moved'[p].by = "release_all"
         \/ \E cands \in CandidateList :
              /\ p \in DOMAIN records \cup DOMAIN cands
              /\ \/ Decisions(cands)[p] = "throttle" /\ moved'[p].to = "THROTTLED"
                 \/ Decisions(cands)[p] = "release" /\ moved'[p].to = "BACKGROUND"
  <1>0. TypeOK /\ moved[p] \in Move
    BY DEF ThrottleInv, TypeOK
  <1>1. CASE \E c \in Configs : throttle_controller_init(c)
    BY <1>1 DEF throttle_controller_init, NotMoved
  <1>2. CASE throttle_controller_destroy
    BY <1>2 DEF throttle_controller_destroy, NotMoved
  <1>3. CASE Apply
    <2>1. PICK cands \in CandidateList : throttle_controller_apply_candidates(cands)
      BY <1>3 DEF Apply
    <2>2. PICK works \in Outcomes : SettleRecords(cands, works)
      BY <2>1 DEF throttle_controller_apply_candidates, ApplyRefused, system
    <2>3. /\ MoveAll(Decisions(cands), works, "apply")
          /\ DOMAIN Decisions(cands) = DOMAIN records \cup DOMAIN cands
          /\ \A q \in DOMAIN Decisions(cands) : Decisions(cands)[q] \in {"throttle", "release", "keep"}
      BY <1>0, <2>2, DecisionFacts DEF SettleRecords
    <2>4. p \in Written(Decisions(cands), works) =>
            \/ Decisions(cands)[p] = "throttle" /\ moved'[p].to = "THROTTLED"
            \/ Decisions(cands)[p] = "release" /\ moved'[p].to = "BACKGROUND"
      BY <1>0, <2>3, MoveAllFacts
    <2>5. p \in Written(Decisions(cands), works)
      BY <1>0, <2>3, MoveAllFacts
    <2> QED BY <2>3, <2>4, <2>5 DEF Written
  <1>4. CASE throttle_controller_release_all
    <2>1. PICK works \in Outcomes : ReleaseRecords(works)
      BY <1>4 DEF throttle_controller_release_all, system
    <2>2. /\ MoveAll(Rollback, works, "release_all")
          /\ \A q \in DOMAIN Rollback : Rollback[q] \in {"release", "keep"}
      BY <2>1 DEF ReleaseRecords, Rollback, DecideRollback
    <2>3. p \in Written(Rollback, works) =>
            moved'[p] = [to |-> "BACKGROUND", age |-> 0, by |-> "release_all"]
      BY <1>0, <2>2, MoveAllFacts DEF Written
    <2>4. p \in Written(Rollback, works)
      BY <1>0, <2>2, MoveAllFacts
    <2> QED BY <2>3, <2>4
  <1>5. CASE Tick
    <2>1. moved'[p] = IF moved[p] = NotMoved THEN NotMoved
                      ELSE [moved[p] EXCEPT !.age = Older(moved[p].age)]
      BY <1>5 DEF Tick
    <2> QED BY <1>0, <2>1 DEF NotMoved, Move
  <1>6. CASE \E q \in Pids : Spawn(q) \/ Exit(q)
    <2>1. PICK q \in Pids : moved' = [moved EXCEPT ![q] = NotMoved]
      BY <1>6 DEF Spawn, Exit
    <2> QED BY <1>0, <2>1 DEF NotMoved, TypeOK
  <1>7. CASE UNCHANGED vars
    BY <1>7 DEF vars
  <1> QED BY <1>1, <1>2, <1>3, <1>4, <1>5, <1>6, <1>7 DEF Next

\* Both loops release a process only after the minimum time in state.
LEMMA ReleaseWaits ==
  ASSUME NEW cands \in CandidateList, NEW p \in DOMAIN records,
         Decisions(cands)[p] = "release"
  PROVE  elapsed_at_least(records[p].entered, min_throttle_duration_ms)
  BY DEF Decisions, DecideSeen, DecideUnseen, MayRelease, RecordOf

\* A record that is throttled was in no state but NONE or a finished cooldown.
LEMMA ThrottleWaits ==
  ASSUME NEW cands \in CandidateList, NEW p \in DOMAIN records,
         Decisions(cands)[p] = "throttle"
  PROVE  \/ records[p].state = "NONE"
         \/ /\ records[p].state = "COOLDOWN"
            /\ elapsed_at_least(records[p].entered, cooldown_duration_ms)
  BY DEF Decisions, DecideSeen, DecideUnseen, RecordOf

\* What the invariant says of a moved process, with the types it needs.
LEMMA MovedFacts ==
  ASSUME ThrottleInv, NEW p \in Pids, moved[p].to # "none"
  PROVE  /\ p \in DOMAIN records
         /\ records[p].entered \in Nat
         /\ moved[p].age \in Age /\ moved[p].age \in Nat
         /\ PidInv(p)
  <1>1. moved[p] \in Move /\ PidInv(p)
    BY DEF ThrottleInv, TypeOK, MovesAreRecorded, PidInv
  <1>2. p \in DOMAIN records
    BY <1>1 DEF PidInv, Move
  <1>3. records[p] \in Record
    BY <1>2 DEF ThrottleInv, TypeOK
  <1> QED BY <1>1, <1>2, <1>3, ZeroAge DEF Move, Record

\* apply_candidates never releases a process before
\* min_throttle_duration_ms has passed, overflow of the conversion included.
THEOREM MinDurationHolds == Spec => MinDurationKept
  <1>1. ASSUME ThrottleInv, [Next]_vars, NEW p \in Pids,
               moved[p].to = "THROTTLED", moved'[p].to = "BACKGROUND", moved'[p].by = "apply"
        PROVE  moved[p].age >= min_throttle_duration_ms * NSEC_PER_MSEC
    <2>1. PICK cands \in CandidateList : Decisions(cands)[p] = "release"
      BY <1>1, WhoMoves
    <2>2. /\ p \in DOMAIN records /\ records[p].entered \in Nat
          /\ moved[p].age \in Age /\ moved[p].age \in Nat
          /\ records[p].entered <= moved[p].age
      BY <1>1, MovedFacts DEF PidInv, AgesAgree
    <2>3. elapsed_at_least(records[p].entered, min_throttle_duration_ms)
      BY <2>1, <2>2, ReleaseWaits
    <2>4. min_throttle_duration_ms \in Nat
      BY <1>1, CfgType DEF ThrottleInv
    <2>5. elapsed_at_least(moved[p].age, min_throttle_duration_ms)
      BY <2>2, <2>3, <2>4, ElapsedGrows
    <2> QED BY <2>2, <2>4, <2>5, ElapsedIsReal
  <1>2. ThrottleInv /\ [Next]_vars =>
          [\A p \in Pids :
             /\ moved[p].to = "THROTTLED"
             /\ moved'[p].to = "BACKGROUND"
             /\ moved'[p].by = "apply"
             => moved[p].age >= min_throttle_duration_ms * NSEC_PER_MSEC]_vars
    BY <1>1
  <1> QED BY <1>2, InvariantHolds, PTL DEF Spec, MinDurationKept

\* A released process is not throttled again before cooldown_duration_ms has
\* passed, whoever released it.
THEOREM CooldownHolds == Spec => CooldownKept
  <1>1. ASSUME ThrottleInv, [Next]_vars, NEW p \in Pids,
               moved[p].to = "BACKGROUND", moved'[p].to = "THROTTLED"
        PROVE  moved[p].age >= cooldown_duration_ms * NSEC_PER_MSEC
    <2>1. PICK cands \in CandidateList : Decisions(cands)[p] = "throttle"
      BY <1>1, WhoMoves
    <2>2. /\ p \in DOMAIN records /\ records[p].entered \in Nat
          /\ moved[p].age \in Age /\ moved[p].age \in Nat /\ PidInv(p)
      BY <1>1, MovedFacts
    <2>3. cooldown_duration_ms \in Nat
      BY <1>1, CfgType DEF ThrottleInv
    <2>4. CASE records[p].state = "NONE"
      <3>1. elapsed_at_least(moved[p].age, cooldown_duration_ms)
        BY <1>1, <2>2, <2>4 DEF PidInv, AgesAgree
      <3> QED BY <2>2, <2>3, <3>1, ElapsedIsReal
    <2>5. CASE /\ records[p].state = "COOLDOWN"
               /\ elapsed_at_least(records[p].entered, cooldown_duration_ms)
      <3>1. records[p].entered <= moved[p].age
        BY <1>1, <2>2, <2>5 DEF PidInv, AgesAgree
      <3>2. elapsed_at_least(moved[p].age, cooldown_duration_ms)
        BY <2>2, <2>3, <2>5, <3>1, ElapsedGrows
      <3> QED BY <2>2, <2>3, <3>2, ElapsedIsReal
    <2> QED BY <2>1, <2>2, <2>4, <2>5, ThrottleWaits
  <1>2. ThrottleInv /\ [Next]_vars =>
          [\A p \in Pids :
             moved[p].to = "BACKGROUND" /\ moved'[p].to = "THROTTLED"
             => moved[p].age >= cooldown_duration_ms * NSEC_PER_MSEC]_vars
    BY <1>1
  <1> QED BY <1>2, InvariantHolds, PTL DEF Spec, CooldownKept

\* After a release_all, a process the controller throttled is still throttled
\* only if its own write failed, and then the call reports an error.
THEOREM RollbackHolds == Spec => []RollbackComplete
  <1>1. Init => RollbackComplete
    BY DEF Init, Returned, RollbackComplete
  <1>2. ThrottleInv /\ RollbackComplete /\ [Next]_vars => RollbackComplete'
    <2> SUFFICES ASSUME ThrottleInv, RollbackComplete, [Next]_vars,
                        ret'.op = "release_all", ret'.code \in {"OK", "CGROUP"},
                        NEW p \in Pids, moved'[p].to = "THROTTLED"
                 PROVE  p \in ret'.failed /\ ret'.code = "CGROUP"
      BY DEF RollbackComplete
    <2>0. TypeOK
      BY DEF ThrottleInv
    <2>1. CASE throttle_controller_release_all
      <3>0. CASE ~initialized
        BY <2>1, <3>0 DEF throttle_controller_release_all, Returned
      <3>1. CASE initialized
        <4>0. \/ ret' = Returned("release_all", "TIME")
              \/ \E works \in Outcomes : ReleaseRecords(works)
          BY <2>1, <3>1, Zenon DEF throttle_controller_release_all
        <4>1. PICK works \in Outcomes : ReleaseRecords(works)
          <5>1. ret' # Returned("release_all", "TIME")
            BY DEF Returned
          <5> QED BY <4>0, <5>1, Zenon
        <4>2. /\ MoveAll(Rollback, works, "release_all")
              /\ \A q \in DOMAIN Rollback : Rollback[q] \in {"release", "keep"}
              /\ ret' = LoopResult("release_all", Failed(Rollback, works))
          BY <4>1 DEF ReleaseRecords, Rollback, DecideRollback
        <4>3. p \notin Written(Rollback, works) /\ moved[p].to = "THROTTLED"
          BY <2>0, <4>2, MoveAllFacts DEF Written
        <4>4. p \in DOMAIN records /\ records[p].state = "THROTTLED" /\ ~dry_run
          BY <4>3 DEF ThrottleInv, MovesAreRecorded, Phases
        <4>5. p \in DOMAIN Rollback /\ Rollback[p] = "release"
          BY <4>4 DEF Rollback, DecideRollback
        <4>6. p \in Failed(Rollback, works)
          BY <4>3, <4>4, <4>5 DEF Written, Failed
        <4> QED BY <4>2, <4>6 DEF LoopResult
      <3> QED BY <3>0, <3>1
    <2>2. CASE \E c \in Configs : throttle_controller_init(c)
      BY <2>2 DEF throttle_controller_init, InitFailed, Returned
    <2>3. CASE throttle_controller_destroy
      BY <2>3 DEF throttle_controller_destroy, Returned
    <2>4. CASE Apply
      <3>1. PICK cands \in CandidateList : throttle_controller_apply_candidates(cands)
        BY <2>4 DEF Apply
      <3>2. ret'.op = "apply"
        BY <3>1 DEF throttle_controller_apply_candidates, ApplyRefused, SettleRecords, Returned, LoopResult
      <3> QED BY <3>2
    <2>5. CASE Tick
      <3>1. moved[p] \in Move /\ moved'[p] = IF moved[p] = NotMoved THEN NotMoved
                                             ELSE [moved[p] EXCEPT !.age = Older(moved[p].age)]
        BY <2>0, <2>5 DEF Tick, TypeOK
      <3>2. moved[p].to = "THROTTLED"
        BY <3>1 DEF NotMoved, Move
      <3> QED BY <2>5, <3>2 DEF RollbackComplete, Tick
    <2>6. CASE \E q \in Pids : Spawn(q) \/ Exit(q)
      <3>1. PICK q \in Pids : moved' = [moved EXCEPT ![q] = NotMoved] /\ UNCHANGED ret
        BY <2>6 DEF Spawn, Exit
      <3>2. moved[p].to = "THROTTLED"
        BY <2>0, <3>1 DEF NotMoved, TypeOK
      <3> QED BY <3>1, <3>2 DEF RollbackComplete
    <2>7. CASE UNCHANGED vars
      BY <2>7 DEF vars, RollbackComplete
    <2> QED BY <2>1, <2>2, <2>3, <2>4, <2>5, <2>6, <2>7 DEF Next
  <1> QED BY <1>1, <1>2, InvariantHolds, PTL DEF Spec

=============================================================================
