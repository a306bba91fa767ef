----------------------------- MODULE OracleSteps -----------------------------
(***************************************************************************)
(* The vocabulary the five oracle experiments share.  run_condition of     *)
(* each program is a straight line of calls, each of which may fail and    *)
(* then leads to one clean-up at the end.  A program is therefore given by *)
(* the sequence of its steps; OracleRun says what a step does.             *)
(***************************************************************************)
EXTENDS Sequences, Integers, SequencesExt

Step(op, who) == [op |-> op, who |-> who]

\* A loop over the workers that makes one call, or several, for each.
ForEach(op, workers) == [i \in 1..Len(workers) |-> Step(op, workers[i])]
ForEachAll(ops, workers) ==
    [i \in 1..Len(ops) * Len(workers) |->
       Step(ops[((i - 1) % Len(ops)) + 1], workers[((i - 1) \div Len(ops)) + 1])]

\* The candidates of the experiments with five overlap levels.
Levels == <<"o0", "o25", "o50", "o75", "o100">>
=============================================================================
