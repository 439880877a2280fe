---------------------------- MODULE MCBackground ----------------------------
(***************************************************************************)
(* What goes on without the user, in one run: the calls that share the     *)
(* slots of the inference scheduler, and the workers of a goal.  A         *)
(* behaviour is one of Parts; the other stays at its initial state.        *)
(***************************************************************************)
EXTENDS MCInferenceScheduler, GoalRunner

CONSTANT Parts

VARIABLE part \* the one that runs

backgroundVars == <<part, vars, goalVars>>

\* Only one part moves, so that probes and workers share their names.
Interchangeable == Permutations(Probers)

BackgroundInit ==
  /\ part \in Parts
  /\ Init /\ GoalInit
  /\ part = "goal" \/ step.stage = "plan"

SchedulerPart ==
  /\ part = "scheduler" /\ Next
  /\ UNCHANGED <<part, goalVars>>

GoalPart ==
  /\ part = "goal" /\ GoalNext
  /\ UNCHANGED <<part, vars>>

\* A goal comes to an end; the scheduler must not.
Rests ==
  /\ part # "scheduler"
  /\ UNCHANGED backgroundVars

BackgroundNext == SchedulerPart \/ GoalPart \/ Rests

BackgroundSpec == BackgroundInit /\ [][BackgroundNext]_backgroundVars
=============================================================================
