------------------------ MODULE TaskEngine_proofs ------------------------
(***************************************************************************)
(* What holds of a durable task for any number of plans, runs, attempts,   *)
(* effects and restarts.                                                   *)
(*                                                                         *)
(* One argument carries all the theorems.  The lemmas ...Writers say which *)
(* operations write a table, the lemmas ...Moves what an operation may do  *)
(* to one row of it (RunMove, AttemptMove, EffectMove, StepMove); every    *)
(* invariant below is then preserved by a few kinds of moves instead of by *)
(* every operation.                                                        *)
(***************************************************************************)
EXTENDS TaskEngine, TLAPS

(***************************************************************************)
(* The references between the tables, which the schema declares as foreign *)
(* keys and the operations rely on: a run that exists was begun for a      *)
(* plan, an attempt belongs to a run and is about a step of its plan, an   *)
(* effect belongs to an attempt.                                           *)
(***************************************************************************)
Linked ==
  /\ \A r \in Runs : run[r].state # "none" => run[r].plan \in Plans
  /\ \A a \in Attempts : attempt[a].state # "none" =>
       /\ attempt[a].run \in Runs /\ run[attempt[a].run].state # "none"
       /\ attempt[a].step \in Steps /\ attempt[a].step[1] = run[attempt[a].run].plan
  /\ \A e \in Effects : effect[e].state # "none" =>
       effect[e].attempt \in Attempts /\ attempt[effect[e].attempt].state # "none"


(***************************************************************************)
(* What an update of one column does to a table.                           *)
(***************************************************************************)
\* The task gets a new state.
LEMMA TaskUpdate ==
  ASSUME NEW x \in TaskRow, NEW st \in TaskStates
  PROVE  [x EXCEPT !.state = st] \in TaskRow
BY DEF TaskRow

\* A step gets a new state and the next revision.
LEMMA StepUpdate ==
  ASSUME NEW f \in [Steps -> StepRow], NEW s, NEW st \in StepStates
  PROVE  [f EXCEPT ![s] = [state |-> st, rev |-> @.rev + 1]] \in [Steps -> StepRow]
<1>1. CASE s \in Steps
  <2>1. [state |-> st, rev |-> f[s].rev + 1] \in StepRow
    BY <1>1 DEF StepRow
  <2> QED
    BY <2>1
<1>2. CASE s \notin Steps
  BY <1>2
<1> QED
  BY <1>1, <1>2

\* A run gets a new state.
LEMMA RunUpdate ==
  ASSUME NEW f \in [Runs -> RunRow], NEW r, NEW st \in RunStates
  PROVE  /\ [f EXCEPT ![r].state = st] \in [Runs -> RunRow]
         /\ r \in Runs => [f[r] EXCEPT !.state = st] \in RunRow
<1>1. r \in Runs => [f[r] EXCEPT !.state = st] \in RunRow
  BY DEF RunRow
<1> QED
  BY <1>1

\* A run gets the next generation of its lease, with or without a new token.
LEMMA RunLease ==
  ASSUME NEW x \in RunRow, NEW st \in RunStates, NEW tok \in Nat, NEW live \in BOOLEAN
  PROVE  /\ [x EXCEPT !.state = st, !.token = tok, !.generation = @ + 1, !.live = live] \in RunRow
         /\ [x EXCEPT !.state = st, !.generation = @ + 1, !.live = live] \in RunRow
<1>1. x.generation + 1 \in Nat
  BY DEF RunRow
<1> QED
  BY <1>1 DEF RunRow

\* An attempt gets a new state.
LEMMA AttemptUpdate ==
  ASSUME NEW f \in [Attempts -> AttemptRow], NEW a, NEW st \in AttemptStates
  PROVE  /\ [f EXCEPT ![a].state = st] \in [Attempts -> AttemptRow]
         /\ a \in Attempts => [f[a] EXCEPT !.state = st] \in AttemptRow
<1>1. a \in Attempts => [f[a] EXCEPT !.state = st] \in AttemptRow
  BY DEF AttemptRow
<1> QED
  BY <1>1

\* An attempt is bound to another revision of its step.
LEMMA AttemptResumed ==
  ASSUME NEW x \in AttemptRow, NEW st \in AttemptStates, NEW n \in Nat
  PROVE  [x EXCEPT !.state = st, !.rev = n] \in AttemptRow
BY DEF AttemptRow

\* An effect gets a new state.
LEMMA EffectUpdate ==
  ASSUME NEW f \in [Effects -> EffectRow], NEW e \in Effects, NEW st \in EffectStates
  PROVE  /\ [f EXCEPT ![e].state = st] \in [Effects -> EffectRow]
         /\ [f[e] EXCEPT !.state = st] \in EffectRow
<1>1. [f[e] EXCEPT !.state = st] \in EffectRow
  BY DEF EffectRow
<1> QED
  BY <1>1

\* A task as CreateTask leaves it is typed.
LEMMA TypeInit == Init => TypeOK
<1> SUFFICES ASSUME Init PROVE TypeOK
  OBVIOUS
<1>1. NoRun \in RunRow
  BY TaskEngineAssumption DEF NoRun, RunRow, RunStates
<1>2. NoAttempt \in AttemptRow
  <2>1. (CHOOSE k \in StepKeys : TRUE) \in StepKeys
    BY TaskEngineAssumption
  <2> QED
    BY <2>1, TaskEngineAssumption DEF NoAttempt, AttemptRow, AttemptStates
<1>3. NoEffect \in EffectRow
  BY TaskEngineAssumption DEF NoEffect, EffectRow, EffectStates
<1>4. "none" \in ProposalStates
  BY DEF ProposalStates
<1>5. /\ [state |-> "draft", plan |-> 0] \in TaskRow
      /\ [state |-> "pending", rev |-> 1] \in StepRow
  BY TaskEngineAssumption DEF TaskRow, StepRow, TaskStates, StepStates
<1> QED
  BY <1>1, <1>2, <1>3, <1>4, <1>5, TaskEngineAssumption DEF Init, TypeOK

\* A step of the system is a step of one of the operations.
LEMMA NextCases ==
  ASSUME Next
  PROVE  \/ CreatePlan \/ ReviseRequirements \/ CompleteTask \/ Crash
         \/ \E v \in {"approved", "rejected"} : ReviewPlan(v)
         \/ \E k \in StepKeys : StartStep(k) \/ CompleteStep(k) \/ FailStep(k)
         \/ \E k \in StepKeys, n \in Nat, status \in {"pass", "fail"} : RecordValidation(k, n, status)
         \/ \E r \in Runs : \/ BeginRun(r) \/ Expire(r) \/ RecoverExpiredRun(r)
                             \/ InterruptGoalExecution(r)
         \/ \E r \in Runs, tok \in Nat : PauseIdleRun(r, tok)
         \/ \E a \in Attempts, r \in Runs, tok \in Nat, k \in StepKeys : BeginStepAttempt(a, r, tok, k)
         \/ \E a \in Attempts, tok \in Nat : CompleteAttempt(a, tok)
         \/ \E a \in Attempts : \/ FailAttempt(a) \/ RecordConfirmedFailure(a) \/ RecordCodeProposal(a)
                                \/ MoveProposal(a) \/ ApprovePostReview(a) \/ ResumeObservedReview(a)
                                \/ ResumeApprovedReview(a) \/ RetryRejectedProposalAttempt(a)
         \/ \E e \in Effects, a \in Attempts, tok \in Nat : PlanEffect(e, a, tok)
         \/ \E e \in Effects, tok \in Nat : DispatchEffect(e, tok)
         \/ \E e \in Effects : \/ Act(e) \/ AbandonEffect(e) \/ ObserveEffect(e)
                               \/ ReconcileEffect(e) \/ RetryFailedProposalAttempt(e)
         \/ MarkPlanned \/ MarkDispatched \/ BlockRunningSteps
         \/ InterruptAttempts \/ PauseRuns \/ PauseTask
<1>1. CASE TaskStep
  BY <1>1, TaskEngineAssumption DEF TaskStep
<1>2. CASE RunStep
  BY <1>2, TaskEngineAssumption DEF RunStep, Tokens
<1>3. CASE AttemptStep
  BY <1>3, TaskEngineAssumption DEF AttemptStep, Tokens
<1>4. CASE EffectStep
  BY <1>4, TaskEngineAssumption DEF EffectStep, Tokens
<1>5. CASE Crash \/ RecoverInterrupted
  BY <1>5 DEF RecoverInterrupted
<1> QED
  BY <1>1, <1>2, <1>3, <1>4, <1>5 DEF Next

\* Every operation writes values of the columns' types.
LEMMA TypeNext == TypeOK /\ Linked /\ [Next]_vars => TypeOK'
<1> SUFFICES ASSUME TypeOK, Linked, [Next]_vars PROVE TypeOK'
  OBVIOUS
<1> USE TaskEngineAssumption DEF TypeOK, planning, evidence, work, reviews, outside, process,
        SetTask, SetStep
<1>0. /\ {"ready", "running", "waiting_for_input", "paused", "verifying", "completed", "draft"} \subseteq TaskStates
      /\ {"running", "completed", "blocked", "failed"} \subseteq StepStates
      /\ {"running", "paused", "failed"} \subseteq RunStates
      /\ {"running", "completed", "failed", "interrupted"} \subseteq AttemptStates
      /\ {"planned", "dispatched", "observed", "uncertain", "reconciled", "abandoned"} \subseteq EffectStates
  BY DEF TaskStates, StepStates, RunStates, AttemptStates, EffectStates
<1>1. CASE UNCHANGED vars
  BY <1>1 DEF vars
<1>2. CASE CreatePlan \/ ReviseRequirements
  BY <1>0, <1>2 DEF CreatePlan, ReviseRequirements, TaskRow
<1>3. CASE CompleteTask
  BY <1>0, <1>3, TaskUpdate DEF CompleteTask
<1>4. CASE Crash
  BY <1>4 DEF Crash
<1>5. ASSUME NEW v \in {"approved", "rejected"}, ReviewPlan(v) PROVE TypeOK'
  BY <1>0, <1>5, TaskUpdate DEF ReviewPlan
<1>6. ASSUME NEW k \in StepKeys, StartStep(k) \/ CompleteStep(k) \/ FailStep(k) PROVE TypeOK'
  BY <1>0, <1>6, TaskUpdate, StepUpdate DEF StartStep, CompleteStep, FailStep
<1>7. ASSUME NEW k \in StepKeys, NEW n \in Nat, NEW status \in {"pass", "fail"},
             RecordValidation(k, n, status)
      PROVE  TypeOK'
  <2>1. <<task.plan, k>> \in Steps
    BY <1>7 DEF RecordValidation, TaskRow, Steps, Plans
  <2> QED
    BY <1>7, <2>1 DEF RecordValidation
<1>8. ASSUME NEW r \in Runs, BeginRun(r) PROVE TypeOK'
  <2>1. [state |-> "running", plan |-> task.plan, token |-> 1, generation |-> 1,
         live |-> TRUE] \in RunRow
    BY <1>0 DEF TaskRow, RunRow
  <2> QED
    BY <1>0, <1>8, <2>1, TaskUpdate DEF BeginRun
<1>9. ASSUME NEW r \in Runs, Expire(r) PROVE TypeOK'
  <2>1. [run[r] EXCEPT !.live = FALSE] \in RunRow
    BY DEF RunRow
  <2> QED
    BY <1>9, <2>1 DEF Expire
<1>10. ASSUME NEW r \in Runs PROVE Renewed(r) \in RunRow
  <2>1. run[r] \in RunRow /\ run[r].generation + 1 \in Nat
    BY DEF RunRow
  <2> QED
    BY <1>0, <2>1, RunLease DEF Renewed
<1>11. ASSUME NEW e \in Effects PROVE Forsaken(e) \in EffectRow
  <2>1. effect[e] = [effect[e] EXCEPT !.state = effect[e].state]
    BY DEF EffectRow
  <2>2. CASE effect[e].state = "planned"
    BY <1>0, <2>2, EffectUpdate DEF Forsaken
  <2>3. CASE effect[e].state = "dispatched"
    BY <1>0, <2>3, EffectUpdate DEF Forsaken
  <2>4. CASE effect[e].state \notin {"planned", "dispatched"}
    BY <2>1, <2>4 DEF Forsaken
  <2> QED
    BY <2>2, <2>3, <2>4
<1>12. ASSUME NEW B, BlockSteps(B) PROVE step' \in [Steps -> StepRow]
  <2>1. \A s \in Steps : [state |-> "blocked", rev |-> step[s].rev + 1] \in StepRow
    BY <1>0 DEF StepRow
  <2> QED
    BY <1>12, <2>1 DEF BlockSteps
<1>13. ASSUME NEW B, Interrupt(B) PROVE attempt' \in [Attempts -> AttemptRow]
  <2>1. \A a \in Attempts : [attempt[a] EXCEPT !.state = "interrupted"] \in AttemptRow
    BY <1>0, AttemptUpdate
  <2> QED
    BY <1>13, <2>1 DEF Interrupt
<1>14. ASSUME NEW r \in Runs, RecoverExpiredRun(r) PROVE TypeOK'
  <2>1. effect' \in [Effects -> EffectRow]
    BY <1>11, <1>14 DEF RecoverExpiredRun
  <2>2. run' \in [Runs -> RunRow]
    BY <1>0, <1>10, <1>14, RunUpdate DEF RecoverExpiredRun
  <2>3. /\ task' \in TaskRow
        /\ step' \in [Steps -> StepRow] /\ attempt' \in [Attempts -> AttemptRow]
    BY <1>0, <1>12, <1>13, <1>14, TaskUpdate DEF RecoverExpiredRun
  <2> QED
    BY <1>14, <2>1, <2>2, <2>3 DEF RecoverExpiredRun
<1>15. ASSUME NEW r \in Runs, NEW tok \in Nat, PauseIdleRun(r, tok) PROVE TypeOK'
  <2>1. [run[r] EXCEPT !.state = "paused", !.generation = @ + 1, !.live = FALSE] \in RunRow
    BY <1>0, RunLease
  <2>2. run' = [run EXCEPT ![r] = [run[r] EXCEPT !.state = "paused", !.generation = @ + 1,
                                                 !.live = FALSE]]
    BY <1>15 DEF PauseIdleRun
  <2> QED
    BY <1>0, <1>15, <2>1, <2>2, TaskUpdate DEF PauseIdleRun
<1>15a. ASSUME NEW r \in Runs, InterruptGoalExecution(r) PROVE TypeOK'
  <2>1. effect' \in [Effects -> EffectRow]
    BY <1>11, <1>15a DEF InterruptGoalExecution
  <2>2. [run[r] EXCEPT !.state = "paused", !.generation = @ + 1, !.live = FALSE] \in RunRow
    BY <1>0, RunLease
  <2>3. run' = [run EXCEPT ![r] = [run[r] EXCEPT !.state = "paused", !.generation = @ + 1,
                                                 !.live = FALSE]]
    BY <1>15a DEF InterruptGoalExecution
  <2>4. /\ task' \in TaskRow
        /\ step' \in [Steps -> StepRow] /\ attempt' \in [Attempts -> AttemptRow]
    BY <1>0, <1>12, <1>13, <1>15a, TaskUpdate DEF InterruptGoalExecution
  <2> QED
    BY <1>15a, <2>1, <2>2, <2>3, <2>4 DEF InterruptGoalExecution
<1>16. ASSUME NEW a \in Attempts, NEW r \in Runs, NEW tok \in Nat, NEW k \in StepKeys,
              BeginStepAttempt(a, r, tok, k)
       PROVE  TypeOK'
  <2>1. run[r].plan \in Plans
    BY <1>16 DEF BeginStepAttempt, Holds, Linked
  <2>2. <<run[r].plan, k>> \in Steps
    BY <2>1 DEF Steps
  <2>3. step[<<run[r].plan, k>>].rev \in Nat
    BY <2>2 DEF StepRow
  <2>4. [state |-> "running", run |-> r, step |-> <<run[r].plan, k>>,
         rev |-> step[<<run[r].plan, k>>].rev + 1] \in AttemptRow
    BY <1>0, <2>1, <2>3 DEF AttemptRow, Runs, Plans
  <2> QED
    BY <1>0, <1>16, <2>4, TaskUpdate, StepUpdate DEF BeginStepAttempt
<1>17. ASSUME NEW a \in Attempts, NEW tok \in Nat, CompleteAttempt(a, tok) PROVE TypeOK'
  BY <1>0, <1>17, AttemptUpdate DEF CompleteAttempt
<1>18. ASSUME NEW a \in Attempts, FailAttempt(a) PROVE TypeOK'
  <2>1. run[attempt[a].run].state \in RunStates /\ attempt[a].run \in Runs
    BY <1>18 DEF FailAttempt, Linked, RunRow
  <2>2. run' \in [Runs -> RunRow]
    BY <1>0, <1>18, <2>1, RunUpdate DEF FailAttempt
  <2> QED
    BY <1>0, <1>18, <2>2, AttemptUpdate DEF FailAttempt
<1>19. ASSUME NEW a \in Attempts, RecordConfirmedFailure(a) \/ ApprovePostReview(a) PROVE TypeOK'
  BY <1>0, <1>19, TaskUpdate DEF RecordConfirmedFailure, ApprovePostReview
<1>20. ASSUME NEW a \in Attempts, RecordCodeProposal(a) \/ MoveProposal(a) PROVE TypeOK'
  BY <1>20 DEF RecordCodeProposal, MoveProposal, ProposalStates, ProposalMoves
<1>21. ASSUME NEW a \in Attempts, ResumeObservedReview(a) PROVE TypeOK'
  <2>1. attempt[a].run \in Runs /\ attempt[a].step \in Steps
    BY <1>21 DEF ResumeObservedReview, OfLatestRun, Waiting, Linked
  <2>2. step[attempt[a].step].rev + 1 \in Nat
    BY <2>1 DEF StepRow
  <2>3. [attempt[a] EXCEPT !.state = "running", !.rev = step[attempt[a].step].rev + 1] \in AttemptRow
    <3>1. attempt[a] \in AttemptRow /\ "running" \in AttemptStates
      BY <1>0
    <3>2. \A x \in AttemptRow, st \in AttemptStates, n \in Nat :
            [x EXCEPT !.state = st, !.rev = n] \in AttemptRow
      BY AttemptResumed
    <3> QED
      BY <2>2, <3>1, <3>2
  <2>4. attempt' = [attempt EXCEPT ![a] = [attempt[a] EXCEPT !.state = "running",
                                             !.rev = step[attempt[a].step].rev + 1]]
    BY <1>21 DEF ResumeObservedReview
  <2> QED
    BY <1>0, <1>10, <1>21, <2>1, <2>3, <2>4, TaskUpdate, StepUpdate DEF ResumeObservedReview
<1>22. ASSUME NEW a \in Attempts, ResumeApprovedReview(a) PROVE TypeOK'
  <2>1. attempt[a].run \in Runs
    BY <1>22 DEF ResumeApprovedReview, OfLatestRun, Waiting, Linked
  <2> QED
    BY <1>0, <1>10, <1>22, <2>1, TaskUpdate DEF ResumeApprovedReview
<1>23. ASSUME NEW a \in Attempts, CloseAttempt(a) PROVE TypeOK'
  BY <1>0, <1>23, TaskUpdate, StepUpdate, RunUpdate, AttemptUpdate DEF CloseAttempt
<1>24. ASSUME NEW a \in Attempts, RetryRejectedProposalAttempt(a) PROVE TypeOK'
  BY <1>23, <1>24 DEF RetryRejectedProposalAttempt
<1>25. ASSUME NEW e \in Effects, RetryFailedProposalAttempt(e) PROVE TypeOK'
  <2>1. effect[e].attempt \in Attempts
    BY <1>25 DEF RetryFailedProposalAttempt, Linked
  <2> QED
    BY <1>23, <1>25, <2>1 DEF RetryFailedProposalAttempt
<1>26. ASSUME NEW e \in Effects, NEW a \in Attempts, NEW tok \in Nat, PlanEffect(e, a, tok)
       PROVE  TypeOK'
  <2>1. attempt[a].run \in Runs
    BY <1>26 DEF PlanEffect, Authorised, Linked
  <2>2. run[attempt[a].run].generation \in Nat
    BY <2>1 DEF RunRow
  <2>3. [state |-> "planned", attempt |-> a, token |-> tok,
         generation |-> run[attempt[a].run].generation, receipt |-> "none"] \in EffectRow
    BY <1>0, <2>2 DEF EffectRow, Attempts
  <2> QED
    BY <1>26, <2>3 DEF PlanEffect
<1>27. ASSUME NEW e \in Effects, NEW tok \in Nat, DispatchEffect(e, tok) PROVE TypeOK'
  <2>1. [effect[e] EXCEPT !.state = "dispatched", !.token = tok] \in EffectRow
    BY <1>0 DEF EffectRow
  <2>2. effect' = [effect EXCEPT ![e] = [effect[e] EXCEPT !.state = "dispatched", !.token = tok]]
    BY <1>27 DEF DispatchEffect
  <2> QED
    BY <1>27, <2>1, <2>2 DEF DispatchEffect
<1>28. ASSUME NEW e \in Effects, Act(e) \/ AbandonEffect(e) PROVE TypeOK'
  BY <1>0, <1>28, EffectUpdate DEF Act, AbandonEffect
<1>29. ASSUME NEW e \in Effects, ObserveEffect(e) \/ ReconcileEffect(e) PROVE TypeOK'
  <2>1. PICK st \in {"observed", "reconciled"}, out \in {"done", "failed", "not_started"} :
          effect' = [effect EXCEPT ![e].state = st, ![e].receipt = out]
    BY <1>29 DEF ObserveEffect, ReconcileEffect
  <2>2. [effect[e] EXCEPT !.state = st, !.receipt = out] \in EffectRow
    BY <1>0 DEF EffectRow
  <2> QED
    BY <1>29, <2>1, <2>2 DEF ObserveEffect, ReconcileEffect
<1>30. CASE MarkPlanned \/ MarkDispatched
  BY <1>11, <1>30 DEF MarkPlanned, MarkDispatched
<1>31. CASE BlockRunningSteps \/ InterruptAttempts
  BY <1>12, <1>13, <1>31 DEF BlockRunningSteps, InterruptAttempts
<1>32. CASE PauseRuns
  BY <1>0, <1>32, RunUpdate DEF PauseRuns
<1>33. CASE PauseTask
  BY <1>0, <1>33, TaskUpdate DEF PauseTask
<1> HIDE DEF TypeOK
<1> QED
  BY <1>1, <1>2, <1>3, <1>4, <1>5, <1>6, <1>7, <1>8, <1>9, <1>14, <1>15, <1>16, <1>17, <1>18,
     <1>19, <1>20, <1>21, <1>22, <1>24, <1>25, <1>26, <1>27, <1>28, <1>29, <1>30, <1>31, <1>32,
     <1>33, <1>15a, NextCases

(***************************************************************************)
(* Which operations write each table.                                      *)
(***************************************************************************)
\* The operations that write task_runs.
LEMMA RunWriters ==
  ASSUME [Next]_vars
  PROVE  \/ run' = run
         \/ \E r \in Runs : \/ BeginRun(r) \/ Expire(r) \/ RecoverExpiredRun(r)
                             \/ InterruptGoalExecution(r)
         \/ \E r \in Runs, tok \in Nat : PauseIdleRun(r, tok)
         \/ \E a \in Attempts : \/ FailAttempt(a) \/ ResumeObservedReview(a)
                                \/ ResumeApprovedReview(a) \/ RetryRejectedProposalAttempt(a)
         \/ \E e \in Effects : RetryFailedProposalAttempt(e)
         \/ PauseRuns
<1>1. CASE UNCHANGED vars
  BY <1>1 DEF vars
<1>2. CASE Next
  BY <1>2, NextCases
     DEF CreatePlan, ReviseRequirements, CompleteTask, Crash, ReviewPlan, StartStep, CompleteStep,
         FailStep, RecordValidation, BeginStepAttempt, CompleteAttempt, RecordConfirmedFailure,
         RecordCodeProposal, MoveProposal, ApprovePostReview, PlanEffect, DispatchEffect, Act,
         AbandonEffect, ObserveEffect, ReconcileEffect, MarkPlanned, MarkDispatched,
         BlockRunningSteps, InterruptAttempts, PauseTask
<1> QED
  BY <1>1, <1>2

\* The operations that write task_step_attempts.
LEMMA AttemptWriters ==
  ASSUME [Next]_vars
  PROVE  \/ attempt' = attempt
         \/ \E r \in Runs : RecoverExpiredRun(r) \/ InterruptGoalExecution(r)
         \/ \E a \in Attempts, r \in Runs, tok \in Nat, k \in StepKeys : BeginStepAttempt(a, r, tok, k)
         \/ \E a \in Attempts, tok \in Nat : CompleteAttempt(a, tok)
         \/ \E a \in Attempts : \/ FailAttempt(a) \/ ResumeObservedReview(a)
                                \/ RetryRejectedProposalAttempt(a)
         \/ \E e \in Effects : RetryFailedProposalAttempt(e)
         \/ InterruptAttempts
<1>1. CASE UNCHANGED vars
  BY <1>1 DEF vars
<1>2. CASE Next
  BY <1>2, NextCases
     DEF CreatePlan, ReviseRequirements, CompleteTask, Crash, ReviewPlan, StartStep, CompleteStep,
         FailStep, RecordValidation, BeginRun, Expire, PauseIdleRun, RecordConfirmedFailure,
         RecordCodeProposal, MoveProposal, ApprovePostReview, ResumeApprovedReview, PlanEffect,
         DispatchEffect, Act, AbandonEffect, ObserveEffect, ReconcileEffect, MarkPlanned,
         MarkDispatched, BlockRunningSteps, PauseRuns, PauseTask
<1> QED
  BY <1>1, <1>2

\* The operations that write task_effect_intents.
LEMMA EffectWriters ==
  ASSUME [Next]_vars
  PROVE  \/ effect' = effect
         \/ \E r \in Runs : RecoverExpiredRun(r) \/ InterruptGoalExecution(r)
         \/ \E e \in Effects, a \in Attempts, tok \in Nat : PlanEffect(e, a, tok)
         \/ \E e \in Effects, tok \in Nat : DispatchEffect(e, tok)
         \/ \E e \in Effects : AbandonEffect(e) \/ ObserveEffect(e) \/ ReconcileEffect(e)
         \/ MarkPlanned \/ MarkDispatched
<1>1. CASE UNCHANGED vars
  BY <1>1 DEF vars
<1>2. CASE Next
  BY <1>2, NextCases
     DEF CreatePlan, ReviseRequirements, CompleteTask, Crash, ReviewPlan, StartStep, CompleteStep,
         FailStep, RecordValidation, BeginRun, Expire, PauseIdleRun, BeginStepAttempt,
         CompleteAttempt, FailAttempt, RecordConfirmedFailure, RecordCodeProposal, MoveProposal,
         ApprovePostReview, ResumeObservedReview, ResumeApprovedReview,
         RetryRejectedProposalAttempt, RetryFailedProposalAttempt, CloseAttempt, Act,
         BlockRunningSteps, InterruptAttempts, PauseRuns, PauseTask
<1> QED
  BY <1>1, <1>2

(***************************************************************************)
(* What a step may do to one row of each table.                            *)
(***************************************************************************)
InFlight(e) == effect[e].state \in {"planned", "dispatched"}

RunBegun(r) ==
  /\ run[r].state = "none" /\ run'[r].state = "running" /\ run'[r].plan \in Plans
  /\ Approved(run'[r].plan) /\ attempt' = attempt /\ effect' = effect
  /\ \A e \in Effects : effect[e].state # "uncertain"
RunKept(r) ==
  /\ run[r].state # "none" /\ run'[r].state # "none"
  /\ run'[r].state = "running" => run[r].state = "running"
  /\ run'[r].plan = run[r].plan /\ run'[r].token = run[r].token
  /\ run'[r].generation = run[r].generation
RunReissued(r) ==
  /\ run[r].state # "none" /\ run'[r].state # "none" /\ run'[r].plan = run[r].plan
  /\ \A e \in EffectsOf(r) : /\ ~InFlight(e)'
                             /\ effect'[e].state = "uncertain" => run[r].state = "running"
RunMove(r) == run'[r] = run[r] \/ RunBegun(r) \/ RunKept(r) \/ RunReissued(r)

AttemptBegun(a) ==
  /\ attempt[a].state = "none" /\ attempt'[a].state = "running"
  /\ attempt'[a].run \in Runs /\ run[attempt'[a].run].state = "running"
  /\ attempt'[a].step \in Steps /\ attempt'[a].step[1] = run[attempt'[a].run].plan
  /\ attempt'[a].rev = step[attempt'[a].step].rev + 1
  /\ step'[attempt'[a].step].rev = step[attempt'[a].step].rev + 1
  /\ run' = run /\ effect' = effect
  /\ \A b \in Attempts \ {a} : attempt'[b] = attempt[b]
AttemptKept(a) ==
  /\ attempt[a].state # "none" /\ attempt'[a].state # "none"
  /\ attempt'[a].run = attempt[a].run /\ attempt'[a].step = attempt[a].step
  /\ attempt'[a].rev = attempt[a].rev
AttemptResumes(a) ==
  /\ attempt[a].state # "none" /\ attempt'[a].state # "none"
  /\ attempt'[a].run = attempt[a].run /\ attempt'[a].step = attempt[a].step
  /\ attempt'[a].rev = step[attempt[a].step].rev + 1
  /\ step'[attempt[a].step].rev = step[attempt[a].step].rev + 1
  /\ \A b \in Attempts \ {a} : attempt'[b] = attempt[b]
AttemptMove(a) == attempt'[a] = attempt[a] \/ AttemptBegun(a) \/ AttemptKept(a) \/ AttemptResumes(a)

EffectPlanned(e) ==
  /\ effect[e].state = "none" /\ effect'[e].state = "planned"
  /\ effect'[e].attempt \in Attempts /\ attempt[effect'[e].attempt].state = "running"
  /\ effect'[e].token = run[attempt[effect'[e].attempt].run].token
  /\ effect'[e].generation = run[attempt[effect'[e].attempt].run].generation
  /\ run' = run /\ attempt' = attempt /\ task.state = "running"
EffectDispatched(e) ==
  /\ effect[e].state = "planned" /\ effect'[e].state = "dispatched"
  /\ effect'[e].attempt = effect[e].attempt /\ effect'[e].token = run[RunOf(e)].token
  /\ effect'[e].generation = run[RunOf(e)].generation
  /\ run' = run /\ attempt' = attempt
EffectSettled(e) ==
  /\ <<effect[e].state, effect'[e].state>>
       \in {<<"planned", "abandoned">>, <<"dispatched", "observed">>, <<"uncertain", "reconciled">>}
  /\ effect'[e].attempt = effect[e].attempt
EffectDoubted(e) ==
  /\ effect[e].state = "dispatched" /\ effect'[e].state = "uncertain"
  /\ effect'[e].attempt = effect[e].attempt
  /\ boot' = 3 \/ run'[RunOf(e)].state = "paused"
EffectMove(e) == \/ effect'[e] = effect[e] \/ EffectPlanned(e) \/ EffectDispatched(e)
                 \/ EffectSettled(e) \/ EffectDoubted(e)

\* A run begins, keeps its lease, or is given a new one when nothing of it is in flight.
LEMMA RunMoves ==
  ASSUME TypeOK, Linked, [Next]_vars, NEW r \in Runs
  PROVE  RunMove(r)
<1> USE DEF TypeOK
<1>1. run[r] \in RunRow
  OBVIOUS
<1>2. CASE run' = run
  BY <1>2 DEF RunMove
<1>3. ASSUME NEW q \in Runs, BeginRun(q) PROVE RunMove(r)
  <2>1. task.plan \in Plans
    BY <1>3 DEF BeginRun, TaskRow, Plans
  <2>2. CASE r = q
    BY <1>3, <2>1, <2>2 DEF BeginRun, RunMove, RunBegun, Approved, planning, work
  <2> QED
    BY <1>3, <2>2 DEF BeginRun, RunMove
<1>4. ASSUME NEW q \in Runs, Expire(q) PROVE RunMove(r)
  BY <1>4 DEF Expire, RunMove, RunKept
<1>5. ASSUME NEW q \in Runs, RecoverExpiredRun(q) PROVE RunMove(r)
  <2>1. CASE run' = [run EXCEPT ![q].state = "paused"]
    BY <1>5, <2>1 DEF RecoverExpiredRun, RunMove, RunKept
  <2>2. CASE (\A e \in EffectsOf(q) : effect[e].state # "dispatched") /\ run' = [run EXCEPT ![q] = Renewed(q)]
    <3>1. ASSUME NEW e \in EffectsOf(q)
          PROVE  ~InFlight(e)' /\ (effect'[e].state = "uncertain" => run[q].state = "running")
      <4>1. e \in Effects /\ effect'[e] = Forsaken(e) /\ effect[e].state # "dispatched"
        BY <1>5, <2>2 DEF RecoverExpiredRun, EffectsOf
      <4> QED
        BY <1>5, <4>1 DEF RecoverExpiredRun, Forsaken, InFlight, EffectRow
    <3>2. CASE r = q
      BY <1>1, <1>5, <2>2, <3>1, <3>2 DEF RecoverExpiredRun, RunMove, RunReissued, Renewed, RunRow
    <3> QED
      BY <2>2, <3>2 DEF RunMove
  <2> QED
    BY <1>5, <2>1, <2>2 DEF RecoverExpiredRun
<1>6. ASSUME NEW q \in Runs, NEW tok \in Nat, PauseIdleRun(q, tok) PROVE RunMove(r)
  <2>1. run' = [run EXCEPT ![q] = [run[q] EXCEPT !.state = "paused", !.generation = @ + 1,
                                                 !.live = FALSE]]
    BY <1>6 DEF PauseIdleRun
  <2>2. \A e \in EffectsOf(q) : effect[e].state \notin OpenStates
    BY <1>6 DEF PauseIdleRun, Open
  <2>3. CASE r = q
    BY <1>1, <1>6, <2>1, <2>2, <2>3
       DEF PauseIdleRun, Holds, RunMove, RunReissued, InFlight, OpenStates, EffectsOf, RunRow
  <2> QED
    BY <2>1, <2>3 DEF RunMove
<1>6a. ASSUME NEW q \in Runs, InterruptGoalExecution(q) PROVE RunMove(r)
  <2>1. run' = [run EXCEPT ![q] = [run[q] EXCEPT !.state = "paused", !.generation = @ + 1,
                                                 !.live = FALSE]]
    BY <1>6a DEF InterruptGoalExecution
  <2>2. ASSUME NEW e \in EffectsOf(q)
        PROVE  ~InFlight(e)' /\ (effect'[e].state = "uncertain" => run[q].state = "running")
    <3>1. e \in Effects /\ effect'[e] = Forsaken(e) /\ effect[e] \in EffectRow
      BY <1>6a DEF InterruptGoalExecution, EffectsOf
    <3> QED
      BY <1>6a, <3>1 DEF InterruptGoalExecution, Forsaken, InFlight, EffectRow
  <2>3. CASE r = q
    BY <1>1, <1>6a, <2>1, <2>2, <2>3 DEF InterruptGoalExecution, RunMove, RunReissued, RunRow
  <2> QED
    BY <2>1, <2>3 DEF RunMove
<1>7. ASSUME NEW a \in Attempts, FailAttempt(a) PROVE RunMove(r)
  BY <1>7 DEF FailAttempt, RunMove, RunKept, Linked
<1>8. ASSUME NEW a \in Attempts, ResumeObservedReview(a) \/ ResumeApprovedReview(a)
      PROVE  RunMove(r)
  <2> DEFINE q == attempt[a].run
  <2>1. run' = [run EXCEPT ![q] = Renewed(q)] /\ Open(EffectsOf(q)) = {} /\ effect' = effect
    BY <1>8 DEF ResumeObservedReview, ResumeApprovedReview
  <2>2. run[q].state # "none" /\ q \in Runs
    BY <1>8 DEF ResumeObservedReview, ResumeApprovedReview, OfLatestRun, Waiting, Linked
  <2>3. \A e \in EffectsOf(q) : effect[e].state \notin OpenStates
    BY <2>1 DEF Open
  <2>4. CASE r = q
    BY <1>1, <2>1, <2>2, <2>3, <2>4
       DEF RunMove, RunReissued, Renewed, InFlight, OpenStates, EffectsOf, RunRow
  <2> QED
    BY <2>1, <2>4 DEF RunMove
<1>9. ASSUME NEW a \in Attempts, CloseAttempt(a) PROVE RunMove(r)
  BY <1>9 DEF CloseAttempt, RunMove, RunKept
<1>10. CASE PauseRuns
  BY <1>10 DEF PauseRuns, RunMove, RunKept
<1> QED
  <2>1. ASSUME NEW a \in Attempts, RetryRejectedProposalAttempt(a) PROVE RunMove(r)
    BY <1>9, <2>1 DEF RetryRejectedProposalAttempt
  <2>2. ASSUME NEW e \in Effects, RetryFailedProposalAttempt(e) PROVE RunMove(r)
    BY <1>9, <2>2 DEF RetryFailedProposalAttempt, Linked
  <2> QED
    BY <1>2, <1>3, <1>4, <1>5, <1>6, <1>7, <1>8, <1>10, <1>6a, <2>1, <2>2, RunWriters

\* An attempt begins, changes its state, or resumes at the new revision of its step.
LEMMA AttemptMoves ==
  ASSUME TypeOK, Linked, [Next]_vars, NEW a \in Attempts
  PROVE  AttemptMove(a)
<1> USE DEF TypeOK
<1>1. attempt[a] \in AttemptRow
  OBVIOUS
<1>2. CASE attempt' = attempt
  BY <1>2 DEF AttemptMove
<1>3. ASSUME NEW B, Interrupt(B), \A b \in B : attempt[b].state = "running" PROVE AttemptMove(a)
  BY <1>1, <1>3 DEF Interrupt, AttemptMove, AttemptKept, AttemptRow
<1>4. ASSUME NEW r \in Runs, RecoverExpiredRun(r) \/ InterruptGoalExecution(r)
      PROVE  AttemptMove(a)
  BY <1>2, <1>3, <1>4 DEF RecoverExpiredRun, InterruptGoalExecution, Running
<1>5. ASSUME NEW b \in Attempts, NEW r \in Runs, NEW tok \in Nat, NEW k \in StepKeys,
             BeginStepAttempt(b, r, tok, k)
      PROVE  AttemptMove(a)
  <2>1. run[r].state = "running" /\ run[r].plan \in Plans
    BY <1>5 DEF BeginStepAttempt, Holds, Linked
  <2>2. <<run[r].plan, k>> \in Steps /\ <<run[r].plan, k>>[1] = run[r].plan
    BY <2>1 DEF Steps
  <2>3. /\ attempt'[b] = [state |-> "running", run |-> r, step |-> <<run[r].plan, k>>,
                          rev |-> step[<<run[r].plan, k>>].rev + 1]
        /\ step'[<<run[r].plan, k>>].rev = step[<<run[r].plan, k>>].rev + 1
        /\ attempt[b].state = "none" /\ run' = run /\ effect' = effect
        /\ \A c \in Attempts \ {b} : attempt'[c] = attempt[c]
    BY <1>5, <2>2 DEF BeginStepAttempt, SetStep
  <2>4. AttemptBegun(b)
    BY <2>1, <2>2, <2>3 DEF AttemptBegun
  <2>5. a # b => attempt'[a] = attempt[a]
    BY <1>5 DEF BeginStepAttempt
  <2> QED
    BY <2>4, <2>5 DEF AttemptMove
<1>6. ASSUME NEW b \in Attempts, NEW tok \in Nat, CompleteAttempt(b, tok) PROVE AttemptMove(a)
  BY <1>1, <1>6 DEF CompleteAttempt, Authorised, AttemptMove, AttemptKept, AttemptRow
<1>7. ASSUME NEW b \in Attempts, FailAttempt(b) PROVE AttemptMove(a)
  BY <1>1, <1>7 DEF FailAttempt, AttemptMove, AttemptKept, AttemptRow
<1>8. ASSUME NEW b \in Attempts, ResumeObservedReview(b) PROVE AttemptMove(a)
  <2>1. attempt[b].state = "interrupted" /\ attempt[b].step \in Steps
    BY <1>8 DEF ResumeObservedReview, OfLatestRun, Waiting, Linked
  <2>2. /\ attempt' = [attempt EXCEPT ![b].state = "running", ![b].rev = step[attempt[b].step].rev + 1]
        /\ step'[attempt[b].step].rev = step[attempt[b].step].rev + 1
    BY <1>8, <2>1 DEF ResumeObservedReview, SetStep
  <2> QED
    BY <1>1, <2>1, <2>2 DEF AttemptMove, AttemptResumes, AttemptRow
<1>9. ASSUME NEW b \in Attempts, CloseAttempt(b), Closable(b) PROVE AttemptMove(a)
  BY <1>1, <1>9 DEF CloseAttempt, Closable, AttemptMove, AttemptKept, AttemptRow
<1>10. CASE InterruptAttempts
  BY <1>3, <1>10 DEF InterruptAttempts, Running
<1> QED
  <2>1. ASSUME NEW b \in Attempts, RetryRejectedProposalAttempt(b) PROVE AttemptMove(a)
    BY <1>9, <2>1 DEF RetryRejectedProposalAttempt
  <2>2. ASSUME NEW e \in Effects, RetryFailedProposalAttempt(e) PROVE AttemptMove(a)
    BY <1>9, <2>2 DEF RetryFailedProposalAttempt, Linked
  <2> QED
    BY <1>2, <1>4, <1>5, <1>6, <1>7, <1>8, <1>10, <2>1, <2>2, AttemptWriters

\* An effect is planned, dispatched, settled or put in doubt, by who may do so.
LEMMA EffectMoves ==
  ASSUME TypeOK, Linked, [Next]_vars, NEW e \in Effects
  PROVE  EffectMove(e)
<1> USE DEF TypeOK
<1>1. effect[e] \in EffectRow
  OBVIOUS
<1>2. CASE effect' = effect
  BY <1>2 DEF EffectMove
<1>3. ASSUME effect'[e] = Forsaken(e), boot' = 3 \/ effect[e].state # "dispatched" \/ run'[RunOf(e)].state = "paused"
      PROVE  EffectMove(e)
  <2>1. CASE effect[e].state = "planned"
    BY <1>1, <1>3, <2>1 DEF Forsaken, EffectMove, EffectSettled, EffectRow
  <2>2. CASE effect[e].state = "dispatched"
    BY <1>1, <1>3, <2>2 DEF Forsaken, EffectMove, EffectDoubted, EffectRow
  <2>3. CASE effect[e].state \notin {"planned", "dispatched"}
    BY <1>1, <1>3, <2>3 DEF Forsaken, EffectMove, EffectRow
  <2> QED
    BY <2>1, <2>2, <2>3
<1>4. ASSUME NEW r \in Runs, RecoverExpiredRun(r) PROVE EffectMove(e)
  <2>1. CASE e \notin EffectsOf(r)
    BY <1>4, <2>1 DEF RecoverExpiredRun, EffectMove
  <2>2. CASE e \in EffectsOf(r)
    <3>1. effect[e].state # "dispatched" \/ run'[RunOf(e)].state = "paused"
      BY <1>4, <2>2 DEF RecoverExpiredRun, EffectsOf, RunRow
    <3> QED
      BY <1>3, <1>4, <2>2, <3>1 DEF RecoverExpiredRun
  <2> QED
    BY <2>1, <2>2
<1>4a. ASSUME NEW r \in Runs, InterruptGoalExecution(r) PROVE EffectMove(e)
  <2>1. CASE e \notin EffectsOf(r)
    BY <1>4a, <2>1 DEF InterruptGoalExecution, EffectMove
  <2>2. CASE e \in EffectsOf(r)
    <3>1. run'[RunOf(e)].state = "paused"
      BY <1>4a, <2>2 DEF InterruptGoalExecution, EffectsOf, RunRow
    <3> QED
      BY <1>3, <1>4a, <2>2, <3>1 DEF InterruptGoalExecution
  <2> QED
    BY <2>1, <2>2
<1>5. ASSUME NEW f \in Effects, NEW a \in Attempts, NEW tok \in Nat, PlanEffect(f, a, tok)
      PROVE  EffectMove(e)
  <2>1. attempt[a].state = "running" /\ tok = run[attempt[a].run].token /\ task.state = "running"
    BY <1>5 DEF PlanEffect, Authorised, Holds
  <2>2. CASE e = f
    BY <1>5, <2>1, <2>2 DEF PlanEffect, EffectMove, EffectPlanned, work
  <2> QED
    BY <1>5, <2>2 DEF PlanEffect, EffectMove
<1>6. ASSUME NEW f \in Effects, NEW tok \in Nat, DispatchEffect(f, tok) PROVE EffectMove(e)
  <2>1. tok = run[RunOf(f)].token
    BY <1>6 DEF DispatchEffect, Authorised, Holds, RunOf
  <2>2. CASE e = f
    BY <1>1, <1>6, <2>1, <2>2 DEF DispatchEffect, EffectMove, EffectDispatched, EffectRow
  <2> QED
    BY <1>6, <2>2 DEF DispatchEffect, EffectMove
<1>7. ASSUME NEW f \in Effects, AbandonEffect(f) \/ ObserveEffect(f) \/ ReconcileEffect(f)
      PROVE  EffectMove(e)
  <2>1. CASE e = f
    BY <1>1, <1>7, <2>1 DEF AbandonEffect, ObserveEffect, ReconcileEffect, EffectMove,
                            EffectSettled, EffectRow
  <2> QED
    BY <1>7, <2>1 DEF AbandonEffect, ObserveEffect, ReconcileEffect, EffectMove
<1>8. CASE MarkPlanned
  BY <1>3, <1>8 DEF MarkPlanned, EffectMove
<1>9. CASE MarkDispatched
  BY <1>3, <1>9 DEF MarkDispatched, EffectMove
<1> QED
  BY <1>2, <1>4, <1>5, <1>6, <1>7, <1>8, <1>9, <1>4a, EffectWriters

(***************************************************************************)
(* Types and references.                                                   *)
(***************************************************************************)
\* No operation leaves a reference to a row that does not exist.
LEMMA LinkedNext == TypeOK /\ Linked /\ [Next]_vars => Linked'
<1> SUFFICES ASSUME TypeOK, Linked, [Next]_vars PROVE Linked'
  OBVIOUS
<1>1. ASSUME NEW r \in Runs
      PROVE  /\ run[r].state # "none" => run'[r].state # "none" /\ run'[r].plan = run[r].plan
             /\ run'[r].state # "none" => run'[r].plan \in Plans
  <2>1. RunMove(r)
    BY RunMoves
  <2> QED
    BY <2>1 DEF RunMove, RunBegun, RunKept, RunReissued, Linked
<1>2. ASSUME NEW a \in Attempts, attempt'[a].state # "none"
      PROVE  /\ attempt'[a].run \in Runs /\ run'[attempt'[a].run].state # "none"
             /\ attempt'[a].step \in Steps /\ attempt'[a].step[1] = run'[attempt'[a].run].plan
  <2>1. AttemptMove(a)
    BY AttemptMoves
  <2>2. CASE AttemptBegun(a)
    BY <1>1, <2>2 DEF AttemptBegun
  <2>3. CASE ~AttemptBegun(a)
    <3>1. /\ attempt[a].state # "none"
          /\ attempt'[a].run = attempt[a].run /\ attempt'[a].step = attempt[a].step
      BY <1>2, <2>1, <2>3 DEF AttemptMove, AttemptKept, AttemptResumes
    <3> QED
      BY <1>1, <3>1 DEF Linked
  <2> QED
    BY <2>2, <2>3
<1>3. ASSUME NEW a \in Attempts, attempt[a].state # "none" PROVE attempt'[a].state # "none"
  <2>1. AttemptMove(a)
    BY AttemptMoves
  <2> QED
    BY <1>3, <2>1 DEF AttemptMove, AttemptBegun, AttemptKept, AttemptResumes
<1>4. ASSUME NEW e \in Effects, effect'[e].state # "none"
      PROVE  effect'[e].attempt \in Attempts /\ attempt'[effect'[e].attempt].state # "none"
  <2>1. EffectMove(e)
    BY EffectMoves
  <2>2. CASE EffectPlanned(e)
    BY <1>3, <2>2 DEF EffectPlanned
  <2>3. CASE ~EffectPlanned(e)
    <3>1. effect[e].state # "none" /\ effect'[e].attempt = effect[e].attempt
      BY <1>4, <2>1, <2>3 DEF EffectMove, EffectDispatched, EffectSettled, EffectDoubted
    <3> QED
      BY <1>3, <3>1 DEF Linked
  <2> QED
    BY <2>2, <2>3
<1> QED
  BY <1>1, <1>2, <1>4 DEF Linked

\* A new task has no rows to refer to.
LEMMA LinkedInit == Init => Linked
BY DEF Init, Linked, NoRun, NoAttempt, NoEffect

\* Every row of every table holds values of its columns, and refers to rows
\* that exist, whatever the callers do and wherever the process stops.
THEOREM TypeCorrect == Spec => [](TypeOK /\ Linked)
<1>1. Init => TypeOK /\ Linked
  BY TypeInit, LinkedInit
<1>2. TypeOK /\ Linked /\ [Next]_vars => (TypeOK /\ Linked)'
  BY TypeNext, LinkedNext
<1> QED
  BY <1>1, <1>2, PTL DEF Spec

(***************************************************************************)
(* Effects: what was carried out, and who owns what is in flight.          *)
(***************************************************************************)
\* An action is carried out at most once, by the caller that got its dispatch;
\* from the dispatch on the record says that it may have happened.
CarriedOut ==
  \A e \in Effects :
    /\ performed[e] \in {0, 1}
    /\ e \in acting => performed[e] = 0 /\ effect[e].state \in {"dispatched", "uncertain", "reconciled"}
    /\ performed[e] = 1 => effect[e].state \in {"dispatched", "observed", "uncertain", "reconciled"}

\* While the process starts, a run may still be on record as running although
\* its effects are uncertain; from the statement that pauses the runs on it is not.
DoubtInv ==
  boot \in {0, 6} => \A e \in Effects : effect[e].state = "uncertain" => run[RunOf(e)].state # "running"

EffectInv == CarriedOut /\ InFlightBelongsToOwner /\ DoubtInv

ActIdle(e) ==
  /\ performed'[e] = performed[e] /\ (e \in acting' => e \in acting)
  /\ effect[e].state = "dispatched" /\ effect'[e].state = "observed" => e \notin acting'
ActSent(e) == performed'[e] = performed[e] /\ effect[e].state = "planned" /\ effect'[e].state = "dispatched"
ActDone(e) == /\ e \in acting /\ e \notin acting' /\ effect' = effect
              /\ performed'[e] \in {performed[e], performed[e] + 1}

\* The steps that concern the callers' actions outside the engine.
LEMMA OutsideWriters ==
  ASSUME [Next]_vars
  PROVE  \/ outside' = outside \/ Crash
         \/ \E e \in Effects, tok \in Nat : DispatchEffect(e, tok)
         \/ \E e \in Effects : Act(e)
<1>1. CASE UNCHANGED vars
  BY <1>1 DEF vars
<1>2. CASE Next
  BY <1>2, NextCases
     DEF CreatePlan, ReviseRequirements, CompleteTask, ReviewPlan, StartStep, CompleteStep,
         FailStep, RecordValidation, BeginRun, Expire, RecoverExpiredRun, PauseIdleRun,
         BeginStepAttempt, CompleteAttempt, FailAttempt, RecordConfirmedFailure,
         RecordCodeProposal, MoveProposal, ApprovePostReview, ResumeObservedReview,
         ResumeApprovedReview, RetryRejectedProposalAttempt, RetryFailedProposalAttempt,
         CloseAttempt, PlanEffect, AbandonEffect, ObserveEffect, ReconcileEffect, MarkPlanned,
         InterruptGoalExecution, MarkDispatched, BlockRunningSteps, InterruptAttempts, PauseRuns, PauseTask
<1> QED
  BY <1>1, <1>2

\* An action outside is idle, is let through by a dispatch, or is taken.
LEMMA ActMoves ==
  ASSUME TypeOK, [Next]_vars, NEW e \in Effects
  PROVE  ActIdle(e) \/ ActSent(e) \/ ActDone(e)
<1> USE DEF TypeOK
<1>1. CASE outside' = outside
  <2>1. performed' = performed /\ acting' = acting
    BY <1>1 DEF outside
  <2>2. ASSUME effect[e].state = "dispatched", effect'[e].state = "observed" PROVE e \notin acting
    <3>1. ASSUME NEW f \in Effects, ObserveEffect(f) PROVE e \notin acting
      BY <2>2, <3>1 DEF ObserveEffect
    <3>2. ASSUME effect'[e] = Forsaken(e) PROVE FALSE
      BY <2>2, <3>2 DEF Forsaken, EffectRow
    <3>3. ASSUME NEW f \in Effects, NEW a \in Attempts, NEW tok \in Nat,
                 PlanEffect(f, a, tok) \/ DispatchEffect(f, tok) \/ AbandonEffect(f)
                   \/ ReconcileEffect(f)
          PROVE  FALSE
      BY <2>2, <3>3 DEF PlanEffect, DispatchEffect, AbandonEffect, ReconcileEffect, EffectRow
    <3>4. ASSUME NEW r \in Runs, RecoverExpiredRun(r) \/ InterruptGoalExecution(r) PROVE FALSE
      BY <2>2, <3>2, <3>4 DEF RecoverExpiredRun, InterruptGoalExecution
    <3>5. CASE MarkPlanned \/ MarkDispatched
      BY <2>2, <3>2, <3>5 DEF MarkPlanned, MarkDispatched
    <3>6. ASSUME NEW f \in Effects, NEW tok \in Nat, DispatchEffect(f, tok) PROVE FALSE
      BY <2>2, <3>6 DEF DispatchEffect, EffectRow
    <3>7. ASSUME NEW f \in Effects, AbandonEffect(f) \/ ReconcileEffect(f) PROVE FALSE
      BY <2>2, <3>7 DEF AbandonEffect, ReconcileEffect, EffectRow
    <3> QED
      BY <2>2, <3>1, <3>3, <3>4, <3>5, <3>6, <3>7, EffectWriters
  <2> QED
    BY <2>1, <2>2 DEF ActIdle
<1>2. CASE Crash
  BY <1>2 DEF Crash, ActIdle
<1>3. ASSUME NEW f \in Effects, NEW tok \in Nat, DispatchEffect(f, tok)
      PROVE  ActIdle(e) \/ ActSent(e)
  BY <1>3 DEF DispatchEffect, ActIdle, ActSent, EffectRow
<1>4. ASSUME NEW f \in Effects, Act(f) PROVE ActIdle(e) \/ ActDone(e)
  <2>1. CASE e = f
    BY <1>4, <2>1 DEF Act, ActDone
  <2>2. CASE e # f
    BY <1>4, <2>2 DEF Act, ActIdle
  <2> QED
    BY <2>1, <2>2
<1> QED
  BY <1>1, <1>2, <1>3, <1>4, OutsideWriters

\* Nothing is carried out twice, nor without its dispatch.
LEMMA CarriedOutNext ==
  ASSUME TypeOK, Linked, CarriedOut, [Next]_vars
  PROVE  CarriedOut'
<1> SUFFICES ASSUME NEW e \in Effects
             PROVE  /\ performed'[e] \in {0, 1}
                    /\ e \in acting' => /\ performed'[e] = 0
                                        /\ effect'[e].state \in {"dispatched", "uncertain", "reconciled"}
                    /\ performed'[e] = 1 => effect'[e].state
                                              \in {"dispatched", "observed", "uncertain", "reconciled"}
  BY DEF CarriedOut
<1>1. EffectMove(e)
  BY EffectMoves
<1>2. CASE ActIdle(e)
  BY <1>1, <1>2 DEF CarriedOut, ActIdle, EffectMove, EffectPlanned, EffectDispatched,
                    EffectSettled, EffectDoubted
<1>3. CASE ActSent(e)
  BY <1>3 DEF CarriedOut, ActSent
<1>4. CASE ActDone(e)
  BY <1>4 DEF CarriedOut, ActDone
<1> QED
  BY <1>2, <1>3, <1>4, ActMoves

\* The run of an effect never changes.
LEMMA SameRun ==
  ASSUME TypeOK, Linked, [Next]_vars, NEW e \in Effects, effect[e].state # "none",
         effect'[e].attempt = effect[e].attempt
  PROVE  /\ RunOf(e)' = RunOf(e) /\ RunOf(e) \in Runs /\ run[RunOf(e)].state # "none"
         /\ e \in EffectsOf(RunOf(e))
<1>1. effect[e].attempt \in Attempts /\ attempt[effect[e].attempt].state # "none"
  BY DEF Linked
<1>2. AttemptMove(effect[e].attempt)
  BY <1>1, AttemptMoves
<1>3. attempt'[effect[e].attempt].run = attempt[effect[e].attempt].run
  BY <1>1, <1>2 DEF AttemptMove, AttemptBegun, AttemptKept, AttemptResumes
<1> QED
  BY <1>1, <1>3 DEF RunOf, EffectsOf, Linked

\* A new lease is never issued around an action in flight.
LEMMA OwnerNext ==
  ASSUME TypeOK, Linked, InFlightBelongsToOwner, [Next]_vars
  PROVE  InFlightBelongsToOwner'
<1> SUFFICES ASSUME NEW e \in Effects, InFlight(e)'
             PROVE  /\ effect'[e].token = run'[RunOf(e)'].token
                    /\ effect'[e].generation = run'[RunOf(e)'].generation
  BY DEF InFlightBelongsToOwner, InFlight
<1>1. CASE EffectPlanned(e) \/ EffectDispatched(e)
  BY <1>1 DEF EffectPlanned, EffectDispatched, RunOf
<1>2. CASE effect'[e] = effect[e]
  <2> DEFINE r == RunOf(e)
  <2>1. /\ effect[e].token = run[r].token /\ effect[e].generation = run[r].generation
        /\ effect[e].state # "none"
    BY <1>2 DEF InFlightBelongsToOwner, InFlight
  <2>2. /\ RunOf(e)' = r /\ r \in Runs /\ run[r].state # "none" /\ e \in EffectsOf(r)
    BY <1>2, <2>1, SameRun
  <2>3. RunMove(r)
    BY <2>2, RunMoves
  <2>4. run'[r].token = run[r].token /\ run'[r].generation = run[r].generation
    BY <2>2, <2>3 DEF RunMove, RunBegun, RunKept, RunReissued
  <2> QED
    BY <1>2, <2>1, <2>2, <2>4
<1>3. EffectMove(e) /\ ~EffectSettled(e) /\ ~EffectDoubted(e)
  BY EffectMoves DEF InFlight, EffectSettled, EffectDoubted
<1> QED
  BY <1>1, <1>2, <1>3 DEF EffectMove

\* What runs, attempts and effects do leaves startup, verdicts and evidence alone.
LEMMA WorkersLeaveAlone ==
  /\ RunStep => UNCHANGED <<process, verdict, evidence>>
  /\ AttemptStep => UNCHANGED <<process, verdict, evidence>>
  /\ EffectStep => UNCHANGED <<process, verdict, evidence>>
<1>1. ASSUME RunStep PROVE UNCHANGED <<process, verdict, evidence>>
  BY <1>1 DEF RunStep, BeginRun, Expire, RecoverExpiredRun, PauseIdleRun, InterruptGoalExecution,
              work, planning
<1>2. ASSUME AttemptStep PROVE UNCHANGED <<process, verdict, evidence>>
  <2>1. ASSUME NEW a, NEW r, NEW tok, NEW k, BeginStepAttempt(a, r, tok, k) \/ CompleteAttempt(a, tok)
        PROVE  UNCHANGED <<process, verdict, evidence>>
    BY <2>1 DEF BeginStepAttempt, CompleteAttempt, work, planning
  <2>2. ASSUME NEW a, \/ FailAttempt(a) \/ RecordConfirmedFailure(a) \/ RecordCodeProposal(a)
                      \/ MoveProposal(a) \/ ApprovePostReview(a)
        PROVE  UNCHANGED <<process, verdict, evidence>>
    BY <2>2 DEF FailAttempt, RecordConfirmedFailure, RecordCodeProposal, MoveProposal, ApprovePostReview,
                work, planning
  <2>3. ASSUME NEW a, \/ ResumeObservedReview(a) \/ ResumeApprovedReview(a)
                      \/ RetryRejectedProposalAttempt(a)
        PROVE  UNCHANGED <<process, verdict, evidence>>
    BY <2>3 DEF ResumeObservedReview, ResumeApprovedReview, RetryRejectedProposalAttempt, CloseAttempt,
                work, planning
  <2> QED
    BY <1>2, <2>1, <2>2, <2>3 DEF AttemptStep
<1>3. ASSUME EffectStep PROVE UNCHANGED <<process, verdict, evidence>>
  BY <1>3 DEF EffectStep, PlanEffect, DispatchEffect, Act, AbandonEffect, ObserveEffect, ReconcileEffect,
              RetryFailedProposalAttempt, CloseAttempt, work, planning
<1> QED
  BY <1>1, <1>2, <1>3

\* How the process comes to serve, or to pause the task at startup.
LEMMA BootWriters ==
  ASSUME [Next]_vars, boot' \in {0, 6}
  PROVE  boot' = boot \/ PauseRuns \/ PauseTask
<1>1. CASE UNCHANGED vars
  BY <1>1 DEF vars, process
<1>2. CASE TaskStep
  BY <1>2 DEF TaskStep, CreatePlan, ReviseRequirements, CompleteTask, ReviewPlan, StartStep,
              CompleteStep, FailStep, RecordValidation, process
<1>5. CASE RunStep \/ AttemptStep \/ EffectStep
  BY <1>5, WorkersLeaveAlone DEF process
<1>3. CASE Crash
  BY <1>3 DEF Crash
<1>4. CASE RecoverInterrupted
  BY <1>4 DEF RecoverInterrupted, MarkPlanned, MarkDispatched, BlockRunningSteps, InterruptAttempts
<1> QED
  BY <1>1, <1>2, <1>3, <1>4, <1>5 DEF Next

\* A run with an effect in doubt is not handed out.
LEMMA DoubtNext ==
  ASSUME TypeOK, Linked, DoubtInv, [Next]_vars
  PROVE  DoubtInv'
<1> SUFFICES ASSUME boot' \in {0, 6}, NEW e \in Effects, effect'[e].state = "uncertain"
             PROVE  run'[RunOf(e)'].state # "running"
  BY DEF DoubtInv
<1>1. CASE PauseRuns
  <2>1. RunOf(e)' \in Runs
    BY LinkedNext DEF Linked, RunOf
  <2> QED
    BY <1>1, <2>1 DEF PauseRuns, TypeOK, RunRow
<1>2. CASE ~PauseRuns
  <2>1. boot \in {0, 6}
    BY <1>2, BootWriters DEF PauseTask
  <2>2. boot' # 3
    OBVIOUS
  <2>3. /\ effect[e].state # "none" /\ effect'[e].attempt = effect[e].attempt
        /\ effect'[e] = effect[e] \/ run'[RunOf(e)].state = "paused"
    BY <2>2, EffectMoves
       DEF EffectMove, EffectPlanned, EffectDispatched, EffectSettled, EffectDoubted
  <2> DEFINE r == RunOf(e)
  <2>4. /\ RunOf(e)' = r /\ r \in Runs /\ run[r].state # "none" /\ e \in EffectsOf(r)
    BY <2>3, SameRun
  <2>5. CASE effect'[e] = effect[e]
    <3>1. effect[e].state = "uncertain" /\ run[r].state # "running"
      BY <2>1, <2>5 DEF DoubtInv
    <3>2. RunMove(r)
      BY <2>4, RunMoves
    <3> QED
      BY <2>4, <3>1, <3>2 DEF RunMove, RunBegun, RunKept, RunReissued
  <2> QED
    BY <2>3, <2>4, <2>5
<1> QED
  BY <1>1, <1>2

\* A new task has no effects.
LEMMA EffectInitInv == Init => EffectInv
BY DEF Init, EffectInv, CarriedOut, InFlightBelongsToOwner, DoubtInv, NoEffect

\* The inductive invariant about effects.
LEMMA EffectInvariant == Spec => [](TypeOK /\ Linked /\ EffectInv)
<1>1. TypeOK /\ Linked /\ EffectInv /\ [Next]_vars => EffectInv'
  BY CarriedOutNext, OwnerNext, DoubtNext DEF EffectInv
<1> QED
  BY <1>1, TypeInit, LinkedInit, EffectInitInv, TypeNext, LinkedNext, PTL DEF Spec

\* Through takeovers, failed attempts, crashes and startups cut short no action
\* that was or will be carried out is on record as one that was not executed.
THEOREM NothingIsDenied == Spec => []NothingDenied
<1>1. TypeOK /\ EffectInv => NothingDenied
  BY DEF TypeOK, EffectInv, CarriedOut, NothingDenied
<1> QED
  BY <1>1, EffectInvariant, PTL

\* A run never passes to a new owner or a new generation around an action in flight.
THEOREM InFlightIsOwned == Spec => []InFlightBelongsToOwner
<1>1. EffectInv => InFlightBelongsToOwner
  BY DEF EffectInv
<1> QED
  BY <1>1, EffectInvariant, PTL

\* While an effect of a run is in doubt nobody holds a lease on that run.
THEOREM DoubtIsRespected == Spec => []DoubtStopsTheRun
<1>1. EffectInv => DoubtStopsTheRun
  BY DEF EffectInv, DoubtInv, DoubtStopsTheRun, Up
<1> QED
  BY <1>1, EffectInvariant, PTL

(***************************************************************************)
(* The refinement: every step moves each operation of the ledger by one of *)
(* the ledger's moves.                                                     *)
(***************************************************************************)
\* A new task is an empty ledger.
LEMMA LedgerInit == Init => Ledger!Init
BY DEF Init, Ledger!Init, NoEffect

\* Every step moves each operation by a move of the ledger, or leaves it.
LEMMA LedgerStep ==
  TypeOK /\ Linked /\ EffectInv /\ [Next]_vars => [Ledger!Next]_(Ledger!vars)
<1> SUFFICES ASSUME TypeOK, Linked, EffectInv, [Next]_vars,
                    NEW e \in Effects
             PROVE  Ledger!Move(e)
  BY DEF Ledger!Next
<1> DEFINE was == effect[e].state
           is == effect'[e].state
<1>1. /\ [f \in Effects |-> effect[f].state][e] = was
      /\ [f \in Effects |-> effect[f].state]'[e] = is
  OBVIOUS
<1>2. CASE ActDone(e) /\ performed'[e] = performed[e] + 1
  BY <1>1, <1>2 DEF ActDone, EffectInv, CarriedOut, Ledger!Move, Ledger!Perform
<1>3. CASE performed'[e] = performed[e]
  BY <1>1, <1>3, EffectMoves
     DEF EffectMove, EffectPlanned, EffectDispatched, EffectSettled, EffectDoubted, Ledger!Move,
         Ledger!Becomes, Ledger!Keep, Ledger!Plan, Ledger!Abandon, Ledger!Dispatch,
         Ledger!Observe, Ledger!LoseSight, Ledger!Reconcile
<1> QED
  BY <1>2, <1>3, ActMoves DEF ActIdle, ActSent, ActDone

\* The effects of a task follow the ledger: each is carried out at most once,
\* after its dispatch, and what is recorded of it is final.
THEOREM ImplementsLedger == Spec => FollowsLedger
<1>1. Spec => Ledger!Init /\ [][Ledger!Next]_(Ledger!vars)
  BY LedgerInit, LedgerStep, EffectInvariant, PTL DEF Spec
<1> QED
  BY <1>1 DEF FollowsLedger, Ledger!Spec

(***************************************************************************)
(* Steps and the task.                                                     *)
(***************************************************************************)
StepDone(s) ==
  /\ step[s].state = "running" /\ step'[s].state = "completed"
  /\ step'[s].rev = step[s].rev + 1 /\ <<s, step[s].rev>> \in passed
StepMoved(s) ==
  /\ step'[s].state # "completed" /\ step'[s].rev = step[s].rev + 1
  /\ task'.state # "verifying" \/ boot' # 0 \/ OfGoal(s)
  /\ \/ step'[s].state = "failed" \/ step[s].state = "blocked" \/ Approved(s[1])
     \/ \E r \in Runs : run[r].state # "none" /\ run[r].plan = s[1]
StepMove(s) == step'[s] = step[s] \/ StepDone(s) \/ StepMoved(s)

\* The operations that write task_steps.
LEMMA StepWriters ==
  ASSUME [Next]_vars
  PROVE  \/ step' = step
         \/ \E k \in StepKeys : StartStep(k) \/ CompleteStep(k) \/ FailStep(k)
         \/ \E r \in Runs : RecoverExpiredRun(r) \/ InterruptGoalExecution(r)
         \/ \E a \in Attempts, r \in Runs, tok \in Nat, k \in StepKeys : BeginStepAttempt(a, r, tok, k)
         \/ \E a \in Attempts : ResumeObservedReview(a) \/ RetryRejectedProposalAttempt(a)
         \/ \E e \in Effects : RetryFailedProposalAttempt(e)
         \/ BlockRunningSteps
<1>1. CASE UNCHANGED vars
  BY <1>1 DEF vars, work
<1>2. CASE Next
  BY <1>2, NextCases
     DEF CreatePlan, ReviseRequirements, CompleteTask, Crash, ReviewPlan, RecordValidation,
         BeginRun, Expire, PauseIdleRun, CompleteAttempt, FailAttempt, RecordConfirmedFailure,
         RecordCodeProposal, MoveProposal, ApprovePostReview, ResumeApprovedReview, PlanEffect,
         DispatchEffect, Act, AbandonEffect, ObserveEffect, ReconcileEffect, MarkPlanned,
         MarkDispatched, InterruptAttempts, PauseRuns, PauseTask, work
<1> QED
  BY <1>1, <1>2

\* A step completes on its evidence, or gets a new revision in another state.
LEMMA StepMoves ==
  ASSUME TypeOK, Linked, [Next]_vars, NEW s \in Steps
  PROVE  StepMove(s)
<1> USE DEF TypeOK
<1>1. CASE step' = step
  BY <1>1 DEF StepMove
<1>2. ASSUME NEW x, NEW st, SetStep(x, st)
      PROVE  /\ s # x => step'[s] = step[s]
             /\ s = x => step'[s].state = st /\ step'[s].rev = step[s].rev + 1
  BY <1>2 DEF SetStep
<1>3. ASSUME NEW k \in StepKeys, StartStep(k) \/ CompleteStep(k) \/ FailStep(k) PROVE StepMove(s)
  <2>1. CASE StartStep(k)
    <3>1. s # <<task.plan, k>> => step'[s] = step[s]
      BY <1>2, <2>1 DEF StartStep
    <3>2. CASE s = <<task.plan, k>>
      <4>1. /\ step'[s].state = "running" /\ step'[s].rev = step[s].rev + 1
            /\ task'.state = "running" /\ Approved(s[1])
        BY <1>2, <2>1, <3>2 DEF StartStep, SetTask, TaskRow
      <4> QED
        BY <4>1 DEF StepMove, StepMoved
    <3> QED
      BY <3>1, <3>2 DEF StepMove
  <2>2. CASE CompleteStep(k)
    BY <1>2, <2>2 DEF CompleteStep, StepMove, StepDone
  <2>3. CASE FailStep(k)
    BY <1>2, <2>3 DEF FailStep, SetTask, StepMove, StepMoved, TaskRow
  <2> QED
    BY <1>3, <2>1, <2>2, <2>3
<1>4. ASSUME NEW B, \A a \in B : a \in Attempts /\ attempt[a].state = "running", BlockSteps(B),
             \/ task'.state = "paused" \/ boot' = 4
             \/ \A a \in B : attempt[a].run \in GoalRuns
      PROVE  StepMove(s)
  <2>1. CASE \E a \in B : attempt[a].step = s
    <3>1. step'[s].state = "blocked" /\ step'[s].rev = step[s].rev + 1
      BY <1>4, <2>1 DEF BlockSteps
    <3>2. \E r \in Runs : run[r].state # "none" /\ run[r].plan = s[1]
      BY <1>4, <2>1 DEF Linked
    <3>3. task'.state = "paused" \/ boot' = 4 \/ OfGoal(s)
      BY <1>4, <2>1 DEF OfGoal
    <3> QED
      BY <3>1, <3>2, <3>3 DEF StepMove, StepMoved
  <2>2. CASE ~ \E a \in B : attempt[a].step = s
    BY <1>4, <2>2 DEF BlockSteps, StepMove
  <2> QED
    BY <2>1, <2>2
<1>5. ASSUME NEW r \in Runs, RecoverExpiredRun(r) PROVE StepMove(s)
  <2>1. CASE SetTask("paused") /\ BlockSteps(Running(AttemptsOf(r)))
    <3>1. task'.state = "paused"
      BY <2>1 DEF SetTask, TaskRow
    <3> QED
      BY <1>4, <2>1, <3>1 DEF Running, AttemptsOf
  <2> QED
    BY <1>1, <1>5, <2>1 DEF RecoverExpiredRun
<1>6. ASSUME NEW a \in Attempts, NEW r \in Runs, NEW tok \in Nat, NEW k \in StepKeys,
             BeginStepAttempt(a, r, tok, k)
      PROVE  StepMove(s)
  <2>1. run[r].state # "none" /\ task'.state = "running"
    BY <1>6 DEF BeginStepAttempt, Holds, SetTask, TaskRow
  <2>2. CASE s = <<run[r].plan, k>>
    BY <1>2, <1>6, <2>1, <2>2 DEF BeginStepAttempt, StepMove, StepMoved
  <2>3. CASE s # <<run[r].plan, k>>
    BY <1>2, <1>6, <2>3 DEF BeginStepAttempt, StepMove
  <2> QED
    BY <2>2, <2>3
<1>7. ASSUME NEW a \in Attempts, ResumeObservedReview(a) PROVE StepMove(s)
  <2>1. step[attempt[a].step].state = "blocked" /\ task'.state = "running"
    BY <1>7 DEF ResumeObservedReview, OfLatestRun, Waiting, SetTask, TaskRow
  <2> QED
    BY <1>2, <1>7, <2>1 DEF ResumeObservedReview, StepMove, StepMoved
<1>8. ASSUME NEW a \in Attempts, CloseAttempt(a) PROVE StepMove(s)
  <2>1. task'.state = "paused"
    BY <1>8 DEF CloseAttempt, SetTask, TaskRow
  <2> QED
    BY <1>2, <1>8, <2>1 DEF CloseAttempt, StepMove, StepMoved
<1>8a. ASSUME NEW r \in Runs, InterruptGoalExecution(r) PROVE StepMove(s)
  BY <1>4, <1>8a DEF InterruptGoalExecution, Running, AttemptsOf
<1>9. CASE BlockRunningSteps
  BY <1>4, <1>9 DEF BlockRunningSteps, Running
<1> QED
  <2>1. ASSUME NEW a \in Attempts, RetryRejectedProposalAttempt(a) PROVE StepMove(s)
    BY <1>8, <2>1 DEF RetryRejectedProposalAttempt
  <2>2. ASSUME NEW e \in Effects, RetryFailedProposalAttempt(e) PROVE StepMove(s)
    BY <1>8, <2>2 DEF RetryFailedProposalAttempt, Linked
  <2> QED
    BY <1>1, <1>3, <1>5, <1>6, <1>7, <1>9, <1>8a, <2>1, <2>2, StepWriters

\* An attempt never is about a later revision of its step than the current one,
\* and no two attempts are about the same.
Revisions ==
  /\ \A a \in Attempts : attempt[a].state # "none" => attempt[a].rev <= step[attempt[a].step].rev
  /\ \A a, b \in Attempts :
       (attempt[a].state # "none" /\ attempt[b].state # "none"
          /\ attempt[a].step = attempt[b].step /\ attempt[a].rev = attempt[b].rev) => a = b

\* A new or resumed attempt is alone at the revision it is bound to.
LEMMA RevisionsNext ==
  ASSUME TypeOK, Linked, Revisions, [Next]_vars
  PROVE  Revisions'
<1>1. ASSUME NEW s \in Steps
      PROVE  step[s].rev \in Nat /\ step'[s].rev \in Nat /\ step[s].rev <= step'[s].rev
  <2>1. step[s].rev \in Nat
    BY DEF TypeOK, StepRow
  <2>2. StepMove(s)
    BY StepMoves
  <2> QED
    BY <2>1, <2>2 DEF StepMove, StepDone, StepMoved
<1>2. ASSUME NEW a \in Attempts, attempt'[a].state # "none"
      PROVE  \/ /\ attempt[a].state # "none" /\ attempt'[a].step = attempt[a].step
                /\ attempt'[a].rev = attempt[a].rev
             \/ AttemptBegun(a) \/ AttemptResumes(a)
  BY <1>2, AttemptMoves DEF AttemptMove, AttemptKept
<1>3. ASSUME NEW a \in Attempts, AttemptBegun(a) \/ AttemptResumes(a)
      PROVE  /\ attempt'[a].rev = step[attempt'[a].step].rev + 1
             /\ attempt'[a].rev = step'[attempt'[a].step].rev
             /\ attempt'[a].step \in Steps
             /\ \A b \in Attempts \ {a} : attempt'[b] = attempt[b]
  BY <1>3 DEF AttemptBegun, AttemptResumes, Linked
<1>4. ASSUME NEW a \in Attempts, attempt'[a].state # "none"
      PROVE  attempt'[a].rev <= step'[attempt'[a].step].rev
  <2>1. CASE AttemptBegun(a) \/ AttemptResumes(a)
    BY <1>1, <1>3, <2>1
  <2>2. CASE ~(AttemptBegun(a) \/ AttemptResumes(a))
    <3>1. /\ attempt[a].state # "none" /\ attempt'[a].step = attempt[a].step
          /\ attempt'[a].rev = attempt[a].rev
      BY <1>2, <1>4, <2>2
    <3>2. attempt[a].step \in Steps /\ attempt[a].rev <= step[attempt[a].step].rev /\ attempt[a].rev \in Nat
      BY <3>1 DEF Linked, Revisions, TypeOK, AttemptRow
    <3> QED
      BY <1>1, <3>1, <3>2
  <2> QED
    BY <2>1, <2>2
<1>5. ASSUME NEW a \in Attempts, NEW b \in Attempts, AttemptBegun(a) \/ AttemptResumes(a),
             attempt'[b].state # "none", attempt'[a].step = attempt'[b].step,
             attempt'[a].rev = attempt'[b].rev
      PROVE  a = b
  <2> SUFFICES ASSUME a # b PROVE FALSE
    OBVIOUS
  <2>1. attempt'[b] = attempt[b]
    BY <1>3, <1>5
  <2>2. attempt[b].rev <= step[attempt[b].step].rev /\ attempt[b].rev \in Nat /\ attempt[b].step \in Steps
    BY <1>5, <2>1 DEF Revisions, TypeOK, AttemptRow, Linked
  <2>3. attempt[b].rev = step[attempt[b].step].rev + 1
    BY <1>3, <1>5, <2>1
  <2> QED
    BY <1>1, <2>2, <2>3
<1>6. ASSUME NEW a \in Attempts, NEW b \in Attempts, attempt'[a].state # "none",
             attempt'[b].state # "none", attempt'[a].step = attempt'[b].step,
             attempt'[a].rev = attempt'[b].rev
      PROVE  a = b
  <2>1. CASE ~(AttemptBegun(a) \/ AttemptResumes(a)) /\ ~(AttemptBegun(b) \/ AttemptResumes(b))
    BY <1>2, <1>6, <2>1 DEF Revisions
  <2> QED
    BY <1>5, <1>6, <2>1
<1> QED
  BY <1>4, <1>6 DEF Revisions

\* No two attempts can act on one step, for any number of runs, takeovers and restarts.
THEOREM OneActor == Spec => []OneActorPerStep
<1>1. Init => Revisions
  <2>1. Init => \A a \in Attempts : attempt[a].state = "none"
    BY DEF Init, NoAttempt
  <2> QED
    BY <2>1 DEF Revisions
<1>2. TypeOK /\ Linked /\ Revisions /\ [Next]_vars => Revisions'
  BY RevisionsNext
<1>3. TypeOK /\ Linked /\ Revisions => OneActorPerStep
  BY DEF Revisions, OneActorPerStep, Authorised, Holds
<1> QED
  BY <1>1, <1>2, <1>3, TypeCorrect, PTL DEF Spec

\* Validations are never removed.
LEMMA PassedGrows ==
  ASSUME [Next]_vars
  PROVE  passed \subseteq passed'
<1>1. CASE UNCHANGED vars
  BY <1>1 DEF vars, work, evidence
<1>2. CASE RunStep \/ AttemptStep \/ EffectStep
  BY <1>2, WorkersLeaveAlone DEF evidence
<1>7. CASE Crash \/ RecoverInterrupted
  BY <1>7 DEF RecoverInterrupted, Crash, MarkPlanned, MarkDispatched, BlockRunningSteps,
              InterruptAttempts, PauseRuns, PauseTask, work, evidence
<1>3. CASE CreatePlan \/ ReviseRequirements \/ CompleteTask
  BY <1>3 DEF CreatePlan, ReviseRequirements, CompleteTask, work, evidence
<1>4. ASSUME NEW v, ReviewPlan(v) PROVE passed \subseteq passed'
  BY <1>4 DEF ReviewPlan, work, evidence
<1>5. ASSUME NEW k, StartStep(k) \/ CompleteStep(k) \/ FailStep(k) PROVE passed \subseteq passed'
  BY <1>5 DEF StartStep, CompleteStep, FailStep, evidence
<1>6. ASSUME NEW k, NEW n, NEW status, RecordValidation(k, n, status)
      PROVE  passed \subseteq passed'
  BY <1>6 DEF RecordValidation
<1> QED
  BY <1>1, <1>2, <1>3, <1>4, <1>5, <1>6, <1>7 DEF Next, TaskStep

\* A completed step rests on a validation of the revision it was completed from.
THEOREM EvidenceBehindCompletion == Spec => []CompletedOnEvidence
<1>1. Init => CompletedOnEvidence
  BY DEF Init, CompletedOnEvidence
<1>2. TypeOK /\ Linked /\ CompletedOnEvidence /\ [Next]_vars => CompletedOnEvidence'
  <2> SUFFICES ASSUME TypeOK, Linked, CompletedOnEvidence, [Next]_vars, NEW s \in Steps,
                      step'[s].state = "completed"
               PROVE  <<s, step'[s].rev - 1>> \in passed'
    BY DEF CompletedOnEvidence
  <2>1. StepMove(s) /\ passed \subseteq passed' /\ step[s].rev \in Nat
    BY PassedGrows, StepMoves DEF TypeOK, StepRow
  <2>2. CASE step'[s] = step[s]
    BY <2>1, <2>2 DEF CompletedOnEvidence
  <2>3. CASE StepDone(s)
    BY <2>1, <2>3 DEF StepDone
  <2> QED
    BY <2>1, <2>2, <2>3 DEF StepMove, StepMoved
<1> QED
  BY <1>1, <1>2, TypeCorrect, PTL DEF Spec

\* Who completes a task, who moves it to verification, and which plan it runs.
LEMMA TaskMoves ==
  ASSUME TypeOK, [Next]_vars
  PROVE  /\ task'.state = "completed" => (task'.state = task.state /\ task'.plan = task.plan) \/ CompleteTask
         /\ task'.state = "verifying" => task' = task \/ \E k \in StepKeys : CompleteStep(k)
<1> USE DEF TypeOK, TaskRow, SetTask
<1> DEFINE Goal == /\ task'.state = "completed" => (task'.state = task.state /\ task'.plan = task.plan) \/ CompleteTask
                   /\ task'.state = "verifying" => task' = task \/ \E k \in StepKeys : CompleteStep(k)
<1>1. CASE task' = task
  BY <1>1
<1>2. CASE TaskStep
  <2>1. CASE CreatePlan \/ ReviseRequirements \/ CompleteTask
    BY <2>1 DEF CreatePlan, ReviseRequirements, CompleteTask
  <2>2. ASSUME NEW v, ReviewPlan(v) PROVE Goal
    BY <2>2 DEF ReviewPlan
  <2>3. ASSUME NEW k \in StepKeys, StartStep(k) \/ CompleteStep(k) \/ FailStep(k) PROVE Goal
    BY <2>3 DEF StartStep, CompleteStep, FailStep
  <2>4. ASSUME NEW k \in StepKeys, NEW n, NEW status, RecordValidation(k, n, status) PROVE Goal
    BY <2>4 DEF RecordValidation, planning
  <2> QED
    BY <1>2, <2>1, <2>2, <2>3, <2>4 DEF TaskStep
<1>3. CASE RunStep
  <2>1. ASSUME NEW r \in Runs, NEW tok, 
                 \/ BeginRun(r) \/ Expire(r) \/ RecoverExpiredRun(r)
                 \/ InterruptGoalExecution(r) \/ PauseIdleRun(r, tok)
        PROVE  Goal
    BY <2>1 DEF BeginRun, Expire, RecoverExpiredRun, InterruptGoalExecution, PauseIdleRun, planning
  <2> QED
    BY <1>3, <2>1 DEF RunStep
<1>4. CASE AttemptStep
  <2>1. ASSUME NEW a \in Attempts, NEW r, NEW tok, NEW k, BeginStepAttempt(a, r, tok, k) \/ CompleteAttempt(a, tok)
        PROVE  Goal
    BY <2>1 DEF BeginStepAttempt, CompleteAttempt, planning
  <2>2. ASSUME NEW a \in Attempts, FailAttempt(a) \/ RecordConfirmedFailure(a) \/ RecordCodeProposal(a)
                                   \/ MoveProposal(a) \/ ApprovePostReview(a)
        PROVE  Goal
    BY <2>2 DEF FailAttempt, RecordConfirmedFailure, RecordCodeProposal, MoveProposal,
                ApprovePostReview, planning
  <2>3. ASSUME NEW a \in Attempts, ResumeObservedReview(a) \/ ResumeApprovedReview(a)
                                   \/ RetryRejectedProposalAttempt(a)
        PROVE  Goal
    BY <2>3 DEF ResumeObservedReview, ResumeApprovedReview, RetryRejectedProposalAttempt, CloseAttempt
  <2> QED
    BY <1>4, <2>1, <2>2, <2>3 DEF AttemptStep
<1>5. CASE EffectStep
  <2>1. ASSUME NEW e \in Effects, NEW a, NEW tok, PlanEffect(e, a, tok) \/ DispatchEffect(e, tok) \/ Act(e)
                 \/ AbandonEffect(e) \/ ObserveEffect(e) \/ ReconcileEffect(e)
        PROVE  Goal
    BY <2>1 DEF PlanEffect, DispatchEffect, Act, AbandonEffect, ObserveEffect, ReconcileEffect, planning
  <2>2. ASSUME NEW e \in Effects, RetryFailedProposalAttempt(e) PROVE Goal
    BY <2>2 DEF RetryFailedProposalAttempt, CloseAttempt
  <2> QED
    BY <1>5, <2>1, <2>2 DEF EffectStep
<1>6. CASE Crash \/ RecoverInterrupted
  BY <1>6 DEF Crash, RecoverInterrupted, MarkPlanned, MarkDispatched, BlockRunningSteps,
              InterruptAttempts, PauseRuns, PauseTask, planning
<1>7. CASE UNCHANGED vars
  BY <1>1, <1>7 DEF vars, planning
<1> QED
  BY <1>2, <1>3, <1>4, <1>5, <1>6, <1>7 DEF Next

\* A completed task has no action pending, in flight or in doubt, and gets none.
THEOREM CompletionSettles == Spec => []CompletedSettled
<1>1. Init => CompletedSettled
  BY DEF Init, CompletedSettled
<1>2. TypeOK /\ Linked /\ CompletedSettled /\ [Next]_vars => CompletedSettled'
  <2> SUFFICES ASSUME TypeOK, Linked, CompletedSettled, [Next]_vars, task'.state = "completed",
                      NEW e \in Effects, effect'[e].state \in OpenStates
               PROVE  FALSE
    BY DEF CompletedSettled, Open
  <2>1. CASE task.state = "completed"
    <3>1. effect[e].state \notin OpenStates
      BY <2>1 DEF CompletedSettled, Open
    <3>2. EffectMove(e)
      BY EffectMoves
    <3> QED
      BY <2>1, <3>1, <3>2 DEF OpenStates, EffectMove, EffectPlanned, EffectDispatched,
                              EffectSettled, EffectDoubted
  <2>2. CASE CompleteTask
    BY <2>2 DEF CompleteTask, Open
  <2> QED
    BY <2>1, <2>2, TaskMoves
<1> QED
  BY <1>1, <1>2, TypeCorrect, PTL DEF Spec

VerifyingInv ==
  task.state = "verifying" => task.plan # 0

\* A task that waits for its acceptance has every step of its plan completed.
THEOREM VerifyingFinished == Spec => []VerifyingIsFinished
<1>1. Init => VerifyingIsFinished /\ VerifyingInv
  BY DEF Init, VerifyingIsFinished, VerifyingInv
<1>2. TypeOK /\ VerifyingInv /\ [Next]_vars => VerifyingInv'
  <2> SUFFICES ASSUME TypeOK, VerifyingInv, [Next]_vars, task'.state = "verifying"
               PROVE  task'.plan # 0
    BY DEF VerifyingInv
  <2>1. ASSUME NEW k \in StepKeys, CompleteStep(k) PROVE task'.plan # 0
    BY <2>1 DEF CompleteStep, SetTask, TypeOK, TaskRow
  <2>2. CASE task' = task
    BY <2>2 DEF VerifyingInv
  <2> QED
    BY <2>1, <2>2, TaskMoves
<1>3. TypeOK /\ Linked /\ VerifyingInv /\ VerifyingIsFinished /\ [Next]_vars => VerifyingIsFinished'
  <2> SUFFICES ASSUME TypeOK, Linked, VerifyingInv, VerifyingIsFinished, [Next]_vars,
                      boot' = 0, task'.state = "verifying", NEW k \in StepKeys
               PROVE  (step[<<task.plan, k>>].state = "completed" \/ OfGoal(<<task.plan, k>>))'
    BY DEF VerifyingIsFinished, Up
  <2>1. ASSUME NEW j \in StepKeys, CompleteStep(j)
        PROVE  step'[<<task'.plan, k>>].state = "completed"
    <3>1. /\ task' = [task EXCEPT !.state = IF \A i \in StepKeys \ {j} : step[<<task.plan, i>>].state = "completed"
                                              THEN "verifying" ELSE "running"]
          /\ task.plan # 0 /\ SetStep(<<task.plan, j>>, "completed")
      BY <2>1 DEF CompleteStep, SetTask
    <3>2. task'.plan = task.plan /\ \A i \in StepKeys \ {j} : step[<<task.plan, i>>].state = "completed"
      BY <3>1 DEF TypeOK, TaskRow
    <3>3. <<task.plan, j>> \in Steps /\ <<task.plan, k>> \in Steps
      BY <3>1 DEF TypeOK, TaskRow, Steps, Plans
    <3> QED
      BY <3>1, <3>2, <3>3 DEF SetStep, TypeOK
  <2>2. CASE task' = task
    <3>1. <<task.plan, k>> \in Steps
      BY <2>2 DEF VerifyingInv, TypeOK, TaskRow, Steps, Plans
    <3>1a. OfGoal(<<task.plan, k>>) => OfGoal(<<task.plan, k>>)'
      <4>1. ASSUME NEW a \in Attempts, attempt[a].state # "none"
            PROVE  attempt'[a].state # "none" /\ attempt'[a].step = attempt[a].step
                   /\ attempt'[a].run = attempt[a].run
        BY <4>1, AttemptMoves DEF AttemptMove, AttemptBegun, AttemptKept, AttemptResumes
      <4> QED
        BY <2>2, <4>1 DEF OfGoal
    <3>2. CASE boot = 0
      <4>1. step[<<task.plan, k>>].state = "completed" \/ OfGoal(<<task.plan, k>>)
        BY <2>2, <3>2 DEF VerifyingIsFinished, Up
      <4> QED
        BY <2>2, <3>1, <3>1a, <4>1, StepMoves DEF StepMove, StepDone, StepMoved
    <3>3. CASE PauseTask
      BY <2>2, <3>3 DEF PauseTask, Unfinished, VerifyingInv, SetTask, TypeOK, TaskRow, work
    <3>4. CASE PauseRuns
      BY <3>4 DEF PauseRuns
    <3> QED
      BY <3>2, <3>3, <3>4, BootWriters
  <2> QED
    BY <2>1, <2>2, TaskMoves
<1> QED
  BY <1>1, <1>2, <1>3, TypeCorrect, PTL DEF Spec

\* An approved plan stays approved.
LEMMA ApprovalStays ==
  ASSUME [Next]_vars, TypeOK, NEW p \in Plans, Approved(p)
  PROVE  Approved(p)'
<1>1. CASE verdict' = verdict
  BY <1>1 DEF Approved
<1>2. ASSUME NEW v, ReviewPlan(v) PROVE Approved(p)'
  BY <1>2 DEF ReviewPlan, Approved, TypeOK
<1>3. CASE UNCHANGED vars
  BY <1>1, <1>3 DEF vars, planning
<1>4. CASE RunStep \/ AttemptStep \/ EffectStep
  BY <1>1, <1>4, WorkersLeaveAlone
<1>7. CASE Crash \/ RecoverInterrupted
  BY <1>1, <1>7 DEF RecoverInterrupted, Crash, MarkPlanned, MarkDispatched, BlockRunningSteps,
                    InterruptAttempts, PauseRuns, PauseTask, planning
<1>5. CASE CreatePlan \/ ReviseRequirements \/ CompleteTask
  BY <1>1, <1>5 DEF CreatePlan, ReviseRequirements, CompleteTask
<1>6. ASSUME NEW k, NEW n, NEW status,
             StartStep(k) \/ CompleteStep(k) \/ FailStep(k) \/ RecordValidation(k, n, status)
      PROVE  Approved(p)'
  BY <1>1, <1>6 DEF StartStep, CompleteStep, FailStep, RecordValidation, planning
<1> QED
  BY <1>2, <1>3, <1>4, <1>5, <1>6, <1>7 DEF Next, TaskStep

\* Where plans are reviewed nothing is worked on under a plan that is not approved.
THEOREM WorkIsReviewed == Spec => []ReviewedBeforeWork
<1>1. Init => ReviewedBeforeWork
  BY DEF Init, ReviewedBeforeWork, NoRun
<1>2. TypeOK /\ Linked /\ ReviewedBeforeWork /\ [Next]_vars => ReviewedBeforeWork'
  <2> SUFFICES ASSUME TypeOK, Linked, ReviewedBeforeWork, [Next]_vars PROVE ReviewedBeforeWork'
    OBVIOUS
  <2>1. ASSUME NEW r \in Runs, run'[r].state # "none" PROVE Approved(run[r].plan)'
    <3>1. run'[r].plan \in Plans /\ RunMove(r)
      BY <2>1, LinkedNext, RunMoves DEF Linked
    <3>2. PICK p \in Plans : p = run'[r].plan
      BY <3>1
    <3>3. Approved(p)
      BY <2>1, <3>1, <3>2 DEF RunMove, RunBegun, RunKept, RunReissued, ReviewedBeforeWork
    <3>4. Approved(p)'
      BY <3>3, ApprovalStays
    <3> QED
      BY <3>2, <3>4 DEF Approved
  <2>2. ASSUME NEW s \in Steps, step'[s].state \in {"running", "blocked", "completed"}
        PROVE  Approved(s[1])'
    <3>1. s[1] \in Plans /\ StepMove(s)
      BY StepMoves DEF Steps
    <3>2. Approved(s[1])
      BY <2>2, <3>1 DEF StepMove, StepDone, StepMoved, ReviewedBeforeWork
    <3> QED
      BY <3>1, <3>2, ApprovalStays
  <2> QED
    BY <2>1, <2>2 DEF ReviewedBeforeWork
<1> QED
  BY <1>1, <1>2, TypeCorrect, PTL DEF Spec
=============================================================================
