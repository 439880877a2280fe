----------------------------- MODULE TaskEngine -----------------------------
(***************************************************************************)
(* One durable task of taskengine: its plans and steps, the runs that hold *)
(* a lease on it, their step attempts, and the external effects the        *)
(* attempts plan, dispatch and observe.                                    *)
(*                                                                         *)
(* Every operation is one SQL transaction on the store's only connection,  *)
(* so it is one action; the startup sequence RecoverInterrupted is several *)
(* statements and the process may stop between them.  Callers are free:    *)
(* any operation may come at any time, from a caller that presents any     *)
(* lease token ever issued.  A stale expected_task_revision or             *)
(* expected_step_revision is refused and changes nothing, so a call that   *)
(* gets through acts on the row it read and task.revision is not needed.   *)
(***************************************************************************)
EXTENDS Integers, FiniteSets

CONSTANTS
  StepKeys,    \* step_key of the steps of a plan
  Dependencies,\* Dependencies[k]: the steps that k waits for
  KindOf,      \* KindOf[e]: the action of effect e: "propose", "apply" or "run"
  PlanReview,  \* GoalContract.RequirePlanReview
  GoalRuns,    \* the runs whose owner is a goal
  Proposing,   \* bound: the attempts that may record a code proposal
  Verdicts,    \* bound: the statuses a validation may be recorded with
  MaxPlans, MaxRuns, MaxAttempts, MaxEffects, \* bounds: rows of each table
  MaxGeneration, \* bound: lease generations of a run
  MaxRevision,   \* bound: revisions of a step
  MaxRestarts    \* bound: crashes of the process

Plans == 1..MaxPlans
Steps == Plans \X StepKeys
Runs == 1..MaxRuns
Attempts == 1..MaxAttempts
Effects == 1..MaxEffects
Tokens == 1..MaxGeneration

ASSUME TaskEngineAssumption ==
  /\ IsFiniteSet(StepKeys) /\ StepKeys # {}
  /\ Dependencies \in [StepKeys -> SUBSET StepKeys]
  /\ MaxPlans \in Nat /\ MaxRuns \in Nat /\ MaxAttempts \in Nat /\ MaxEffects \in Nat
  /\ MaxGeneration \in Nat \ {0} /\ MaxRevision \in Nat /\ MaxRestarts \in Nat
  /\ KindOf \in [Effects -> {"propose", "apply", "run"}]
  /\ PlanReview \in BOOLEAN
  /\ GoalRuns \subseteq Runs /\ Proposing \subseteq Attempts
  /\ Verdicts \subseteq {"pass", "fail"}

VARIABLES
  task,      \* state and active_plan_revision of the task's row
  plans,     \* the plan revisions written so far
  verdict,   \* verdict[p]: the latest review of plan p
  step,      \* step[s]: state and revision of a row of task_steps
  passed,    \* <<s, n>>: a validation of step s at its revision n passed
  doubted,   \* <<s, n>>: the latest validation of step s at revision n did not pass
  run,       \* run[r]: a row of task_runs
  attempt,   \* attempt[a]: a row of task_step_attempts
  effect,    \* effect[e]: a row of task_effect_intents
  proposal,  \* proposal[a]: state of attempt a's code proposal
  reviewed,  \* the attempts whose proposal a provider's post-test review approved
  confirmed, \* the attempts with a row in task_step_failures
  acting,    \* effects whose caller got its dispatch and has not acted yet
  performed, \* performed[e]: times the external action of e was carried out (history)
  boot,      \* 0 when the process serves, else the next statement of RecoverInterrupted
  restarts

planning == <<task, plans, verdict>>
evidence == <<passed, doubted>>
work == <<step, evidence>>
reviews == <<proposal, reviewed, confirmed>>
outside == <<acting, performed>>
process == <<boot, restarts>>
vars == <<planning, work, run, attempt, effect, reviews, outside, process>>

TaskStates == {"draft", "ready", "running", "waiting_for_input", "paused", "verifying", "completed"}
StepStates == {"pending", "running", "completed", "blocked", "failed"}
RunStates == {"none", "running", "paused", "failed"}
AttemptStates == {"none", "running", "completed", "failed", "interrupted"}
EffectStates == {"none", "planned", "dispatched", "observed", "uncertain", "reconciled", "abandoned"}
OpenStates == {"planned", "dispatched", "uncertain"}
ClosedProposals == {"verified", "rejected", "post_review_rejected", "apply_failed",
                    "verification_failed"}
\* The transitions DecideCodeProposal, BeginCodeProposalApply, TransitionCodeProposal
\* and BindCodeProposalVerification make, each an UPDATE that names the state it leaves.
ProposalMoves ==
  {<<"pending_review", "approved">>, <<"pending_review", "rejected">>,
   <<"approved", "applying">>, <<"applying", "applied">>, <<"applying", "apply_failed">>,
   <<"applied", "awaiting_post_review">>, <<"applied", "verification_failed">>,
   <<"awaiting_post_review", "verified">>, <<"awaiting_post_review", "post_review_rejected">>}
ProposalStates == {"none"} \cup {m[1] : m \in ProposalMoves} \cup {m[2] : m \in ProposalMoves}

TaskRow == [state: TaskStates, plan: 0..MaxPlans]
StepRow == [state: StepStates, rev: Nat]
RunRow == [state: RunStates, plan: 0..MaxPlans, token: Nat, generation: Nat, live: BOOLEAN]
AttemptRow == [state: AttemptStates, run: 0..MaxRuns, step: (0..MaxPlans) \X StepKeys, rev: Nat]
EffectRow == [state: EffectStates, attempt: 0..MaxAttempts, token: Nat, generation: Nat,
              receipt: {"none", "done", "failed", "not_started"}]

Up == boot = 0
RunOf(e) == attempt[effect[e].attempt].run
EffectsOf(r) == {e \in Effects : effect[e].state # "none" /\ RunOf(e) = r}
EffectsOn(a) == {e \in Effects : effect[e].state # "none" /\ effect[e].attempt = a}
AttemptsOf(r) == {a \in Attempts : attempt[a].state # "none" /\ attempt[a].run = r}
AttemptsUnder(p) == {a \in Attempts : attempt[a].state # "none" /\ attempt[a].step[1] = p}
Open(E) == {e \in E : effect[e].state \in OpenStates}
OpenProposals(A) == {a \in A : proposal[a] \notin ClosedProposals \cup {"none"}}
Approved(p) == PlanReview => verdict[p] = "approved"
Startable(s) == /\ step[s].state \in {"pending", "blocked", "failed"}
                /\ \A d \in Dependencies[s[2]] : step[<<s[1], d>>].state = "completed"
SetTask(state) == task' = [task EXCEPT !.state = state]
SetStep(s, state) == /\ step[s].rev < MaxRevision
                     /\ step' = [step EXCEPT ![s] = [state |-> state, rev |-> @.rev + 1]]

---------------------------------------------------------------------------
(* Plans, steps and completion (service.go, plan_review.go, completion.go) *)

CreatePlan ==
  /\ Up /\ task.state # "completed" /\ plans < MaxPlans
  /\ plans' = plans + 1
  /\ task' = [state |-> IF PlanReview THEN "waiting_for_input" ELSE "ready", plan |-> plans + 1]
  /\ UNCHANGED <<verdict, work, run, attempt, effect, reviews, outside, process>>

ReviewPlan(v) ==
  /\ Up /\ PlanReview /\ task.state = "waiting_for_input"
  /\ task.plan # 0 /\ verdict[task.plan] = "pending"
  /\ verdict' = [verdict EXCEPT ![task.plan] = v]
  /\ SetTask(IF v = "approved" THEN "ready" ELSE "draft")
  /\ UNCHANGED <<plans, work, run, attempt, effect, reviews, outside, process>>

ReviseRequirements ==
  /\ Up /\ task.state # "completed"
  /\ \A r \in Runs : run[r].state # "running"
  /\ Open(Effects) = {} /\ OpenProposals(Attempts) = {}
  /\ task' = [state |-> "draft", plan |-> 0]
  /\ UNCHANGED <<plans, verdict, work, run, attempt, effect, reviews, outside, process>>

StartStep(k) ==
  /\ Up /\ task.plan # 0 /\ Approved(task.plan) /\ Startable(<<task.plan, k>>)
  /\ SetStep(<<task.plan, k>>, "running") /\ SetTask("running")
  /\ UNCHANGED <<plans, verdict, evidence, run, attempt, effect, reviews, outside, process>>

\* Mutant: any validation of the step will do, whatever revision it is about.
CompleteStepOnOldEvidence(k) ==
  LET s == <<task.plan, k>>
  IN  /\ Up /\ task.plan # 0 /\ step[s].state = "running"
      /\ \E n \in 1..step[s].rev : <<s, n>> \in passed
      /\ SetStep(s, "completed")
      /\ SetTask(IF \A j \in StepKeys \ {k} : step[<<task.plan, j>>].state = "completed"
                   THEN "verifying" ELSE "running")
      /\ UNCHANGED <<plans, verdict, evidence, run, attempt, effect, reviews, outside, process>>

\* A passing validation of the step at its current revision is enough here,
\* even when a later one failed.
CompleteStep(k) ==
  LET s == <<task.plan, k>>
  IN  /\ Up /\ task.plan # 0 /\ step[s].state = "running"
      /\ <<s, step[s].rev>> \in passed
      /\ SetStep(s, "completed")
      /\ SetTask(IF \A j \in StepKeys \ {k} : step[<<task.plan, j>>].state = "completed"
                   THEN "verifying" ELSE "running")
      /\ UNCHANGED <<plans, verdict, evidence, run, attempt, effect, reviews, outside, process>>

FailStep(k) ==
  /\ Up /\ task.plan # 0
  /\ SetStep(<<task.plan, k>>, "failed") /\ SetTask("paused")
  /\ UNCHANGED <<plans, verdict, evidence, run, attempt, effect, reviews, outside, process>>

\* A plain insert.  A check runs for a while, so its verdict may be about the
\* revision before the current one.
RecordValidation(k, n, status) ==
  LET s == <<task.plan, k>>
  IN  /\ Up /\ task.plan # 0 /\ n \in {step[s].rev - 1, step[s].rev} \ {0}
      /\ IF status = "pass" THEN passed' = passed \cup {<<s, n>>} /\ doubted' = doubted \ {<<s, n>>}
                            ELSE passed' = passed /\ doubted' = doubted \cup {<<s, n>>}
      /\ UNCHANGED <<planning, step, run, attempt, effect, reviews, outside, process>>

\* The latest validation of a completed step passed, at the revision it completed.
Proven(s) == /\ step[s].state = "completed"
             /\ <<s, step[s].rev - 1>> \in passed \ doubted

\* Mutant: the gate on pending or uncertain actions only looks for uncertain ones.
CompleteTaskInFlight ==
  /\ Up /\ task.state = "verifying" /\ task.plan # 0 /\ Approved(task.plan)
  /\ \A e \in Effects : effect[e].state # "uncertain"
  /\ OpenProposals(AttemptsUnder(task.plan)) = {}
  /\ \A k \in StepKeys : Proven(<<task.plan, k>>)
  /\ SetTask("completed")
  /\ UNCHANGED <<plans, verdict, work, run, attempt, effect, reviews, outside, process>>

\* The gates of completionReport over this state.  The others (criteria, user
\* acceptance, content delivery, desktop and browser actions) can only refuse,
\* as a caller may always be.  A verified proposal has been approved once.
CompleteTask ==
  /\ Up /\ task.state = "verifying" /\ task.plan # 0 /\ Approved(task.plan)
  /\ Open(Effects) = {} /\ OpenProposals(AttemptsUnder(task.plan)) = {}
  /\ \A k \in StepKeys : Proven(<<task.plan, k>>)
  /\ SetTask("completed")
  /\ UNCHANGED <<plans, verdict, work, run, attempt, effect, reviews, outside, process>>

---------------------------------------------------------------------------
(* Runs and their leases (execution.go, pause.go)                          *)

\* Mutant: only StartStep asks whether the plan was approved.
BeginRunUnreviewed(r) ==
  /\ Up /\ task.state \in {"ready", "paused"} /\ task.plan # 0
  /\ run[r].state = "none" /\ \A q \in Runs : q < r => run[q].state # "none"
  /\ \A q \in Runs : run[q].state # "running"
  /\ \A e \in Effects : effect[e].state # "uncertain"
  /\ run' = [run EXCEPT ![r] = [state |-> "running", plan |-> task.plan, token |-> 1,
                                generation |-> 1, live |-> TRUE]]
  /\ SetTask("running")
  /\ UNCHANGED <<plans, verdict, work, attempt, effect, reviews, outside, process>>

\* Runs, attempts and effects are numbered in creation order.  The unique index
\* idx_task_one_live_run refuses a second running run.
BeginRun(r) ==
  /\ Up /\ task.state \in {"ready", "paused"} /\ task.plan # 0 /\ Approved(task.plan)
  /\ run[r].state = "none" /\ \A q \in Runs : q < r => run[q].state # "none"
  /\ \A q \in Runs : run[q].state # "running"
  /\ \A e \in Effects : effect[e].state # "uncertain"
  /\ run' = [run EXCEPT ![r] = [state |-> "running", plan |-> task.plan, token |-> 1,
                                generation |-> 1, live |-> TRUE]]
  /\ SetTask("running")
  /\ UNCHANGED <<plans, verdict, work, attempt, effect, reviews, outside, process>>

\* lease_expires_at passes.  RenewRunLease is what keeps it from happening: it
\* moves the expiry of a live run and nothing else, so it is no step here.
Expire(r) ==
  /\ run[r].state = "running" /\ run[r].live
  /\ run' = [run EXCEPT ![r].live = FALSE]
  /\ UNCHANGED <<planning, work, attempt, effect, reviews, outside, process>>

\* A new token comes with a new generation, so the token is named by the
\* generation it was issued for.
Renewed(r) == [run[r] EXCEPT !.state = "running", !.token = run[r].generation + 1,
                             !.generation = @ + 1, !.live = TRUE]

\* Mutant: a state that no other operation knows.
ForsakenAsLost(e) == [effect[e] EXCEPT !.state = CASE @ = "planned" -> "abandoned"
                                                   [] @ = "dispatched" -> "lost"
                                                   [] OTHER -> @]

\* An effect whose owner is gone: it was not executed, or nobody knows.
Forsaken(e) == [effect[e] EXCEPT !.state = CASE @ = "planned" -> "abandoned"
                                             [] @ = "dispatched" -> "uncertain"
                                             [] OTHER -> @]
Running(A) == {a \in A : attempt[a].state = "running"}
BlockSteps(A) ==
  step' = [s \in Steps |-> IF \E a \in A : attempt[a].step = s
                             THEN [state |-> "blocked", rev |-> step[s].rev + 1] ELSE step[s]]
Interrupt(A) ==
  attempt' = [a \in Attempts |-> IF a \in A THEN [attempt[a] EXCEPT !.state = "interrupted"]
                                            ELSE attempt[a]]

\* Nothing in flight: the attempt continues under new authority.  Otherwise
\* the effect becomes uncertain and the run stops.
RecoverExpiredRun(r) ==
  /\ Up /\ task.state \in {"running", "verifying"}
  /\ run[r].state = "running" /\ run[r].plan = task.plan /\ ~run[r].live
  /\ effect' = [e \in Effects |-> IF e \in EffectsOf(r) THEN Forsaken(e) ELSE effect[e]]
  /\ \/ /\ \A e \in EffectsOf(r) : effect[e].state # "dispatched"
        /\ run[r].generation < MaxGeneration
        /\ run' = [run EXCEPT ![r] = Renewed(r)]
        /\ UNCHANGED <<task, step, attempt>>
     \/ /\ \E e \in EffectsOf(r) : effect[e].state = "dispatched"
        /\ run' = [run EXCEPT ![r].state = "paused"]
        /\ SetTask("paused")
        /\ BlockSteps(Running(AttemptsOf(r))) /\ Interrupt(Running(AttemptsOf(r)))
  /\ UNCHANGED <<plans, verdict, evidence, reviews, outside, process>>

\* Mutant: authority is a run that is running, whoever asks.
AnyoneHolds(r, tok) == run[r].state = "running" /\ run[r].live

\* The lease checks of every operation that consumes authority.
Holds(r, tok) == run[r].state = "running" /\ run[r].token = tok /\ run[r].live

\* The authority of an attempt: its run is held, the task runs the run's plan
\* and the step is still at the revision the attempt began.
Authorised(a, tok) ==
  /\ attempt[a].state = "running" /\ Holds(attempt[a].run, tok)
  /\ task.state = "running" /\ task.plan = run[attempt[a].run].plan
  /\ attempt[a].step[1] = run[attempt[a].run].plan
  /\ attempt[a].rev = step[attempt[a].step].rev

PauseIdleRun(r, tok) ==
  /\ Up /\ task.state = "running" /\ Holds(r, tok) /\ run[r].plan = task.plan
  /\ Running(AttemptsOf(r)) = {} /\ Open(EffectsOf(r)) = {} /\ OpenProposals(AttemptsOf(r)) = {}
  /\ run[r].generation < MaxGeneration
  /\ run' = [run EXCEPT ![r].state = "paused", ![r].generation = @ + 1, ![r].live = FALSE]
  /\ SetTask("paused")
  /\ UNCHANGED <<plans, verdict, work, attempt, effect, reviews, outside, process>>

\* InterruptGoalExecution, for a goal that is no longer active.  The task is read
\* before the transaction: one that did not run then is left as it is.
InterruptGoalExecution(r) ==
  /\ Up /\ r \in GoalRuns /\ run[r].state = "running"
  /\ run[r].generation < MaxGeneration
  /\ effect' = [e \in Effects |-> IF e \in EffectsOf(r) THEN Forsaken(e) ELSE effect[e]]
  /\ BlockSteps(Running(AttemptsOf(r))) /\ Interrupt(Running(AttemptsOf(r)))
  /\ run' = [run EXCEPT ![r].state = "paused", ![r].generation = @ + 1, ![r].live = FALSE]
  /\ (task.state = "running" /\ SetTask("paused")) \/ UNCHANGED task
  /\ UNCHANGED <<plans, verdict, evidence, reviews, outside, process>>

---------------------------------------------------------------------------
(* Step attempts and their effects (execution.go)                          *)

\* Mutant: the step keeps its revision.
BeginStepAttemptAgain(a, r, tok, k) ==
  LET s == <<run[r].plan, k>>
  IN  /\ Up /\ Holds(r, tok) /\ task.plan = run[r].plan
      /\ attempt[a].state = "none" /\ step[s].state # "completed"
      /\ attempt' = [attempt EXCEPT ![a] = [state |-> "running", run |-> r, step |-> s,
                                            rev |-> step[s].rev]]
      /\ step' = [step EXCEPT ![s].state = "running"] /\ SetTask("running")
      /\ UNCHANGED <<plans, verdict, evidence, run, effect, reviews, outside, process>>

BeginStepAttempt(a, r, tok, k) ==
  LET s == <<run[r].plan, k>>
  IN  /\ Up /\ Holds(r, tok) /\ task.plan = run[r].plan
      /\ attempt[a].state = "none" /\ (\A b \in Attempts : b < a => attempt[b].state # "none")
      /\ Startable(s)
      /\ attempt' = [attempt EXCEPT ![a] = [state |-> "running", run |-> r, step |-> s,
                                            rev |-> step[s].rev + 1]]
      /\ SetStep(s, "running") /\ SetTask("running")
      /\ UNCHANGED <<plans, verdict, evidence, run, effect, reviews, outside, process>>

PlanEffect(e, a, tok) ==
  /\ Up /\ Authorised(a, tok)
  /\ effect[e].state = "none" /\ \A f \in Effects : f < e => effect[f].state # "none"
  /\ effect' = [effect EXCEPT ![e] = [state |-> "planned", attempt |-> a, token |-> tok,
                                      generation |-> run[attempt[a].run].generation,
                                      receipt |-> "none"]]
  /\ UNCHANGED <<planning, work, run, attempt, reviews, outside, process>>

\* Mutant: an operation that was abandoned may still be dispatched.
DispatchEffectLate(e, tok) ==
  /\ Up /\ effect[e].state \in {"planned", "abandoned"}
  /\ Authorised(effect[e].attempt, tok)
  /\ effect' = [effect EXCEPT ![e].state = "dispatched", ![e].token = tok]
  /\ acting' = acting \cup {e}
  /\ UNCHANGED <<planning, work, run, attempt, reviews, performed, process>>

\* The caller whose update goes through is about to act.
DispatchEffect(e, tok) ==
  /\ Up /\ effect[e].state = "planned"
  /\ Authorised(effect[e].attempt, tok) /\ effect[e].generation = run[RunOf(e)].generation
  /\ effect' = [effect EXCEPT ![e].state = "dispatched", ![e].token = tok]
  /\ acting' = acting \cup {e}
  /\ UNCHANGED <<planning, work, run, attempt, reviews, performed, process>>

\* The files are written, the command job is created or the provider is asked,
\* or the caller finds it cannot.  Nothing is read again before that.
Act(e) ==
  /\ Up /\ e \in acting
  /\ acting' = acting \ {e}
  /\ \E n \in 0..1 : performed' = [performed EXCEPT ![e] = @ + n]
  /\ UNCHANGED <<planning, work, run, attempt, effect, reviews, process>>

AbandonEffect(e) ==
  /\ Up /\ effect[e].state = "planned"
  /\ effect' = [effect EXCEPT ![e].state = "abandoned"]
  /\ UNCHANGED <<planning, work, run, attempt, reviews, outside, process>>

\* The caller that acted records a receipt.  A receipt needs no live lease.
ObserveEffect(e) ==
  /\ Up /\ effect[e].state = "dispatched" /\ e \notin acting
  /\ \E status \in {"done", "failed"} :
       /\ status = "done" => performed[e] > 0
       /\ effect' = [effect EXCEPT ![e].state = "observed", ![e].receipt = status]
  /\ UNCHANGED <<planning, work, run, attempt, reviews, outside, process>>

\* Reconciliation looks for what the effect left behind: ReconcileWorkspaceRun
\* for its job, ReconcileProviderArtifact for its artifact.  For the other
\* effects a person decides.
ReconcileEffect(e) ==
  /\ Up /\ effect[e].state = "uncertain"
  /\ \E outcome \in {"done", "failed", "not_started"} :
       /\ outcome = "done" => performed[e] > 0
       /\ outcome = "not_started" <=> KindOf[e] = "run" /\ performed[e] = 0
       /\ effect' = [effect EXCEPT ![e].state = "reconciled", ![e].receipt = outcome]
  /\ UNCHANGED <<planning, work, run, attempt, reviews, outside, process>>

CompleteAttempt(a, tok) ==
  /\ Up /\ Authorised(a, tok) /\ Open(EffectsOn(a)) = {}
  /\ attempt' = [attempt EXCEPT ![a].state = "completed"]
  /\ UNCHANGED <<planning, work, run, effect, reviews, outside, process>>

\* No authority, and no look at the attempt's effects.
FailAttempt(a) ==
  /\ Up /\ attempt[a].state = "running"
  /\ attempt' = [attempt EXCEPT ![a].state = "failed"]
  /\ run' = [run EXCEPT ![attempt[a].run].state = IF @ = "running" THEN "failed" ELSE @]
  /\ UNCHANGED <<planning, work, effect, reviews, outside, process>>

\* RecordConfirmedFailure: a transport or configuration failure, or the second
\* failure of one kind, pauses the task.
RecordConfirmedFailure(a) ==
  /\ Up /\ attempt[a].state = "failed" /\ a \notin confirmed
  /\ \A e \in EffectsOn(a) : effect[e].state \notin {"dispatched", "uncertain"}
  /\ confirmed' = confirmed \cup {a}
  /\ SetTask("paused") \/ UNCHANGED task
  /\ UNCHANGED <<plans, verdict, work, run, attempt, effect, proposal, reviewed, outside, process>>

---------------------------------------------------------------------------
(* Code proposals and the attempts they let continue or end                *)

RecordCodeProposal(a) ==
  /\ Up /\ a \in Proposing /\ attempt[a].state = "running" /\ proposal[a] = "none"
  /\ proposal' = [proposal EXCEPT ![a] = "pending_review"]
  /\ UNCHANGED <<planning, work, run, attempt, effect, reviewed, confirmed, outside, process>>

MoveProposal(a) ==
  /\ Up
  /\ \E m \in ProposalMoves : proposal[a] = m[1] /\ proposal' = [proposal EXCEPT ![a] = m[2]]
  /\ UNCHANGED <<planning, work, run, attempt, effect, reviewed, confirmed, outside, process>>

\* RecordPostCodeReview by a provider.  A rejection only adds a row.
ApprovePostReview(a) ==
  /\ Up /\ proposal[a] = "awaiting_post_review"
  /\ reviewed' = reviewed \cup {a}
  /\ UNCHANGED <<planning, work, run, attempt, effect, proposal, confirmed, outside, process>>

\* The attempts, in a paused run of the current plan, whose applied and tested
\* proposal waits for its review; both queries take the latest such run.
Waiting(attemptState, stepState) ==
  {a \in Attempts : /\ attempt[a].state = attemptState /\ step[attempt[a].step].state = stepState
                    /\ run[attempt[a].run].state = "paused" /\ run[attempt[a].run].plan = task.plan
                    /\ proposal[a] = "awaiting_post_review"}
OfLatestRun(a, A) == a \in A /\ \A b \in A : attempt[b].run <= attempt[a].run

\* Mutant: the review resumes without looking at the run's effects.
ResumeObservedReviewBlindly(a) ==
  LET r == attempt[a].run
      s == attempt[a].step
  IN  /\ Up /\ task.state = "paused" /\ OfLatestRun(a, Waiting("interrupted", "blocked"))
      /\ {b \in AttemptsOf(r) : attempt[b].state = "interrupted"} = {a}
      /\ run[r].generation < MaxGeneration
      /\ run' = [run EXCEPT ![r] = Renewed(r)]
      /\ SetStep(s, "running")
      /\ attempt' = [attempt EXCEPT ![a].state = "running", ![a].rev = step[s].rev + 1]
      /\ SetTask("running")
      /\ UNCHANGED <<plans, verdict, evidence, effect, reviews, outside, process>>

ResumeObservedReview(a) ==
  LET r == attempt[a].run
      s == attempt[a].step
  IN  /\ Up /\ task.state = "paused" /\ OfLatestRun(a, Waiting("interrupted", "blocked"))
      /\ Open(EffectsOf(r)) = {}
      /\ {b \in AttemptsOf(r) : attempt[b].state = "interrupted"} = {a}
      /\ \A q \in Runs : run[q].state # "running"
      /\ run[r].generation < MaxGeneration
      /\ run' = [run EXCEPT ![r] = Renewed(r)]
      /\ SetStep(s, "running")
      /\ attempt' = [attempt EXCEPT ![a].state = "running", ![a].rev = step[s].rev + 1]
      /\ SetTask("running")
      /\ UNCHANGED <<plans, verdict, evidence, effect, reviews, outside, process>>

ResumeApprovedReview(a) ==
  LET r == attempt[a].run
  IN  /\ Up /\ task.state = "paused"
      /\ OfLatestRun(a, Waiting("completed", "running") \cap reviewed)
      /\ Open(EffectsOf(r)) = {}
      /\ \A q \in Runs : run[q].state # "running"
      /\ run[r].generation < MaxGeneration
      /\ run' = [run EXCEPT ![r] = Renewed(r)]
      /\ SetTask("running")
      /\ UNCHANGED <<plans, verdict, work, attempt, effect, reviews, outside, process>>

\* What both Retry operations do to the attempt, its run, its step and the task.
CloseAttempt(a) ==
  LET r == attempt[a].run
      s == attempt[a].step
  IN  /\ Up /\ task.state \in {"running", "paused"}
      /\ run[r].state \in {"running", "paused"} /\ step[s].state \in {"running", "blocked"}
      /\ attempt' = [attempt EXCEPT ![a].state = "failed"]
      /\ run' = [run EXCEPT ![r].state = "failed"]
      /\ SetStep(s, "failed") /\ SetTask("paused")
      /\ UNCHANGED <<plans, verdict, evidence, effect, reviews, outside, process>>

Closable(a) == /\ attempt[a].state \in {"running", "interrupted"}
               /\ run[attempt[a].run].state \in {"running", "paused"}

\* The latest observed request for a proposal failed and left none.
RetryFailedProposalAttempt(e) ==
  LET Asked == {f \in Effects : /\ effect[f].state = "observed" /\ KindOf[f] = "propose"
                                /\ Closable(effect[f].attempt)
                                /\ proposal[effect[f].attempt] = "none"}
      a == effect[e].attempt
  IN  /\ e \in Asked /\ (\A f \in Asked : f <= e)
      /\ effect[e].receipt = "failed"
      /\ Open(EffectsOn(a)) = {}
      /\ CloseAttempt(a)

RetryRejectedProposalAttempt(a) ==
  /\ attempt[a].state # "none" /\ Closable(a) /\ proposal[a] = "rejected"
  /\ \A e \in EffectsOn(a) : effect[e].state \notin OpenStates /\ KindOf[e] = "propose"
  /\ CloseAttempt(a)

---------------------------------------------------------------------------
(* The process                                                             *)

\* The process stops, also in the middle of its startup.
Crash ==
  /\ restarts < MaxRestarts
  /\ restarts' = restarts + 1 /\ boot' = 1 /\ acting' = {}
  /\ UNCHANGED <<planning, work, run, attempt, effect, reviews, performed>>

Unfinished ==
  \/ task.plan # 0 /\ \E k \in StepKeys : step[<<task.plan, k>>].state # "completed"
  \/ Open(Effects) # {} \/ OpenProposals(Attempts) # {}

\* Mutant: the second statement forgets what was dispatched.
RecoverForgetful ==
  /\ boot = 2 /\ boot' = 3
  /\ effect' = [e \in Effects |-> IF effect[e].state = "dispatched"
                                    THEN [effect[e] EXCEPT !.state = "abandoned"] ELSE effect[e]]
  /\ UNCHANGED <<planning, work, run, attempt, reviews, outside, restarts>>

\* Mutant: the last statement pauses running tasks and leaves the ones being verified.
PauseRunningTask ==
  /\ boot = 6 /\ boot' = 0
  /\ IF task.state = "running" THEN SetTask("paused") ELSE UNCHANGED task
  /\ UNCHANGED <<plans, verdict, work, run, attempt, effect, reviews, outside, restarts>>

\* RecoverInterrupted, one statement at a time.
MarkPlanned ==
  /\ boot = 1 /\ boot' = 2
  /\ effect' = [e \in Effects |-> IF effect[e].state = "planned" THEN Forsaken(e) ELSE effect[e]]
  /\ UNCHANGED <<planning, work, run, attempt, reviews, outside, restarts>>
MarkDispatched ==
  /\ boot = 2 /\ boot' = 3
  /\ effect' = [e \in Effects |-> IF effect[e].state = "dispatched" THEN Forsaken(e) ELSE effect[e]]
  /\ UNCHANGED <<planning, work, run, attempt, reviews, outside, restarts>>
BlockRunningSteps ==
  /\ boot = 3 /\ boot' = 4
  /\ BlockSteps(Running(Attempts))
  /\ UNCHANGED <<planning, evidence, run, attempt, effect, reviews, outside, restarts>>
InterruptAttempts ==
  /\ boot = 4 /\ boot' = 5
  /\ Interrupt(Running(Attempts))
  /\ UNCHANGED <<planning, work, run, effect, reviews, outside, restarts>>
PauseRuns ==
  /\ boot = 5 /\ boot' = 6
  /\ run' = [r \in Runs |-> IF run[r].state = "running" THEN [run[r] EXCEPT !.state = "paused"]
                                                       ELSE run[r]]
  /\ UNCHANGED <<planning, work, attempt, effect, reviews, outside, restarts>>
PauseTask ==
  /\ boot = 6 /\ boot' = 0
  /\ IF task.state = "running" \/ (task.state = "verifying" /\ Unfinished)
       THEN SetTask("paused") ELSE UNCHANGED task
  /\ UNCHANGED <<plans, verdict, work, run, attempt, effect, reviews, outside, restarts>>

RecoverInterrupted == \/ MarkPlanned \/ MarkDispatched \/ BlockRunningSteps
                      \/ InterruptAttempts \/ PauseRuns \/ PauseTask

---------------------------------------------------------------------------
NoRun == [state |-> "none", plan |-> 0, token |-> 0, generation |-> 0, live |-> FALSE]
NoAttempt == [state |-> "none", run |-> 0, step |-> <<0, CHOOSE k \in StepKeys : TRUE>>, rev |-> 0]
NoEffect == [state |-> "none", attempt |-> 0, token |-> 0, generation |-> 0, receipt |-> "none"]

\* A task as CreateTask leaves it.  A step holds from the start what CreatePlan writes.
Init ==
  /\ task = [state |-> "draft", plan |-> 0] /\ plans = 0
  /\ verdict = [p \in Plans |-> "pending"]
  /\ step = [s \in Steps |-> [state |-> "pending", rev |-> 1]]
  /\ passed = {} /\ doubted = {}
  /\ run = [r \in Runs |-> NoRun]
  /\ attempt = [a \in Attempts |-> NoAttempt]
  /\ effect = [e \in Effects |-> NoEffect]
  /\ proposal = [a \in Attempts |-> "none"] /\ reviewed = {} /\ confirmed = {}
  /\ acting = {} /\ performed = [e \in Effects |-> 0]
  /\ boot = 0 /\ restarts = 0

TaskStep ==
  \/ CreatePlan \/ ReviseRequirements \/ CompleteTask
  \/ \E v \in {"approved", "rejected"} : ReviewPlan(v)
  \/ \E k \in StepKeys :
       \/ StartStep(k) \/ CompleteStep(k) \/ FailStep(k)
       \/ \E n \in 1..MaxRevision, status \in Verdicts : RecordValidation(k, n, status)

RunStep ==
  \E r \in Runs : \/ BeginRun(r) \/ Expire(r) \/ RecoverExpiredRun(r)
                  \/ InterruptGoalExecution(r)
                  \/ \E tok \in Tokens : PauseIdleRun(r, tok)

AttemptStep ==
  \E a \in Attempts :
    \/ \E r \in Runs, tok \in Tokens, k \in StepKeys : BeginStepAttempt(a, r, tok, k)
    \/ \E tok \in Tokens : CompleteAttempt(a, tok)
    \/ FailAttempt(a) \/ RecordConfirmedFailure(a)
    \/ RecordCodeProposal(a) \/ MoveProposal(a) \/ ApprovePostReview(a)
    \/ ResumeObservedReview(a) \/ ResumeApprovedReview(a) \/ RetryRejectedProposalAttempt(a)

EffectStep ==
  \E e \in Effects :
    \/ \E a \in Attempts, tok \in Tokens : PlanEffect(e, a, tok)
    \/ \E tok \in Tokens : DispatchEffect(e, tok)
    \/ Act(e) \/ AbandonEffect(e) \/ ObserveEffect(e) \/ ReconcileEffect(e)
    \/ RetryFailedProposalAttempt(e)

Next == TaskStep \/ RunStep \/ AttemptStep \/ EffectStep \/ Crash \/ RecoverInterrupted

Spec == Init /\ [][Next]_vars
---------------------------------------------------------------------------
(* Properties                                                              *)

\* Type invariant: every row holds a value of its table's columns.
TypeOK ==
  /\ task \in TaskRow /\ plans \in 0..MaxPlans
  /\ verdict \in [Plans -> {"pending", "approved", "rejected"}]
  /\ step \in [Steps -> StepRow]
  /\ passed \subseteq Steps \X Nat /\ doubted \subseteq Steps \X Nat
  /\ run \in [Runs -> RunRow]
  /\ attempt \in [Attempts -> AttemptRow]
  /\ effect \in [Effects -> EffectRow]
  /\ proposal \in [Attempts -> ProposalStates]
  /\ reviewed \subseteq Attempts /\ confirmed \subseteq Attempts
  /\ acting \subseteq Effects /\ performed \in [Effects -> Nat]
  /\ boot \in 0..6 /\ restarts \in Nat

\* An action that was carried out, or is about to be by a caller still at work,
\* is never on record as one that was not executed: through takeovers, failed
\* attempts, crashes and startups cut short.
NothingDenied ==
  \A e \in Effects : (performed[e] > 0 \/ e \in acting)
                       => effect[e].state \notin {"none", "planned", "abandoned"}

\* An action in flight was dispatched with the token its run still has: a run
\* never passes to a new owner, nor to a new generation, around it.
InFlightBelongsToOwner ==
  \A e \in Effects : effect[e].state \in {"planned", "dispatched"} =>
    /\ effect[e].token = run[RunOf(e)].token
    /\ effect[e].generation = run[RunOf(e)].generation

\* While an effect of a run is in doubt nobody holds a live lease on that run:
\* no recovery and no resumption hands it out before reconciliation.
DoubtStopsTheRun ==
  Up => \A e \in Effects : effect[e].state = "uncertain" => run[RunOf(e)].state # "running"

\* No two attempts may act on one step, whatever failed, expired or resumed.
OneActorPerStep ==
  \A a, b \in Attempts : \A t, u \in Tokens :
    Authorised(a, t) /\ Authorised(b, u) /\ attempt[a].step = attempt[b].step => a = b /\ t = u

\* A completed task has no action pending, in flight or in doubt, and gets none.
CompletedSettled == task.state = "completed" => Open(Effects) = {}

\* Each completed step rests on a validation that passed at the very revision it
\* was completed from, not on one from before the step was blocked or failed.
CompletedOnEvidence ==
  \A s \in Steps : step[s].state = "completed" => <<s, step[s].rev - 1>> \in passed

\* A task that waits for its acceptance has every step of its plan completed: an
\* attempt still running when the process stopped or the lease expired takes it back.
\* Only the interruption of a goal blocks a step and leaves the task verifying.
OfGoal(s) == \E a \in Attempts : /\ attempt[a].state # "none" /\ attempt[a].step = s
                                 /\ attempt[a].run \in GoalRuns
VerifyingIsFinished ==
  Up /\ task.state = "verifying"
    => \A k \in StepKeys : \/ step[<<task.plan, k>>].state = "completed"
                          \/ OfGoal(<<task.plan, k>>)

\* Where plans are reviewed, no run starts and no step is worked on under a plan
\* that is not approved, whichever operation moved the task meanwhile.
ReviewedBeforeWork ==
  /\ \A r \in Runs : run[r].state # "none" => Approved(run[r].plan)
  /\ \A s \in Steps : step[s].state \in {"running", "blocked", "completed"} => Approved(s[1])

\* The life of every effect follows EffectLedger.
Ledger == INSTANCE EffectLedger WITH Operations <- Effects,
                                     fate <- [e \in Effects |-> effect[e].state]
FollowsLedger == Ledger!Spec
---------------------------------------------------------------------------
(* What the code does not keep                                             *)

\* After an interruption the task goes on only once its uncertain effects are
\* reconciled: nobody holds a live lease on it before that.
ReconciledBeforeContinuing ==
  Up /\ (\E r \in Runs : run[r].state = "running")
    => \A e \in Effects : effect[e].state # "uncertain"

\* An effect reconciled as not started is not carried out.
NotStartedIsTrue ==
  \A e \in Effects : effect[e].receipt = "not_started" => performed[e] = 0
=============================================================================
