----------------------------- MODULE GoalRunner -----------------------------
(***************************************************************************)
(* A coding goal: the row that authorises it, the workers of ServeGoals    *)
(* that advance it one charged action at a time, the owner's Stop and      *)
(* Resume, and the managed command of a frozen check, which outlives the   *)
(* action that started it.                                                 *)
(*                                                                         *)
(* AdvanceGoal holds no lock: it reads, decides, claims by compare-and-    *)
(* set, acts, and finishes in a second read and a transaction.  Each of    *)
(* these is an action here.  The task is one step of one plan with one     *)
(* check; what the actions do to it is ProposalFlow's and TaskEngine's     *)
(* subject, so that an action other than a check is one step of this model.*)
(***************************************************************************)
EXTENDS Naturals, FiniteSets

CONSTANTS
  Workers, Owner,           \* the workers, and the owner's request
  MaxActions, MaxAttempts,  \* the budgets of the goal's frozen consent
  MaxEvents                 \* bound: events outside the workers, whichever they are

Nobody == "nobody"
Actors == Workers \cup {Owner}

ASSUME GoalRunnerAssumption ==
  /\ Owner \notin Workers /\ Nobody \notin Workers
  /\ MaxActions \in Nat \ {0} /\ MaxAttempts \in Nat \ {0} /\ MaxEvents \in Nat

VARIABLES
  goal,   \* its row: state, claim, budgets used, the task revision it expects
  task,   \* revision, whether the requirements were revised, whether the gates pass
  step,   \* what is left to do of the step, and the state of its attempt
  run,    \* state of the goal's run
  check,  \* row of task_goal_verifications: state, and whether it names operation and job
  effect, \* effect intent of the check
  job,    \* its managed command; "inserted" while no cancel function is registered
  hand,   \* hand[a]: where actor a is and what it has read
  late,   \* the deadline has passed
  events  \* outside changes, restarts, resumes and the like so far

goalVars == <<goal, task, step, run, check, effect, job, hand, late, events>>
work == <<task, step, run>>
command == <<check, effect, job>>
outside == <<late, events>>

NoCheck == [state |-> "none", op |-> FALSE, job |-> FALSE]
IdleHand == [pc |-> "idle", action |-> Nobody, outcome |-> Nobody, seen |-> 0, used |-> 0, cut |-> FALSE]

HandAt(a, pc) == hand[a].pc = pc
Move(a, pc) == hand' = [hand EXCEPT ![a].pc = pc]
Done(a) == hand' = [hand EXCEPT ![a] = IdleHand]
CleanUp(w) == hand' = [hand EXCEPT ![w] = [IdleHand EXCEPT !.pc = "cancel"]]
Event == events < MaxEvents /\ events' = events + 1
Claimed == goal.claim # Nobody
AtRest == goal.state # "active" /\ ~Claimed
Current == task.revision = goal.expected /\ ~task.revised
HasAuthority == run = "running" /\ step.attempt = "running"
OpenEffect == effect \in {"planned", "dispatched", "uncertain"}
CommandLive == job \in {"inserted", "live"}

-----------------------------------------------------------------------------
(* nextGoalAction, and the reads of AdvanceGoal before it.                 *)

\* The effect belongs to the check under way and nothing is in doubt.
ScopeHolds == HasAuthority /\ effect # "uncertain" /\ (OpenEffect => check.op)

NextGoalAction ==
  CASE step.stage = "verify" /\ check.state = "active" -> IF ScopeHolds THEN "verify_collect" ELSE "wait"
    [] step.stage = "verify" /\ check.state # "none" -> "wait"
    [] OpenEffect -> "wait"
    [] step.stage \in {"finish", "done"} -> IF task.passing THEN "finish" ELSE "wait"
    [] step.stage = "review" /\ step.attempt = "interrupted" -> "recover_review"
    [] step.stage = "review" /\ step.attempt = "completed" /\ run # "running" -> "recover_approved_review"
    [] step.stage = "plan" -> "plan"
    [] run # "running" -> "begin_run"
    [] step.attempt = "interrupted" -> "wait"
    [] OTHER -> step.stage

\* A command that runs is looked at again later, at no charge.
Polling == ~late /\ step.stage = "verify" /\ check.state = "active" /\ ScopeHolds /\ check.job
             /\ job \in {"inserted", "live", "ending"}

LookAtGoal(w) ==
  /\ HandAt(w, "idle") /\ goal.state = "active" /\ ~Claimed /\ ~(Current /\ Polling)
  /\ IF Current /\ NextGoalAction # "wait"
       THEN hand' = [hand EXCEPT ![w].pc = "claim", ![w].action = NextGoalAction]
       ELSE Move(w, "wait")
  /\ UNCHANGED <<goal, work, command, outside>>

\* A provider, or the root of the project, is not the one the owner consented to.
ConsentIsVoid(w) ==
  /\ HandAt(w, "idle") /\ goal.state = "active" /\ ~Claimed
  /\ Event /\ Move(w, "wait")
  /\ UNCHANGED <<goal, work, command, late>>

WaitGoal(w) ==
  /\ HandAt(w, "wait")
  /\ IF goal.state = "active" /\ ~Claimed
       THEN goal' = [goal EXCEPT !.state = "waiting"] /\ CleanUp(w)
       ELSE UNCHANGED goal /\ Done(w)
  /\ UNCHANGED <<work, command, outside>>

-----------------------------------------------------------------------------
(* ClaimGoalAction: a read, then a compare-and-set that charges the budget.*)

OutOfBudget(action) == \/ late \/ goal.actions >= MaxActions
                       \/ action = "attempt" /\ goal.attempts >= MaxAttempts

ReadForClaim(w) ==
  /\ HandAt(w, "claim")
  /\ IF goal.state # "active" \/ Claimed \/ ~Current THEN UNCHANGED goal /\ Done(w)
     ELSE IF OutOfBudget(hand[w].action)
       THEN goal' = [goal EXCEPT !.state = "budget_exhausted"] /\ CleanUp(w)
       ELSE /\ UNCHANGED goal
            /\ hand' = [hand EXCEPT ![w].pc = "charge", ![w].seen = task.revision, ![w].used = goal.actions]
  /\ UNCHANGED <<work, command, outside>>

\* Mutant: what was read is taken for granted.
ClaimableByTwo(w) ==
  goal.state = "active" /\ goal.expected = hand[w].seen /\ task.revision = hand[w].seen /\ ~task.revised

Claimable(w) ==
  /\ goal.state = "active" /\ ~Claimed /\ goal.actions = hand[w].used
  /\ goal.expected = hand[w].seen /\ task.revision = hand[w].seen /\ ~task.revised

ClaimGoalAction(w) ==
  /\ HandAt(w, "charge")
  /\ IF Claimable(w)
       THEN /\ goal' = [goal EXCEPT !.claim = w, !.actions = @ + 1,
                                    !.attempts = IF hand[w].action = "attempt" THEN @ + 1 ELSE @]
            /\ hand' = [hand EXCEPT ![w].pc = CASE hand[w].action = "verify" -> "create"
                                                [] hand[w].action = "verify_collect" -> "scope"
                                                [] OTHER -> "act",
                                    ![w].seen = 0, ![w].used = 0]
       ELSE UNCHANGED goal /\ Done(w)
  /\ UNCHANGED <<work, command, outside>>

-----------------------------------------------------------------------------
(* executeGoalAction.  The snapshot it works from was read before the      *)
(* claim: an action another worker has done meanwhile does not fit.        *)

Over(w, outcome) == hand' = [hand EXCEPT ![w].pc = "finish", ![w].outcome = outcome]

ActionFits(action) ==
  CASE action = "begin_run" -> run # "running"
    [] action = "recover_review" -> step = [stage |-> "review", attempt |-> "interrupted"] /\ run # "running"
    [] action = "recover_approved_review" -> step = [stage |-> "review", attempt |-> "completed"] /\ run # "running"
    [] action = "finish" -> step.stage \in {"finish", "done"} /\ task.passing
    [] action = "plan" -> step.stage = "plan"
    [] action = "attempt" -> step.stage = "attempt" /\ run = "running"
    [] action = "review" -> step.stage = "review" /\ run = "running" /\ step.attempt \in {"running", "completed"}
    [] OTHER -> step.stage = action /\ HasAuthority

Set(stage, attempt) == step' = [stage |-> stage, attempt |-> attempt]
NewRevision == task' = [task EXCEPT !.revision = @ + 1]

Plan == Set("attempt", "none") /\ NewRevision /\ UNCHANGED <<run, command>>
BeginRun == run' = "running" /\ NewRevision /\ UNCHANGED <<step, command>>
Attempt == Set("propose", "running") /\ NewRevision /\ UNCHANGED <<run, command>>
Propose == Set("approve", "running") /\ UNCHANGED <<task, run, command>>
Approve == Set("apply", "running") /\ UNCHANGED <<task, run, command>>
Apply == /\ Set("verify", "running") /\ UNCHANGED <<task, run>>
         /\ check' = NoCheck /\ effect' = "none" /\ job' = "none"
\* The task is completed with its last step, unless a person has to accept the result.
ApproveReview(w) ==
  /\ UNCHANGED <<run, command>>
  /\ \/ Set("finish", "completed") /\ NewRevision /\ Over(w, "active")
     \/ /\ Set("done", "completed") /\ Over(w, "completed")
        /\ task' = [task EXCEPT !.revision = @ + 1, !.passing = TRUE]
ResumeReview == /\ Set("review", IF step.attempt = "completed" THEN "completed" ELSE "running")
                /\ run' = "running" /\ NewRevision /\ UNCHANGED command
\* FailAttempt, FailStep and RecordConfirmedFailure, after the rollback if there is one.
FailWork == Set("attempt", "failed") /\ run' = "failed" /\ NewRevision

PerformAction(w) ==
  /\ HandAt(w, "act") /\ ActionFits(hand[w].action)
  /\ \/ /\ CASE hand[w].action = "plan" -> Plan
             [] hand[w].action = "begin_run" -> BeginRun
             [] hand[w].action = "attempt" -> Attempt
             [] hand[w].action = "propose" -> Propose
             [] hand[w].action = "approve" -> Approve
             [] hand[w].action = "apply" -> Apply
             [] hand[w].action \in {"recover_review", "recover_approved_review"} -> ResumeReview
             [] OTHER -> FALSE
        /\ Over(w, "active")
     \/ hand[w].action = "review" /\ ApproveReview(w)
     \/ /\ hand[w].action = "finish" /\ Set("done", step.attempt) /\ UNCHANGED <<task, run, command>>
        /\ Over(w, "completed")
     \/ \* a complete proposal is rejected, or a review rejects and the source is restored
        /\ \/ hand[w].action = "propose"
           \/ hand[w].action = "review" /\ step.attempt = "running"
        /\ FailWork /\ Over(w, "active") /\ UNCHANGED command
     \/ \* Review stops between CompleteAttempt and CompleteStep
        /\ hand[w].action = "review" /\ Set("review", "completed")
        /\ Over(w, "waiting") /\ UNCHANGED <<task, run, command>>
  /\ UNCHANGED <<goal, outside>>

\* Every action may end in an error: it is refused, or cancelled, or the store fails.
ActionFails(w) ==
  /\ hand[w].pc \in {"act", "create", "scope", "plan", "saveop", "dispatch", "launch", "savejob", "collect"}
  /\ Over(w, "waiting")
  /\ \/ UNCHANGED events /\ ~(HandAt(w, "act") /\ ActionFits(hand[w].action))
     \/ Event
  /\ UNCHANGED <<goal, work, command, late>>

-----------------------------------------------------------------------------
(* verify and verify_collect: beginGoalVerification and                    *)
(* advanceGoalVerification.                                                *)

HoldsClaim(w) == goal.claim = w /\ goal.state = "active"

\* SaveGoalVerification: the checkpoint moves only under the claim of an active goal.
SaveCheckpoint(w, row, pc) ==
  /\ IF HoldsClaim(w) THEN check' = row /\ Move(w, pc) ELSE UNCHANGED check /\ Over(w, "waiting")
  /\ UNCHANGED <<goal, work, outside>>

CreateCheckpoint(w) ==
  /\ HandAt(w, "create") /\ step.stage = "verify" /\ check.state = "none"
  /\ SaveCheckpoint(w, [state |-> "active", op |-> FALSE, job |-> FALSE], "scope")
  /\ UNCHANGED <<effect, job>>

ReadCheckpoint(w) ==
  /\ HandAt(w, "scope") /\ step.stage = "verify" /\ check.state = "active" /\ ScopeHolds
  /\ Move(w, CASE ~check.op -> "plan"
               [] check.op /\ ~check.job /\ effect = "planned" -> "dispatch"
               [] check.op /\ ~check.job /\ effect # "planned" -> "savejob"
               [] check.op /\ check.job -> "collect")
  /\ UNCHANGED <<goal, work, command, outside>>

\* Without capacity the action ends here, and the check is still to be done.
PlanCheck(w) ==
  /\ HandAt(w, "plan")
  /\ \/ HasAuthority /\ effect' = "planned" /\ Move(w, "saveop")
     \/ UNCHANGED effect /\ Over(w, "active")
  /\ UNCHANGED <<goal, work, check, job, outside>>

SaveOperation(w) ==
  /\ HandAt(w, "saveop") /\ SaveCheckpoint(w, [check EXCEPT !.op = TRUE], "dispatch")
  /\ UNCHANGED <<effect, job>>

DispatchCheck(w) ==
  /\ HandAt(w, "dispatch") /\ HasAuthority /\ effect = "planned"
  /\ effect' = "dispatched" /\ Move(w, "launch")
  /\ UNCHANGED <<goal, work, check, job, outside>>

\* StartVerificationCommand inserts the job, or finds the capacity taken, or fails.
LaunchCheck(w) ==
  /\ HandAt(w, "launch")
  /\ \/ job' = "inserted" /\ UNCHANGED effect /\ Move(w, "register")
     \/ /\ UNCHANGED job /\ effect = "dispatched" /\ effect' = "observed"
        /\ \/ Move(w, "requeue") \/ Move(w, "rollback")
  /\ UNCHANGED <<goal, work, check, outside>>

RegisterCancel(w) ==
  /\ HandAt(w, "register")
  /\ job' = "live" /\ Move(w, "savejob")
  /\ UNCHANGED <<goal, work, check, effect, outside>>

Requeue(w) ==
  /\ HandAt(w, "requeue") /\ SaveCheckpoint(w, [check EXCEPT !.op = FALSE], "pending")
  /\ UNCHANGED <<effect, job>>

SaveJob(w) ==
  /\ HandAt(w, "savejob") /\ job # "none" /\ SaveCheckpoint(w, [check EXCEPT !.job = TRUE], "collect")
  /\ UNCHANGED <<effect, job>>

\* Its command runs: the worker is released.
EndPending(w) ==
  /\ \/ HandAt(w, "pending")
     \/ HandAt(w, "collect") /\ job \in {"inserted", "live", "ending"}
  /\ Over(w, "active")
  /\ UNCHANGED <<goal, work, command, outside>>

CollectCheck(w) ==
  /\ HandAt(w, "collect") /\ job \in {"completed", "failed"} /\ effect \in {"dispatched", "observed"}
  /\ effect' = "observed" /\ Move(w, IF job = "completed" THEN "pass" ELSE "rollback")
  /\ UNCHANGED <<goal, work, check, job, outside>>

\* finishVerification binds the evidence, then the checkpoint is closed.
FinishCheck(w) ==
  /\ HandAt(w, "pass") /\ step' = [step EXCEPT !.stage = IF @ = "verify" THEN "review" ELSE @]
  /\ Move(w, "closepass")
  /\ UNCHANGED <<goal, task, run, command, outside>>

RollbackCheck(w) ==
  /\ HandAt(w, "rollback") /\ FailWork /\ Move(w, "closefail")
  /\ UNCHANGED <<goal, command, outside>>

CloseCheckpoint(w) ==
  /\ hand[w].pc \in {"closepass", "closefail"}
  /\ SaveCheckpoint(w, [check EXCEPT !.state = IF HandAt(w, "closepass") THEN "completed" ELSE "failed"], "pending")
  /\ UNCHANGED <<effect, job>>

\* The command ends by itself, or because its context is cancelled.
EndCommand ==
  /\ job \in {"live", "ending"}
  /\ job' \in {"completed", "failed"} \cup IF job = "ending" THEN {"canceled"} ELSE {}
  /\ UNCHANGED <<goal, work, check, effect, hand, outside>>

-----------------------------------------------------------------------------
(* FinishGoalAction: a read, then the transaction that decides.            *)

\* CancelJob on an unregistered command only marks its row.
Cancelled == IF job = "live" THEN "ending" ELSE job

ReadForFinish(w) ==
  /\ HandAt(w, "finish") /\ goal.claim = w
  /\ \E cut \in IF late THEN {TRUE} ELSE BOOLEAN :
       /\ job' = IF cut /\ effect = "dispatched" THEN Cancelled ELSE job
       /\ hand' = [hand EXCEPT ![w].pc = "commit", ![w].seen = task.revision, ![w].cut = cut,
                     ![w].outcome = CASE goal.state = "stopping" -> "stopped"
                                      [] late /\ @ # "completed" /\ goal.state # "stopping" -> "budget_exhausted"
                                      [] OTHER -> @]
  /\ UNCHANGED <<goal, work, check, effect, outside>>

\* The task is not the one that was read, or its requirements are not the goal's.
Fenced(w) == goal.state # "stopping" /\ (task.revision # hand[w].seen \/ task.revised)

\* Mutant: a stop that arrives after the read is not looked for.
DecidedEarlier(w) ==
  IF task.revision # hand[w].seen \/ task.revised THEN "waiting" ELSE hand[w].outcome

\* Mutant: completion rests on the gates as they were when the action ended.
DecidedOnOldGates(w) ==
  IF goal.state = "stopping" THEN "stopped" ELSE IF Fenced(w) THEN "waiting" ELSE hand[w].outcome

GoalOutcome(w) ==
  IF goal.state = "stopping" THEN "stopped"
  ELSE IF Fenced(w) \/ (hand[w].outcome = "completed" /\ ~task.passing) THEN "waiting"
  ELSE hand[w].outcome

\* Mutant: a goal that was stopped is taken to be quiet already.
EndsQuietlyWhenStopped(w) ==
  \/ Fenced(w)
  \/ /\ GoalOutcome(w) \in {"active", "waiting", "stopped"} /\ ~hand[w].cut
     /\ ~(GoalOutcome(w) = "waiting" /\ hand[w].action \in {"verify", "verify_collect"})

\* A fenced action returns at once; the others cancel what they may have started.
EndsQuietly(w) ==
  \/ Fenced(w)
  \/ /\ GoalOutcome(w) \in {"active", "waiting", "completed"} /\ ~hand[w].cut
     /\ ~(GoalOutcome(w) = "waiting" /\ hand[w].action \in {"verify", "verify_collect"})

FinishGoalAction(w) ==
  /\ HandAt(w, "commit")
  /\ goal' = [goal EXCEPT !.state = GoalOutcome(w), !.claim = Nobody, !.expected = task.revision]
  /\ IF EndsQuietly(w) THEN Done(w) ELSE CleanUp(w)
  /\ UNCHANGED <<work, command, outside>>

\* cancelGoalCommands, by a worker or by the owner's request.
CancelGoalCommands(a) ==
  /\ HandAt(a, "cancel")
  /\ job' = IF run # "none" /\ effect \in {"dispatched", "uncertain"} THEN Cancelled ELSE job
  /\ IF a = Owner /\ hand[a].outcome # "stopped" THEN Done(a) ELSE Move(a, "interrupt")
  /\ UNCHANGED <<goal, work, check, effect, outside>>

\* InterruptGoalExecution reads the goal and the task, and then pauses the run.
ReadForInterrupt(a) ==
  /\ HandAt(a, "interrupt")
  /\ IF AtRest THEN hand' = [hand EXCEPT ![a].pc = "pause", ![a].seen = task.revision] ELSE Done(a)
  /\ UNCHANGED <<goal, work, command, outside>>

InterruptGoalExecution(a) ==
  /\ HandAt(a, "pause") /\ Done(a)
  /\ LET taskRuns == step.stage \notin {"finish", "done"}
     IN  IF run # "running" \/ (taskRuns /\ task.revision # hand[a].seen) THEN UNCHANGED <<work, effect>>
         ELSE /\ run' = "paused"
              /\ step' = [step EXCEPT !.attempt = IF @ = "running" THEN "interrupted" ELSE @]
              /\ task' = [task EXCEPT !.revision = IF taskRuns THEN @ + 1 ELSE @]
              /\ effect' = CASE effect = "planned" -> "abandoned"
                             [] effect = "dispatched" -> "uncertain"
                             [] OTHER -> effect
  /\ UNCHANGED <<goal, check, job, outside>>

-----------------------------------------------------------------------------
(* The owner, the outside and restarts.                                    *)

StopGoal ==
  /\ HandAt(Owner, "idle")
  /\ goal.state \in {"active", "waiting", "stopping"} \/ hand[Owner].cut
  /\ LET state == IF goal.state \in {"active", "waiting", "stopping"}
                    THEN IF Claimed THEN "stopping" ELSE "stopped"
                    ELSE goal.state
     IN  /\ goal' = [goal EXCEPT !.state = state]
         /\ hand' = [hand EXCEPT ![Owner] = [IdleHand EXCEPT !.pc = "cancel", !.outcome = state]]
  /\ UNCHANGED <<work, command, outside>>

\* The request of the stop is cut off and what is left of it is not done.
StopIsCutOff ==
  /\ Event
  /\ hand[Owner].pc \in {"cancel", "interrupt", "pause"}
  /\ hand' = [hand EXCEPT ![Owner] = [IdleHand EXCEPT !.cut = TRUE]]
  /\ UNCHANGED <<goal, work, command, late>>

ResumeGoal ==
  /\ Event
  /\ goal.state = "waiting" /\ ~Claimed /\ ~task.revised /\ ~late /\ goal.actions < MaxActions
  /\ goal' = [goal EXCEPT !.state = "active", !.expected = task.revision]
  /\ UNCHANGED <<work, command, hand, late>>

\* Somebody changes the task, revises its requirements, accepts the result, or
\* appends a validation that fails; the last two leave the revision alone.
OutsideChange ==
  /\ Event
  /\ \/ \E revised \in {task.revised, TRUE} :
          task' = [task EXCEPT !.revision = @ + 1, !.revised = revised]
     \/ task.passing /\ task' = [task EXCEPT !.passing = FALSE]
     \/ step.stage = "finish" /\ ~task.passing /\ task' = [task EXCEPT !.passing = TRUE]
  /\ UNCHANGED <<goal, step, run, command, hand, late>>

\* ReconcileWorkspaceRun: the command has ended, or was never started.
ReconcileCheck ==
  /\ effect = "uncertain" /\ job \notin {"inserted", "live", "ending"} /\ effect' = "reconciled"
  /\ UNCHANGED <<goal, work, check, job, hand, outside>>

DeadlinePasses == Event /\ ~late /\ late' = TRUE /\ UNCHANGED <<goal, work, command, hand>>

\* A restart: RecoverInterruptedJobs, RecoverInterrupted and RecoverGoals, before
\* the workers start.  A command is taken to end with the process.
RestartGoals ==
  /\ Event
  /\ goal' = IF Claimed \/ (goal.state = "active" /\ check.state = "active")
               THEN [goal EXCEPT !.claim = Nobody, !.state = IF @ = "stopping" THEN "stopped" ELSE "waiting"]
               ELSE goal
  /\ check' = [check EXCEPT !.state = IF @ = "active" THEN "interrupted" ELSE @]
  /\ job' = IF job \in {"inserted", "live", "ending"} THEN "interrupted" ELSE job
  /\ effect' = CASE effect = "planned" -> "abandoned" [] effect = "dispatched" -> "uncertain" [] OTHER -> effect
  /\ run' = IF run = "running" THEN "paused" ELSE run
  /\ step' = [step EXCEPT !.attempt = IF @ = "running" THEN "interrupted" ELSE @]
  /\ task' = [task EXCEPT !.revision = IF run = "running" /\ step.stage \notin {"finish", "done"} THEN @ + 1 ELSE @]
  /\ hand' = [a \in Actors |-> IdleHand]
  /\ UNCHANGED late

-----------------------------------------------------------------------------
\* A goal is created on a task that has a plan or not, and no open run.
GoalInit ==
  /\ goal = [state |-> "active", claim |-> Nobody, actions |-> 0, attempts |-> 0, expected |-> 0]
  /\ task = [revision |-> 0, revised |-> FALSE, passing |-> FALSE]
  /\ step \in {[stage |-> stage, attempt |-> "none"] : stage \in {"plan", "attempt"}}
  /\ run = "none" /\ check = NoCheck /\ effect = "none" /\ job = "none"
  /\ hand = [a \in Actors |-> IdleHand]
  /\ late = FALSE /\ events = 0

AdvanceGoal(w) == LookAtGoal(w) \/ ConsentIsVoid(w) \/ WaitGoal(w) \/ ReadForClaim(w) \/ ClaimGoalAction(w)
                  \/ PerformAction(w) \/ ActionFails(w) \/ ReadForFinish(w) \/ FinishGoalAction(w)

AdvanceGoalVerification(w) ==
  \/ CreateCheckpoint(w) \/ ReadCheckpoint(w) \/ PlanCheck(w) \/ SaveOperation(w) \/ DispatchCheck(w)
  \/ LaunchCheck(w) \/ RegisterCancel(w) \/ Requeue(w) \/ SaveJob(w) \/ EndPending(w)
  \/ CollectCheck(w) \/ FinishCheck(w) \/ RollbackCheck(w) \/ CloseCheckpoint(w)

GoalNext ==
  \/ \E w \in Workers : AdvanceGoal(w) \/ AdvanceGoalVerification(w)
  \/ \E a \in Actors : CancelGoalCommands(a) \/ ReadForInterrupt(a) \/ InterruptGoalExecution(a)
  \/ EndCommand \/ StopGoal \/ StopIsCutOff \/ ResumeGoal
  \/ OutsideChange \/ ReconcileCheck \/ DeadlinePasses \/ RestartGoals

GoalSpec == GoalInit /\ [][GoalNext]_goalVars

-----------------------------------------------------------------------------
(* Properties.                                                             *)

HandPlaces == {"idle", "wait", "claim", "charge", "act", "create", "scope", "plan", "saveop", "dispatch",
           "launch", "register", "requeue", "savejob", "pending", "collect", "pass", "rollback",
           "closepass", "closefail", "finish", "commit", "cancel", "interrupt", "pause"}
GoalActions == {"plan", "begin_run", "attempt", "propose", "approve", "apply", "verify", "verify_collect",
                "review", "recover_review", "recover_approved_review", "finish"}
GoalStates == {"active", "waiting", "completed", "stopping", "stopped", "budget_exhausted"}
HandRow == [pc : HandPlaces, action : GoalActions \cup {Nobody}, outcome : GoalStates \cup {Nobody},
            seen : Nat, used : Nat, cut : BOOLEAN]
WorkStages == {"plan", "attempt", "propose", "approve", "apply", "verify", "review", "finish", "done"}
Attempts == {"none", "running", "completed", "failed", "interrupted"}

\* Rows and actors have their shapes.
GoalTypeOK ==
  /\ goal \in [state : GoalStates, claim : Workers \cup {Nobody}, actions : Nat, attempts : Nat, expected : Nat]
  /\ task \in [revision : Nat, revised : BOOLEAN, passing : BOOLEAN]
  /\ step \in [stage : WorkStages, attempt : Attempts]
  /\ run \in {"none", "running", "paused", "failed"}
  /\ check \in [state : {"none", "active", "completed", "failed", "interrupted"}, op : BOOLEAN, job : BOOLEAN]
  /\ effect \in {"none", "planned", "dispatched", "observed", "uncertain", "abandoned", "reconciled"}
  /\ job \in {"none", "inserted", "live", "ending", "completed", "failed", "canceled", "interrupted"}
  /\ hand \in [Actors -> HandRow]
  /\ late \in BOOLEAN /\ events \in Nat

Acting == {"act", "create", "scope", "plan", "saveop", "dispatch", "launch", "register", "requeue", "savejob",
           "pending", "collect", "pass", "rollback", "closepass", "closefail", "finish", "commit"}

\* Whoever acts for the goal holds its claim, which was charged: two workers
\* that read the same idle goal never both dispatch ("A database claim prevents
\* concurrent dispatch of the same goal", taskcoord/goal.go:90), and no more is
\* charged than the owner consented to.
ChargedBeforeActing ==
  /\ \A w \in Workers : hand[w].pc \in Acting => goal.claim = w
  /\ goal.actions <= MaxActions /\ goal.attempts <= MaxAttempts

\* Once the owner has stopped the goal it is never anything but stopped, whoever
\* was acting then, whatever it had read, and whatever crashes (StopGoal).
StopTakesPrecedence ==
  [][goal.state \in {"stopping", "stopped"} => goal'.state \in {"stopping", "stopped"}]_goalVars

\* A goal is completed in a state in which every gate passes: "a validation can
\* be appended without changing the Task revision, so a revision check alone
\* cannot protect this boundary" (taskengine/goal.go:293).
CompletedOnPassingGates ==
  [][goal.state # "completed" /\ goal'.state = "completed" => task.passing /\ ~task.revised]_goalVars

\* When a goal was stopped, or ran out of budget, and every call has returned,
\* its command has been cancelled or has ended, even if the stop came between
\* the launch and the record of the job (AdvanceGoal, taskcoord/goal.go:292).  An effect
\* that somebody reconciled before its command was launched is no longer the goal's.
StopEndsCommand ==
  /\ goal.state \in {"stopped", "budget_exhausted"} /\ effect # "reconciled"
  /\ \A a \in Actors : HandAt(a, "idle") /\ ~hand[a].cut
  => ~CommandLive

\* A run is paused only when nobody acts for the goal: InterruptGoalExecution
\* refuses otherwise, "finish goal dispatch before interrupting execution"
\* (taskengine/goal.go:403).
InterruptsAtRest ==
  [][run = "running" /\ run' = "paused" /\ Claimed => goal'.claim = Nobody]_goalVars
=============================================================================
