------------------------------- MODULE TeamRun -------------------------------
(***************************************************************************)
(* One run of an agent team: the goroutine that executes its graph of      *)
(* tasks, a goroutine for each child turn, the decisions on approvals the  *)
(* children ask for, a cancellation, and restarts.                         *)
(*                                                                         *)
(* They share two tables and the handle CancelTeamRun signals through.     *)
(* Every SQL statement or transaction is one action.                       *)
(***************************************************************************)
EXTENDS Naturals, FiniteSets

CONSTANTS
  TeamTasks, DependsOn,  \* the validated graph: DependsOn[t], the tasks whose output t takes
  MaxParallel,           \* children of one wave
  MaxApprovals, MaxLives \* bounds: approvals asked for in all, and lives of the process

ASSUME TeamRunAssumption ==
  /\ DependsOn \in [TeamTasks -> SUBSET TeamTasks]
  /\ MaxParallel \in Nat \ {0} /\ MaxApprovals \in Nat /\ MaxLives \in Nat

VARIABLES
  team,      \* state of the row in agent_team_runs
  teamTask,  \* teamTask[t]: state of its row in agent_team_tasks
  executor,  \* executeTeamRun: where it stands, the states it read, the tasks it works on
  child,     \* child[t]: runTeamTask, and how often the turn was started
  decision,  \* decision[t]: DecideTeamTaskApproval
  handle,    \* whose context s.teamRuns holds: "executor", a task's decision, or "none"
  canceller, \* CancelTeamRun has committed and has not signalled yet
  approvals, lives

teamVars == <<team, teamTask, executor, child, decision, handle, canceller, approvals, lives>>
teamBounds == <<approvals, lives>>

NoExecutor == [pc |-> "none", cut |-> FALSE, seen |-> [t \in TeamTasks |-> "queued"], todo |-> {}, wave |-> {}]
NoDecision == [pc |-> "none", outcome |-> "none"]
Started == [NoExecutor EXCEPT !.pc = "start"]

Waiting == {"awaiting_approval", "resolving_approval"}
NotDone == {"failed", "interrupted", "blocked", "cancelled"}
ExecutorAt(pc) == executor.pc = pc
ExecutorGoes(pc) == executor' = [executor EXCEPT !.pc = pc]
\* The goroutine ends; its handle goes with it unless somebody has replaced it.
ExecutorEnds == /\ executor' = NoExecutor
                /\ handle' = IF handle = "executor" THEN "none" ELSE handle

-----------------------------------------------------------------------------
(* executeTeamRun.                                                         *)

BeginTeamRun ==
  /\ ExecutorAt("start")
  /\ IF team = "queued" /\ ~executor.cut
       THEN team' = "running" /\ ExecutorGoes("read") /\ UNCHANGED handle
       ELSE UNCHANGED team /\ ExecutorEnds
  /\ UNCHANGED <<teamTask, child, decision, canceller, teamBounds>>

\* Mutant: a task is ready as soon as none of its dependencies has failed.
ReadyUnlessBlocked(t) == teamTask[t] = "queued" /\ \A d \in DependsOn[t] : teamTask[d] \notin NotDone

Ready(t) == teamTask[t] = "queued" /\ \A d \in DependsOn[t] : teamTask[d] = "completed"

BlockedTasks == {t \in TeamTasks : teamTask[t] = "queued" /\ \E d \in DependsOn[t] : teamTask[d] \in NotDone}

\* A wave of ready tasks, which all carry the same creation time.
ReadTeamRun ==
  /\ ExecutorAt("read")
  /\ IF executor.cut THEN ExecutorEnds
     ELSE /\ UNCHANGED handle
          /\ LET ready == {t \in TeamTasks : Ready(t)}
             IN  \E wave \in SUBSET ready :
                   /\ wave = ready \/ Cardinality(wave) = MaxParallel
                   /\ Cardinality(wave) <= MaxParallel
                   /\ executor' = IF \E t \in TeamTasks : teamTask[t] \in Waiting
                                    THEN [executor EXCEPT !.pc = "pause"]
                                    ELSE [executor EXCEPT !.pc = "block", !.todo = BlockedTasks, !.wave = wave]
  /\ UNCHANGED <<team, teamTask, child, decision, canceller, teamBounds>>

PauseForApproval ==
  /\ ExecutorAt("pause") /\ ExecutorEnds
  /\ team' = IF team = "running" THEN "awaiting_approval" ELSE team
  /\ UNCHANGED <<teamTask, child, decision, canceller, teamBounds>>

\* UPDATE ... WHERE id=?, whatever became of the task since it was read.
BlockTask(t) ==
  /\ ExecutorAt("block") /\ t \in executor.todo
  /\ executor' = [executor EXCEPT !.todo = @ \ {t}]
  /\ teamTask' = IF executor.cut THEN teamTask ELSE [teamTask EXCEPT ![t] = "blocked"]
  /\ UNCHANGED <<team, child, decision, handle, canceller, teamBounds>>

\* Without a ready task the loop ends, though what depends on a task that was
\* only now blocked is still queued.
LaunchWave ==
  /\ ExecutorAt("block") /\ executor.todo = {}
  /\ ExecutorGoes(IF executor.wave = {} THEN "settle" ELSE "wait")
  /\ child' = [t \in TeamTasks |-> IF t \in executor.wave THEN [child[t] EXCEPT !.pc = "start"] ELSE child[t]]
  /\ UNCHANGED <<team, teamTask, decision, handle, canceller, teamBounds>>

AwaitWave ==
  /\ ExecutorAt("wait")
  /\ \/ executor.cut /\ ExecutorEnds
     \/ /\ \A t \in executor.wave : child[t].pc = "none"
        /\ executor' = [executor EXCEPT !.pc = "read", !.wave = {}] /\ UNCHANGED handle
  /\ UNCHANGED <<team, teamTask, child, decision, canceller, teamBounds>>

ReadForSettling ==
  /\ ExecutorAt("settle")
  /\ IF team \in {"cancelled", "interrupted"} THEN ExecutorEnds
     ELSE executor' = [executor EXCEPT !.pc = "finish", !.seen = teamTask] /\ UNCHANGED handle
  /\ UNCHANGED <<team, teamTask, child, decision, canceller, teamBounds>>

\* UPDATE ... WHERE id=?, whatever became of the run since it was read.
FinishTeamRun ==
  /\ ExecutorAt("finish") /\ ExecutorEnds
  /\ team' = IF \A t \in TeamTasks : executor.seen[t] = "completed" THEN "completed" ELSE "failed"
  /\ UNCHANGED <<teamTask, child, decision, canceller, teamBounds>>

-----------------------------------------------------------------------------
(* runTeamTask.  The children share the executor's context.                *)

StartTeamTask(t) ==
  /\ child[t].pc = "start"
  /\ IF teamTask[t] = "queued" /\ ~executor.cut
       THEN /\ teamTask' = [teamTask EXCEPT ![t] = "running"]
            /\ child' = [child EXCEPT ![t] = [pc |-> "turn", outcome |-> "none", starts |-> @.starts + 1]]
       ELSE UNCHANGED teamTask /\ child' = [child EXCEPT ![t].pc = "none"]
  /\ UNCHANGED <<team, executor, decision, handle, canceller, teamBounds>>

EndTeamTurn(t) ==
  /\ child[t].pc = "turn"
  /\ \/ \E outcome \in {"completed", "failed"} :
          /\ child' = [child EXCEPT ![t].pc = "save", ![t].outcome = outcome]
          /\ UNCHANGED teamBounds
     \/ /\ approvals < MaxApprovals /\ approvals' = approvals + 1 /\ UNCHANGED lives
        /\ child' = [child EXCEPT ![t].pc = "save", ![t].outcome = "awaiting_approval"]
  /\ UNCHANGED <<team, teamTask, executor, decision, handle, canceller>>

\* A completion is written with the run's context and whatever the task's state
\* is; the other outcomes without it, and only on a running task.
SaveTeamTask(t) ==
  /\ child[t].pc = "save" /\ child' = [child EXCEPT ![t].pc = "none"]
  /\ LET written == IF child[t].outcome = "completed" THEN ~(executor.cut \/ executor.pc = "none")
                                                      ELSE teamTask[t] = "running"
     IN  teamTask' = IF written THEN [teamTask EXCEPT ![t] = child[t].outcome] ELSE teamTask
  /\ UNCHANGED <<team, executor, decision, handle, canceller, teamBounds>>

-----------------------------------------------------------------------------
(* DecideTeamTaskApproval and continueTeamRun.                             *)

ReadForDecision(t) ==
  /\ decision[t].pc = "none" /\ team = "awaiting_approval" /\ teamTask[t] = "awaiting_approval"
  /\ decision' = [decision EXCEPT ![t].pc = "claim"]
  /\ UNCHANGED <<team, teamTask, executor, child, handle, canceller, teamBounds>>

ClaimApproval(t) ==
  /\ decision[t].pc = "claim"
  /\ IF teamTask[t] = "awaiting_approval"
       THEN /\ teamTask' = [teamTask EXCEPT ![t] = "resolving_approval"]
            /\ decision' = [decision EXCEPT ![t].pc = "register"]
       ELSE UNCHANGED teamTask /\ decision' = [decision EXCEPT ![t] = NoDecision]
  /\ UNCHANGED <<team, executor, child, handle, canceller, teamBounds>>

\* The one handle of the run now belongs to this decision.
RegisterDecision(t) ==
  /\ decision[t].pc = "register" /\ handle' = t
  /\ decision' = [decision EXCEPT ![t].pc = "turn"]
  /\ UNCHANGED <<team, teamTask, executor, child, canceller, teamBounds>>

\* agent.DecideApproval resumes the child's turn.
EndDecidedTurn(t) ==
  /\ decision[t].pc = "turn"
  /\ \/ \E outcome \in {"completed", "failed"} :
          /\ decision' = [decision EXCEPT ![t].pc = "save", ![t].outcome = outcome]
          /\ UNCHANGED teamBounds
     \/ /\ approvals < MaxApprovals /\ approvals' = approvals + 1 /\ UNCHANGED lives
        /\ decision' = [decision EXCEPT ![t].pc = "save", ![t].outcome = "awaiting_approval"]
  /\ UNCHANGED <<team, teamTask, executor, child, handle, canceller>>

DecisionEnds(t) == /\ decision' = [decision EXCEPT ![t] = NoDecision]
                   /\ handle' = IF handle = t THEN "none" ELSE handle

SaveDecision(t) ==
  /\ decision[t].pc = "save"
  /\ LET written == teamTask[t] = "resolving_approval"
         outcome == decision[t].outcome
     IN  /\ teamTask' = IF written THEN [teamTask EXCEPT ![t] = outcome] ELSE teamTask
         /\ IF outcome = "failed" \/ (outcome = "completed" /\ written)
              THEN decision' = [decision EXCEPT ![t].pc = "count"] /\ UNCHANGED handle
              ELSE DecisionEnds(t)
  /\ UNCHANGED <<team, executor, child, canceller, teamBounds>>

CountWaiting(t) ==
  /\ decision[t].pc = "count"
  /\ decision' = [decision EXCEPT ![t].pc = IF \E u \in TeamTasks : teamTask[u] \in Waiting
                                              THEN "stay" ELSE "resume"]
  /\ UNCHANGED <<team, teamTask, executor, child, handle, canceller, teamBounds>>

\* UPDATE ... SET state='awaiting_approval' ... AND state!='cancelled'.
StayAwaiting(t) ==
  /\ decision[t].pc = "stay" /\ DecisionEnds(t)
  /\ team' = IF team = "cancelled" THEN team ELSE "awaiting_approval"
  /\ UNCHANGED <<teamTask, executor, child, canceller, teamBounds>>

ResumeTeamRun(t) ==
  /\ decision[t].pc = "resume"
  /\ IF team = "awaiting_approval"
       THEN team' = "queued" /\ decision' = [decision EXCEPT ![t].pc = "schedule"] /\ UNCHANGED handle
       ELSE UNCHANGED team /\ DecisionEnds(t)
  /\ UNCHANGED <<teamTask, executor, child, canceller, teamBounds>>

\* An executor that is still at work goes on beside the new one; it cannot be
\* followed here and the step waits for its end.
ScheduleTeamRun(t) ==
  /\ decision[t].pc = "schedule" /\ ExecutorAt("none")
  /\ executor' = Started /\ handle' = "executor"
  /\ decision' = [decision EXCEPT ![t] = NoDecision]
  /\ UNCHANGED <<team, teamTask, child, canceller, teamBounds>>

-----------------------------------------------------------------------------
(* CancelTeamRun, and restarts.                                            *)

CancelTeamRun ==
  /\ team \in {"queued", "running", "awaiting_approval"} /\ ~canceller
  /\ team' = "cancelled" /\ canceller' = TRUE
  /\ teamTask' = [t \in TeamTasks |->
                    IF teamTask[t] \in Waiting \cup {"queued", "running"} THEN "cancelled" ELSE teamTask[t]]
  /\ UNCHANGED <<executor, child, decision, handle, teamBounds>>

\* A decision whose context is cancelled ends as one that fails for another reason.
SignalCancellation ==
  /\ canceller /\ canceller' = FALSE
  /\ executor' = IF handle = "executor" THEN [executor EXCEPT !.cut = TRUE] ELSE executor
  /\ UNCHANGED <<team, teamTask, child, decision, handle, teamBounds>>

\* RecoverInterruptedJobs: the tasks first, then the run.
RestartTeam ==
  /\ lives < MaxLives /\ lives' = lives + 1 /\ UNCHANGED approvals
  /\ LET cut(t) == \/ teamTask[t] \in {"running", "resolving_approval"}
                   \/ teamTask[t] = "queued" /\ team \in {"queued", "running"}
         tasks == [t \in TeamTasks |-> IF cut(t) THEN "interrupted" ELSE teamTask[t]]
     IN  /\ teamTask' = tasks
         /\ team' = IF \/ team \in {"queued", "running"}
                       \/ team = "awaiting_approval" /\ \E t \in TeamTasks : tasks[t] = "interrupted"
                      THEN "interrupted" ELSE team
  /\ executor' = NoExecutor /\ handle' = "none" /\ canceller' = FALSE
  /\ child' = [t \in TeamTasks |-> [child[t] EXCEPT !.pc = "none"]]
  /\ decision' = [t \in TeamTasks |-> NoDecision]

-----------------------------------------------------------------------------
\* StartTeamRun has committed the run and scheduled it.
TeamInit ==
  /\ team = "queued" /\ teamTask = [t \in TeamTasks |-> "queued"]
  /\ executor = Started /\ handle = "executor"
  /\ child = [t \in TeamTasks |-> [pc |-> "none", outcome |-> "none", starts |-> 0]]
  /\ decision = [t \in TeamTasks |-> NoDecision]
  /\ canceller = FALSE /\ approvals = 0 /\ lives = 0

ExecuteTeamRun == BeginTeamRun \/ ReadTeamRun \/ PauseForApproval \/ LaunchWave \/ AwaitWave
                  \/ ReadForSettling \/ FinishTeamRun \/ \E t \in TeamTasks : BlockTask(t)

TeamNext ==
  \/ ExecuteTeamRun
  \/ \E t \in TeamTasks :
       \/ StartTeamTask(t) \/ EndTeamTurn(t) \/ SaveTeamTask(t)
       \/ ReadForDecision(t) \/ ClaimApproval(t) \/ RegisterDecision(t) \/ EndDecidedTurn(t) \/ SaveDecision(t)
       \/ CountWaiting(t) \/ StayAwaiting(t) \/ ResumeTeamRun(t) \/ ScheduleTeamRun(t)
  \/ CancelTeamRun \/ SignalCancellation \/ RestartTeam

TeamSpec == TeamInit /\ [][TeamNext]_teamVars

-----------------------------------------------------------------------------
(* Properties.                                                             *)

TeamTypeOK ==
  /\ team \in {"queued", "running", "awaiting_approval", "completed", "failed", "cancelled", "interrupted"}
  /\ teamTask \in [TeamTasks -> Waiting \cup NotDone \cup {"queued", "running", "completed"}]
  /\ executor \in [pc : {"none", "start", "read", "pause", "block", "wait", "settle", "finish"}, cut : BOOLEAN,
                   seen : [TeamTasks -> Waiting \cup NotDone \cup {"queued", "running", "completed"}],
                   todo : SUBSET TeamTasks, wave : SUBSET TeamTasks]
  /\ child \in [TeamTasks -> [pc : {"none", "start", "turn", "save"},
                              outcome : {"none", "completed", "failed", "awaiting_approval"}, starts : Nat]]
  /\ decision \in [TeamTasks -> [pc : {"none", "claim", "register", "turn", "save", "count", "stay", "resume",
                                       "schedule"},
                                 outcome : {"none", "completed", "failed", "awaiting_approval"}]]
  /\ handle \in TeamTasks \cup {"executor", "none"} /\ canceller \in BOOLEAN
  /\ approvals \in Nat /\ lives \in Nat

\* A child's prompt is sent once, and only when the tasks it takes output from
\* are completed and stay so, over every approval, resumption, cancellation and
\* restart: Hermetrix "never replays the child prompt or prior tool call"
\* (team.go:379).
ChildrenOnceInOrder ==
  \A t \in TeamTasks : /\ child[t].starts <= 1
                       /\ child[t].starts = 1 => \A d \in DependsOn[t] : teamTask[d] = "completed"

\* A cancelled run stays cancelled: recording the cancellation before the signal
\* "keeps the persisted state authoritative even if a provider returns at the
\* same instant" (team.go:333).
CancelledRunStays == [][team = "cancelled" => team' = "cancelled"]_teamVars
=============================================================================
