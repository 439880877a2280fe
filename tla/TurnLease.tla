----------------------------- MODULE TurnLease -----------------------------
(***************************************************************************)
(* One session of the agent service: the lease a turn holds on it, the     *)
(* approvals that suspend a turn, the owner's stop request, the message    *)
(* queue, and the recovery that startup runs over all of them.             *)
(*                                                                         *)
(* Every SQL transaction is one action, and so is every critical section   *)
(* of executions.mu.  A call (RunTurn, DecideApproval, StopTurn,           *)
(* ReconcileStoppedTurn, DrainOneQueued) is a sequence of such actions in  *)
(* a goroutine of its own; anything may happen between two of them.  A     *)
(* context is cancelled exactly when the turn has a control row: StopTurn  *)
(* inserts the row and cancels under one lock, and registration looks for  *)
(* the row.  Automatic continuation is in AutoRetry; the deletion of idle  *)
(* sessions is not part of the model.                                      *)
(***************************************************************************)
EXTENDS Integers, FiniteSets

CONSTANTS
  Calls,         \* goroutines that serve calls
  MaxTurns, MaxApprovals, MaxMessages, \* bounds: rows of each table
  MaxCommands,   \* bound: commands that run at once
  MaxRestarts    \* bound: crashes of the process

Turns == 1..MaxTurns
Approvals == 1..MaxApprovals
Messages == 1..MaxMessages
None == 0

ASSUME TurnLeaseAssumption ==
  /\ MaxTurns \in Nat /\ MaxApprovals \in Nat /\ MaxMessages \in Nat
  /\ MaxCommands \in Nat /\ MaxRestarts \in Nat

VARIABLES
  session,   \* state and active_turn_id of the row of agent_sessions
  control,   \* control[t]: the state of t's row in agent_turn_controls
  approval,  \* approval[a]: state and turn of a row of tool_approvals
  message,   \* message[m]: state, mode, base turn and turn of a queued message
  call,      \* call[i]: where the call of goroutine i stands
  boot,      \* the startup statement to run next, or "up"
  restarts,  \* crashes so far
  outcome,   \* outcome[t]: the event that closed turn t, or "open"
  did,       \* did[a]: how often the effect of approval a was carried out
  live,      \* the turns whose command still runs (the system's own state)
  loose,     \* those the tracker counts as finished, or lost with its process, all the same
  saved      \* saved[t]: the unfinished jobs in run_ids_json of t's control row, by turn

rows == <<session, control, approval, message, outcome>>
commands == <<live, loose, saved>>
world == <<did, commands>>
process == <<boot, restarts>>
vars == <<session, control, approval, message, call, boot, restarts, outcome, did, live, loose, saved>>

-----------------------------------------------------------------------------
NoCall == [op |-> "none", pc |-> "idle", turn |-> None, approval |-> None, message |-> None,
           registered |-> FALSE, authorized |-> FALSE, acted |-> FALSE, sure |-> FALSE,
           result |-> "none"]

Up == boot = "up"
At(i, pc) == Up /\ call[i].pc = pc
Go(i, pc) == call' = [call EXCEPT ![i].pc = pc]
Finish(i, pc, result) == call' = [call EXCEPT ![i].pc = pc, ![i].result = result]

\* RunTurn for a queued message returns into DrainOneQueued.
Return(i) ==
  call' = [call EXCEPT ![i] = IF @.op = "run" /\ @.message # None
                              THEN [@ EXCEPT !.pc = "report"] ELSE NoCall]

\* Some goroutine is in executions.active under turn t.
Executing(t) == \E i \in Calls : call[i].registered /\ call[i].turn = t

\* executions.mu is held across a whole ReconcileStoppedTurn.
Unlocked == \A i \in Calls : call[i].op # "reconcile"

Running(t) == session = [state |-> "running", turn |-> t]
Awaiting(t) == session = [state |-> "awaiting_approval", turn |-> t]
Free == [state |-> "active", turn |-> None]
Held(state, t) == session' = [state |-> state, turn |-> t]

Turn(i) == call[i].turn
Asked(i) == approval[call[i].approval]

\* The queue item of turn t, if it is still under way, ends in this state.
CloseMessage(t, state) ==
  [m \in Messages |-> IF message[m].turn = t /\ message[m].state \in {"running", "awaiting_approval"}
                      THEN [message[m] EXCEPT !.state = state] ELSE message[m]]

-----------------------------------------------------------------------------
(* The life of a turn.                                                     *)

AcquireTurn(i, t) ==
  /\ call[i].pc \in {"idle", "draining"} /\ Up
  /\ outcome[t] = "none" /\ \A u \in 1..(t - 1) : outcome[u] # "none"
  /\ session = Free
  /\ LET m == call[i].message IN
     IF m = None THEN UNCHANGED message
     ELSE /\ message[m].state = "queued"
          /\ message' = [message EXCEPT ![m].state = "running", ![m].turn = t]
  /\ Held("running", t)
  /\ outcome' = [outcome EXCEPT ![t] = "open"]
  /\ call' = [call EXCEPT ![i].op = "run", ![i].pc = "acquired", ![i].turn = t]
  /\ UNCHANGED <<control, approval, world, process>>

RegisterTurn(i) ==
  /\ At(i, "acquired") /\ Unlocked
  /\ call' = [call EXCEPT ![i].pc = "loop", ![i].registered = TRUE]
  /\ UNCHANGED <<rows, world, process>>

StartCommand(i) ==
  /\ At(i, "loop") /\ Turn(i) \notin live /\ Cardinality(live) < MaxCommands
  /\ live' = live \cup {Turn(i)}
  /\ UNCHANGED <<rows, call, did, loose, saved, process>>

\* runs.activeIDs: the running commands that the tracker counts.
Counted == live \ loose

\* The cancel action of the tool: once the runner has taken the request, the
\* tracker counts the job as finished, whether or not its process has ended.
CancelCommand(i, u) ==
  /\ At(i, "loop") /\ u \in Counted
  /\ loose' = loose \cup {u}
  /\ UNCHANGED <<rows, call, did, live, saved, process>>

UsesCommands(i) == StartCommand(i) \/ \E u \in Turns : CancelCommand(i, u)

\* The commands in ended are gone; a job that is done says so to whoever asks.
EndCommands(ended) ==
  /\ live' = live \ ended
  /\ loose' = loose \ ended
  /\ saved' = [t \in Turns |-> saved[t] \ ended]

CommandEnds(t) ==
  /\ t \in live
  /\ EndCommands({t})
  /\ UNCHANGED <<rows, call, did, process>>

\* An effect that the session's consent covers is claimed by the loop itself.
CreateToolApproval(i, a, authorized) ==
  /\ At(i, "loop")
  /\ approval[a].state = "none" /\ \A b \in 1..(a - 1) : approval[b].state # "none"
  /\ Running(Turn(i))
  /\ approval' = [approval EXCEPT ![a] = [state |-> "pending", turn |-> Turn(i)]]
  /\ Held("awaiting_approval", Turn(i))
  /\ call' = [call EXCEPT ![i].pc = IF authorized THEN "claim" ELSE "paused",
                          ![i].approval = a, ![i].authorized = authorized]
  /\ UNCHANGED <<control, message, outcome, world, process>>

LoopPauses(i) ==
  /\ At(i, "paused")
  /\ Finish(i, IF call[i].op = "run" /\ control[Turn(i)] = "stopping" THEN "failing" ELSE "ending",
            "awaiting_approval")
  /\ UNCHANGED <<rows, world, process>>

LoopFails(i) ==
  /\ At(i, "loop")
  /\ Go(i, "failing")
  /\ UNCHANGED <<rows, world, process>>

\* Mutant: the stop request is not looked for.
CompleteTurnAnyway(i) ==
  /\ At(i, "loop") /\ Running(Turn(i))
  /\ session' = Free
  /\ outcome' = [outcome EXCEPT ![Turn(i)] = "completed"]
  /\ message' = CloseMessage(Turn(i), "completed")
  /\ Finish(i, "ending", "completed")
  /\ UNCHANGED <<control, approval, world, process>>

CompleteTurn(i) ==
  /\ At(i, "loop")
  /\ control[Turn(i)] = "none"
  /\ Running(Turn(i))
  /\ session' = Free
  /\ outcome' = [outcome EXCEPT ![Turn(i)] = "completed"]
  /\ message' = CloseMessage(Turn(i), "completed")
  /\ Finish(i, "ending", "completed")
  /\ UNCHANGED <<control, approval, world, process>>

\* A turn that has been asked to stop goes to finishStoppedTurn; one that
\* waits for an approval keeps its lease.
FailTurn(i) ==
  /\ At(i, "failing")
  /\ IF control[Turn(i)] # "none"
     THEN Finish(i, "observe", "failed") /\ UNCHANGED rows
     ELSE /\ Finish(i, "ending", "failed")
          /\ IF Running(Turn(i))
             THEN /\ session' = Free
                  /\ outcome' = [outcome EXCEPT ![Turn(i)] = "failed"]
                  /\ message' = CloseMessage(Turn(i), "failed")
                  /\ UNCHANGED <<control, approval>>
             ELSE UNCHANGED rows
  /\ UNCHANGED <<world, process>>

EndExecution(i) ==
  /\ At(i, "ending") /\ Unlocked
  /\ call' = [call EXCEPT ![i].pc = "ended", ![i].registered = FALSE]
  /\ UNCHANGED <<rows, world, process>>

\* Mutant: the executor leaves without looking again.
LeaveAtOnce(i) ==
  /\ At(i, "ended")
  /\ Return(i)
  /\ UNCHANGED <<rows, world, process>>

\* A stop may have come after the executor last looked for it.
LeaveExecution(i) ==
  /\ At(i, "ended")
  /\ IF control[Turn(i)] = "stopping" THEN Go(i, "observe") ELSE Return(i)
  /\ UNCHANGED <<rows, world, process>>

-----------------------------------------------------------------------------
(* Approvals.                                                              *)

\* DecideApproval reads the approval and the session before it registers.
ReadApproval(i, a) ==
  /\ At(i, "idle")
  /\ approval[a].state = "pending" /\ session.turn = approval[a].turn
  /\ call' = [call EXCEPT ![i].op = "decide", ![i].pc = "read", ![i].approval = a,
                          ![i].turn = approval[a].turn]
  /\ UNCHANGED <<rows, world, process>>

RegisterDecision(i) ==
  /\ At(i, "read") /\ Unlocked
  /\ IF Executing(Turn(i)) THEN Return(i)
     ELSE call' = [call EXCEPT ![i].registered = TRUE,
                     ![i].pc = IF control[Turn(i)] = "none" THEN "claim" ELSE "ending"]
  /\ UNCHANGED <<rows, world, process>>

Decided(i, state) == approval' = [approval EXCEPT ![call[i].approval].state = state]

\* Mutant: the row may have been decided since it was read.
ClaimAgain(i, decision) ==
  /\ At(i, "claim")
  /\ call[i].authorized => decision = "executing"
  /\ control[Turn(i)] = "none" /\ Decided(i, decision)
  /\ IF decision = "executing" THEN Finish(i, "tool", "none") ELSE Finish(i, "receipt", "denied")
  /\ UNCHANGED <<session, control, message, outcome, world, process>>

ClaimApprovalDecision(i, decision) ==
  /\ At(i, "claim")
  /\ call[i].authorized => decision = "executing"
  /\ IF Asked(i).state = "pending" /\ control[Turn(i)] = "none"
     THEN /\ Decided(i, decision)
          /\ IF decision = "executing" THEN Finish(i, "tool", "none")
             ELSE Finish(i, "receipt", "denied")
     ELSE /\ Go(i, IF call[i].authorized THEN "failing" ELSE "ending")
          /\ UNCHANGED approval
  /\ UNCHANGED <<session, control, message, outcome, world, process>>

CarryOut(i) ==
  /\ At(i, "tool") /\ ~call[i].acted
  /\ did' = [did EXCEPT ![call[i].approval] = @ + 1]
  /\ call' = [call EXCEPT ![i].acted = TRUE]
  /\ UNCHANGED <<rows, commands, process>>

\* A tool that reports an error may have had its effect; only a cancelled
\* context makes the receipt say so.
ToolReturns(i, result) ==
  /\ At(i, "tool")
  /\ result = "executed" => call[i].acted
  /\ result = "uncertain" => control[Turn(i)] # "none" \/ call[i].authorized
  /\ Finish(i, "receipt", result)
  /\ UNCHANGED <<rows, world, process>>

PersistApprovalReceipt(i) ==
  /\ At(i, "receipt")
  /\ Asked(i).state = IF call[i].result = "denied" THEN "denied" ELSE "executing"
  /\ Awaiting(Turn(i))
  /\ Decided(i, call[i].result)
  /\ Held("running", Turn(i))
  /\ call' = [call EXCEPT ![i].pc = IF call[i].authorized THEN "loop" ELSE "resumed",
                          ![i].authorized = FALSE, ![i].acted = FALSE,
                          ![i].approval = None, ![i].result = "none"]
  /\ UNCHANGED <<control, message, outcome, world, process>>

\* The transaction rolls back: the row keeps the claim.
PersistFails(i) ==
  /\ At(i, "receipt")
  /\ Finish(i, IF call[i].authorized THEN "failing" ELSE "ending", "failed")
  /\ UNCHANGED <<rows, world, process>>

\* The owner of the connection that decided may be gone as well.
DecisionCancelled(i) ==
  /\ At(i, "resumed")
  /\ Go(i, "failing")
  /\ UNCHANGED <<rows, world, process>>

DecisionStands(i) ==
  /\ At(i, "resumed") /\ control[Turn(i)] = "none"
  /\ Go(i, "resuming")
  /\ UNCHANGED <<rows, world, process>>

ContinueLoop(i) ==
  /\ At(i, "resuming")
  /\ Go(i, "loop")
  /\ UNCHANGED <<rows, world, process>>

\* The model configuration changed.  The queue item is left as it is.
BlockContinuation(i) ==
  /\ At(i, "resuming")
  /\ Running(Turn(i))
  /\ session' = Free
  /\ outcome' = [outcome EXCEPT ![Turn(i)] = "blocked"]
  /\ Go(i, "ending")
  /\ UNCHANGED <<control, approval, message, world, process>>

-----------------------------------------------------------------------------
(* Stopping a turn.                                                        *)

\* The row takes the jobs that are counted now.  An executor that is registered
\* is cancelled and finishes the stop itself.
StopTurn(i, t) ==
  /\ At(i, "idle") \/ (At(i, "steer") /\ Turn(i) = t)
  /\ Unlocked
  /\ control[t] = "none" /\ session.turn = t
  /\ session.state \in {"running", "awaiting_approval"}
  /\ control' = [control EXCEPT ![t] = "stopping"]
  /\ call' = [call EXCEPT ![i] =
       IF Awaiting(t) /\ ~Executing(t)
       THEN [NoCall EXCEPT !.op = "stop", !.pc = "observe", !.turn = t] ELSE NoCall]
  /\ saved' = [saved EXCEPT ![t] = Counted]
  /\ UNCHANGED <<session, approval, message, outcome, did, live, loose, process>>

\* The jobs that finishStoppedTurn asks after: those counted now and those the
\* control row has kept.
Owned(t) == Counted \cup saved[t]

\* Mutant: a command that was asked to end is taken to have ended.
ObserveAsked(i) ==
  /\ At(i, "observe")
  /\ saved' = [saved EXCEPT ![Turn(i)] = Owned(Turn(i))]
  /\ call' = [call EXCEPT ![i].pc = "settle", ![i].sure = TRUE]
  /\ UNCHANGED <<rows, did, live, loose, process>>

\* The jobs are asked to end, and the runtime to confirm that it is idle.  The
\* call is sure when the runtime did and every job it asked after is done; else
\* the row keeps the jobs, some of which end with CommandEnds.
Observe(i) ==
  /\ At(i, "observe")
  /\ \E sure \in BOOLEAN :
       /\ IF sure THEN EndCommands(Owned(Turn(i)))
                  ELSE /\ saved' = [saved EXCEPT ![Turn(i)] = Owned(Turn(i))]
                       /\ UNCHANGED <<live, loose>>
       /\ call' = [call EXCEPT ![i].pc = "settle", ![i].sure = sure]
  /\ UNCHANGED <<rows, did, process>>

\* Mutant: only a receipt that says so is in doubt.
InDoubtOnRecord(t) == \E a \in Approvals : /\ approval[a].turn = t
                                          /\ approval[a].state = "uncertain"

\* Some effect of turn t was claimed and its result is not known.
InDoubt(t) == \E a \in Approvals : /\ approval[a].turn = t
                                   /\ approval[a].state \in {"executing", "uncertain"}

CancelPending(pending) ==
  [a \in Approvals |-> IF approval[a].state = "pending" /\ approval[a].turn \in pending
                       THEN [approval[a] EXCEPT !.state = "cancelled"] ELSE approval[a]]

SettleRows(t, stopped) ==
  /\ control' = [control EXCEPT ![t] = IF stopped THEN "stopped" ELSE "needs_review"]
  /\ approval' = CancelPending({t})
  /\ session' = IF session.turn # t THEN session
                ELSE IF stopped THEN Free ELSE [state |-> "control_blocked", turn |-> t]
  /\ message' = CloseMessage(t, IF stopped THEN "cancelled" ELSE "needs_review")
  /\ outcome' = [outcome EXCEPT ![t] = IF @ = "open" THEN "stopped" ELSE @]

\* The transaction of finishStoppedTurn.
Settle(i) ==
  /\ At(i, "settle")
  /\ LET t == Turn(i)
         after == [call[i] EXCEPT !.pc = "ending",
                     !.result = IF control[t] = "stopping" THEN "completed" ELSE "failed"]
     IN /\ IF control[t] = "stopping" \/ (control[t] = "needs_review" /\ call[i].sure)
           THEN SettleRows(t, call[i].sure /\ ~InDoubt(t))
           ELSE UNCHANGED rows
        /\ IF call[i].registered THEN call' = [call EXCEPT ![i] = after] ELSE Return(i)
  /\ UNCHANGED <<world, process>>

ReconcileStoppedTurn(i, t) ==
  /\ At(i, "idle") /\ Unlocked
  /\ control[t] = "needs_review" /\ session.turn = t /\ ~Executing(t)
  /\ call' = [call EXCEPT ![i].op = "reconcile", ![i].pc = "observe", ![i].turn = t]
  /\ UNCHANGED <<rows, world, process>>

-----------------------------------------------------------------------------
(* The message queue.                                                      *)

NewMessage(m) == message[m].state = "none" /\ \A n \in 1..(m - 1) : message[n].state # "none"

QueueMessage(m) ==
  /\ Up /\ NewMessage(m)
  /\ message' = [message EXCEPT ![m].state = "queued"]
  /\ UNCHANGED <<session, control, approval, outcome, call, world, process>>

\* A change of direction retires what waits, and then stops the turn.
QueueSteer(i, m) ==
  /\ At(i, "idle") /\ NewMessage(m) /\ session.turn # None
  /\ message' = [n \in Messages |->
       IF n = m THEN [state |-> "queued", mode |-> "steer", base |-> session.turn, turn |-> None]
       ELSE IF message[n].state = "queued" THEN [message[n] EXCEPT !.state = "needs_review"]
       ELSE message[n]]
  /\ call' = [call EXCEPT ![i].op = "steer", ![i].pc = "steer", ![i].turn = session.turn,
                          ![i].message = m]
  /\ UNCHANGED <<session, control, approval, outcome, world, process>>

\* The stop was asked for already, or comes too late.
SteerTooLate(i) ==
  /\ At(i, "steer") /\ Unlocked
  /\ LET m == call[i].message IN
     \/ control[Turn(i)] # "none" /\ UNCHANGED message
     \/ /\ control[Turn(i)] = "none"
        /\ session.turn # Turn(i) \/ session.state \notin {"running", "awaiting_approval"}
        /\ message' = IF message[m].state = "queued"
                      THEN [message EXCEPT ![m].state = "needs_review"] ELSE message
  /\ Return(i)
  /\ UNCHANGED <<session, control, approval, outcome, world, process>>

CancelQueuedMessage(m) ==
  /\ Up /\ message[m].state \in {"queued", "needs_review"}
  /\ message' = [message EXCEPT ![m].state = "cancelled"]
  /\ UNCHANGED <<session, control, approval, outcome, call, world, process>>

\* Mutant: a stop that was asked for is as good as one that was confirmed.
EligibleOnceAsked(m) ==
  /\ message[m].state = "queued"
  /\ message[m].mode = "steer" => control[message[m].base] # "stopping"

Eligible(m) ==
  /\ message[m].state = "queued"
  /\ message[m].mode = "steer" => control[message[m].base] = "stopped"

\* One goroutine drains the queue: it reads, runs the turn, and reports.
DrainOneQueued(i, m) ==
  /\ At(i, "idle") /\ \A j \in Calls : call[j].op # "run" \/ call[j].message = None
  /\ session = Free /\ Eligible(m) /\ \A n \in 1..(m - 1) : ~Eligible(n)
  /\ call' = [call EXCEPT ![i].op = "run", ![i].pc = "draining", ![i].message = m]
  /\ UNCHANGED <<rows, world, process>>

\* RunTurn did not get the lease, or refused before it asked for it.
DrainRefused(i) ==
  /\ At(i, "draining")
  /\ Go(i, "refused")
  /\ UNCHANGED <<rows, world, process>>

ReportRefusal(i) ==
  /\ At(i, "refused")
  /\ LET m == call[i].message IN
     message' = IF message[m].state = "queued" /\ session.state = "active"
                THEN [message EXCEPT ![m].state = "needs_review"] ELSE message
  /\ call' = [call EXCEPT ![i] = NoCall]
  /\ UNCHANGED <<session, control, approval, outcome, world, process>>

ReportTurn(i) ==
  /\ At(i, "report")
  /\ LET m == call[i].message IN
     message' = IF message[m].state \in {"queued", "running"}
                THEN [message EXCEPT ![m].state = call[i].result] ELSE message
  /\ call' = [call EXCEPT ![i] = NoCall]
  /\ UNCHANGED <<session, control, approval, outcome, world, process>>

-----------------------------------------------------------------------------
(* Restart: the statements of startup, in the order of main.go.            *)

\* A command runs in a process group of its own and outlives the process that
\* started it, unless it ends (CommandEnds).  The tracker is gone, and startup
\* first runs RecoverInterruptedJobs, which closes the jobs' rows: for
\* finishStoppedTurn they are done.
Crash ==
  /\ restarts < MaxRestarts
  /\ restarts' = restarts + 1 /\ boot' = "queue"
  /\ call' = [i \in Calls |-> NoCall]
  /\ loose' = live /\ saved' = [t \in Turns |-> {}]
  /\ UNCHANGED <<rows, did, live>>

RecoverMessageQueue ==
  /\ boot = "queue" /\ boot' = "approvals"
  /\ LET broken == \/ session.state \in {"running", "control_blocked"}
                   \/ \E a \in Approvals : approval[a].state \in {"executing", "uncertain"}
                   \/ \E m \in Messages : message[m].state = "running"
     IN message' = [m \in Messages |->
          IF message[m].state = "running" \/ (message[m].state = "queued" /\ broken)
          THEN [message[m] EXCEPT !.state = "needs_review"] ELSE message[m]]
  /\ UNCHANGED <<session, control, approval, outcome, call, world, restarts>>

Interrupted == {a \in Approvals : approval[a].state = "executing"}

\* Mutant: an effect that cannot be looked at is taken not to have happened.
VerdictWithoutDoubt(a) ==
  IF did[a] > 0 THEN {"executed", "pending"} ELSE {"pending"}

\* What a look at the file says; anything else cannot be looked at.
Verdict(a) ==
  {"uncertain"} \cup IF did[a] > 0 THEN {"executed"} ELSE {"pending"}

RecoverInterruptedApprovals ==
  /\ boot = "approvals" /\ boot' = "turns"
  /\ \E verdict \in [Interrupted -> {"executed", "pending", "uncertain"}] :
       /\ \A a \in Interrupted : verdict[a] \in Verdict(a)
       /\ approval' = [a \in Approvals |-> IF a \in Interrupted
                         THEN [approval[a] EXCEPT !.state = verdict[a]] ELSE approval[a]]
  /\ session' = IF Interrupted = {} THEN session ELSE Free
  /\ UNCHANGED <<control, message, outcome, call, world, restarts>>

RecoverInterruptedTurns ==
  /\ boot = "turns" /\ boot' = "controls"
  /\ IF session.state = "running"
     THEN /\ session' = Free
          /\ outcome' = [outcome EXCEPT ![session.turn] = "interrupted"]
     ELSE UNCHANGED <<session, outcome>>
  /\ UNCHANGED <<control, approval, message, call, world, restarts>>

\* Mutant: the session is not taken back.
RecoverControlsOnly ==
  /\ boot = "controls" /\ boot' = "up"
  /\ control' = [t \in Turns |-> IF control[t] = "stopping" THEN "needs_review" ELSE control[t]]
  /\ approval' = CancelPending({t \in Turns : control[t] # "none"})
  /\ UNCHANGED <<session, message, outcome, call, world, restarts>>

RecoverTurnControls ==
  /\ boot = "controls" /\ boot' = "up"
  /\ control' = [t \in Turns |-> IF control[t] = "stopping" THEN "needs_review" ELSE control[t]]
  /\ LET unsettled == {t \in Turns : control'[t] = "needs_review"} IN
     /\ session' = IF unsettled = {} THEN session
                   ELSE [state |-> "control_blocked",
                         turn |-> CHOOSE t \in unsettled : \A u \in unsettled : u <= t]
     /\ approval' = CancelPending({t \in Turns : control[t] # "none"})
     /\ message' = [m \in Messages |->
          IF /\ message[m].state = "queued" /\ message[m].mode = "steer"
             /\ message[m].base \in unsettled
          THEN [message[m] EXCEPT !.state = "needs_review"] ELSE message[m]]
  /\ UNCHANGED <<outcome, call, world, restarts>>

Startup == \/ RecoverMessageQueue \/ RecoverInterruptedApprovals
           \/ RecoverInterruptedTurns \/ RecoverTurnControls

-----------------------------------------------------------------------------
Init ==
  /\ session = Free
  /\ control = [t \in Turns |-> "none"]
  /\ approval = [a \in Approvals |-> [state |-> "none", turn |-> None]]
  /\ message = [m \in Messages |-> [state |-> "none", mode |-> "queue", base |-> None, turn |-> None]]
  /\ call = [i \in Calls |-> NoCall]
  /\ boot = "up" /\ restarts = 0
  /\ outcome = [t \in Turns |-> "none"]
  /\ did = [a \in Approvals |-> 0]
  /\ live = {} /\ loose = {} /\ saved = [t \in Turns |-> {}]

RunsTurn(i) ==
  \/ \E t \in Turns : AcquireTurn(i, t)
  \/ RegisterTurn(i) \/ UsesCommands(i)
  \/ \E a \in Approvals, authorized \in BOOLEAN : CreateToolApproval(i, a, authorized)
  \/ LoopPauses(i) \/ LoopFails(i) \/ CompleteTurn(i) \/ FailTurn(i)
  \/ EndExecution(i) \/ LeaveExecution(i)

DecidesApproval(i) ==
  \/ \E a \in Approvals : ReadApproval(i, a)
  \/ RegisterDecision(i)
  \/ \E decision \in {"executing", "denied"} : ClaimApprovalDecision(i, decision)
  \/ CarryOut(i)
  \/ \E result \in {"executed", "failed", "uncertain"} : ToolReturns(i, result)
  \/ PersistApprovalReceipt(i) \/ PersistFails(i)
  \/ DecisionCancelled(i) \/ DecisionStands(i) \/ ContinueLoop(i) \/ BlockContinuation(i)

StopsTurn(i) ==
  \/ \E t \in Turns : StopTurn(i, t) \/ ReconcileStoppedTurn(i, t)
  \/ Observe(i) \/ Settle(i)

UsesQueue(i) ==
  \/ \E m \in Messages : QueueSteer(i, m) \/ DrainOneQueued(i, m)
  \/ SteerTooLate(i) \/ DrainRefused(i) \/ ReportRefusal(i) \/ ReportTurn(i)

Next ==
  \/ \E i \in Calls : RunsTurn(i) \/ DecidesApproval(i) \/ StopsTurn(i) \/ UsesQueue(i)
  \/ \E t \in Turns : CommandEnds(t)
  \/ \E m \in Messages : QueueMessage(m) \/ CancelQueuedMessage(m)
  \/ Crash \/ Startup

Spec == Init /\ [][Next]_vars

-----------------------------------------------------------------------------
(* Properties.                                                             *)

SessionStates == {"active", "running", "awaiting_approval", "control_blocked"}
ApprovalStates == {"none", "pending", "executing", "denied", "executed", "failed", "uncertain",
                   "cancelled"}
MessageStates == {"none", "queued", "running", "awaiting_approval", "completed", "failed",
                  "cancelled", "needs_review"}
Outcomes == {"none", "open", "completed", "failed", "blocked", "stopped", "interrupted"}
Results == {"none", "executed", "failed", "uncertain", "denied", "completed", "awaiting_approval"}
Places == {"idle", "acquired", "loop", "paused", "failing", "ending", "ended", "read", "claim",
           "tool", "receipt", "resumed", "resuming", "observe", "settle", "steer", "draining",
           "refused", "report"}

SessionRow == [state : SessionStates, turn : Turns \cup {None}]
ApprovalRow == [state : ApprovalStates, turn : Turns \cup {None}]
MessageRow == [state : MessageStates, mode : {"queue", "steer"},
               base : Turns \cup {None}, turn : Turns \cup {None}]
CallRecord == [op : {"none", "run", "decide", "stop", "steer", "reconcile"},
               pc : Places, turn : Turns \cup {None}, approval : Approvals \cup {None},
               message : Messages \cup {None}, registered : BOOLEAN,
               authorized : BOOLEAN, acted : BOOLEAN, sure : BOOLEAN, result : Results]

\* Types; and a session has an active turn unless it is free.
TypeOK ==
  /\ session \in SessionRow
  /\ session.turn = None <=> session.state = "active"
  /\ control \in [Turns -> {"none", "stopping", "needs_review", "stopped"}]
  /\ approval \in [Approvals -> ApprovalRow]
  /\ message \in [Messages -> MessageRow]
  /\ call \in [Calls -> CallRecord]
  /\ boot \in {"up", "queue", "approvals", "turns", "controls"}
  /\ restarts \in 0..MaxRestarts
  /\ outcome \in [Turns -> Outcomes]
  /\ did \in [Approvals -> Nat]
  /\ live \in SUBSET Turns /\ loose \in SUBSET live /\ saved \in [Turns -> SUBSET live]

\* While an effect is claimed and its receipt is missing, its turn holds the
\* session: nothing else may start there, whoever stops, fails or restarts.
ClaimHoldsLease ==
  \A a \in Approvals : approval[a].state = "executing" =>
     /\ session.turn = approval[a].turn
     /\ session.state \in {"awaiting_approval", "control_blocked"}

\* An approval is one attempt: its effect is carried out at most once, over
\* two deciders, a stop and a restart, and never if the row says it was not.
OneAttempt ==
  \A a \in Approvals :
     /\ did[a] <= 1
     /\ approval[a].state \in {"none", "pending", "denied", "cancelled"} => did[a] = 0

\* Call i can still act for turn t.
Works(i, t) ==
  Turn(i) = t /\ call[i].pc \in {"acquired", "loop", "tool", "receipt", "resumed", "resuming"}

\* A turn whose stop was accepted is never reported as completed or failed,
\* whichever of its executor and the owner comes first.
StopWins == \A t \in Turns : outcome[t] \in {"completed", "failed"} => control[t] = "none"

\* "stopped" is proof: the turn has given up the session, and none of its
\* approvals is open or in doubt.  If no decision on it was ever carried out, so
\* that one executor has had it, no goroutine is left that could act for it, and
\* a command of it still runs only where the process asked no more after it: it
\* outlived a crash, or its cancellation was requested through the tool.
StoppedIsQuiet ==
  \A t \in Turns : control[t] = "stopped" =>
     /\ session.turn # t
     /\ \A a \in Approvals : approval[a].turn = t =>
          approval[a].state \notin {"pending", "executing", "uncertain"}
     /\ (\A a \in Approvals : approval[a].turn = t => approval[a].state = "cancelled") =>
          t \notin Counted /\ \A i \in Calls : ~Works(i, t)

\* The lease is released when execution is confirmed to have ended: "the
\* session must not be active while a tool still works".
StoppedIsOver ==
  \A t \in Turns, i \in Calls :
     control[t] = "stopped" =>
       ~(Turn(i) = t /\ call[i].pc \in {"loop", "tool"})

\* Until a stop is confirmed the turn keeps its session, also across
\* restarts; only a turn whose continuation was blocked has given it up.
UnconfirmedKeepsLease ==
  \A t \in Turns : /\ Up /\ control[t] \in {"stopping", "needs_review"}
                    /\ outcome[t] # "blocked"
                   => session.turn = t

\* A message that changes direction starts only after the turn that it was
\* sent to has stopped; and what the queue calls completed has completed.
QueueIsTruthful ==
  \A m \in Messages :
     /\ message[m].mode = "steer" /\ message[m].turn # None
          => control[message[m].base] = "stopped"
     /\ message[m].state = "completed" => outcome[message[m].turn] = "completed"

\* A stop request is never orphaned: as long as it is not settled, a call
\* is under way that settles it, or that has still to look for it.
StopHasAnOwner ==
  \A t \in Turns : Up /\ control[t] = "stopping" =>
     \E i \in Calls : /\ Turn(i) = t
                      /\ \/ call[i].registered
                         \/ call[i].pc \in {"acquired", "observe", "settle", "ended"}

\* A pending approval can be decided: recovery hands an effect that did not
\* happen back "so the same call can be approved again".
PendingIsDecidable ==
  \A a \in Approvals : Up /\ approval[a].state = "pending" => session.turn = approval[a].turn

\* Whatever the goroutines and the recovery do, what the rows tell is the history
\* of a session: turns one at a time, each ended once, and effects carried out
\* only under a claim of the turn that has the session.
History == INSTANCE SessionHistory WITH Effects <- Approvals, holder <- session.turn,
             ending <- outcome, stop <- control, effect <- approval, done <- did
FollowsHistory == History!Spec
=============================================================================
