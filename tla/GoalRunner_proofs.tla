------------------------- MODULE GoalRunner_proofs -------------------------
(***************************************************************************)
(* What holds of a goal for any number of workers, any consent and any     *)
(* number of events: types, that nobody acts on it but the holder of a     *)
(* claim that was charged, that nothing overtakes the owner's stop, that   *)
(* it is completed only while its gates pass, and that its command does    *)
(* not outlive it.                                                         *)
(*                                                                         *)
(* What an action does to the hands is said once, by lemma HandMoves: one  *)
(* hand moves, to a place where one acts only if it acted before.          *)
(***************************************************************************)
EXTENDS GoalRunner, TLAPS

\* A goal that is claimed is still going, or was stopped under its claim.
ClaimedIsLive == Claimed => goal.state \in {"active", "stopping"}

(***************************************************************************)
(* A worker that is about to charge has read a budget that was not used    *)
(* up.  The number of actions is what the charge compares; that no attempt *)
(* was charged either follows from it, because an attempt is an action.    *)
(***************************************************************************)
ReadTheBudget(h) ==
  h.pc = "charge" =>
     /\ h.used < MaxActions /\ h.used <= goal.actions
     /\ h.action = "attempt" /\ goal.actions = h.used => goal.attempts < MaxAttempts

\* What ends an action has decided what becomes of the goal.
HasOutcome(h) == h.pc \in {"finish", "commit"} => h.outcome \in GoalStates

IInv == /\ GoalTypeOK /\ ChargedBeforeActing /\ ClaimedIsLive
        /\ \A w \in Workers : ReadTheBudget(hand[w]) /\ HasOutcome(hand[w])

\* A step neither charges the goal nor passes its claim on.
GoalKept ==
  /\ goal'.actions = goal.actions /\ goal'.attempts = goal.attempts
  /\ goal'.claim = goal.claim
  /\ goal'.claim # Nobody => goal'.state \in {"active", "stopping"}

\* The rows, but not the hands.
RowsOK ==
  /\ goal \in [state : GoalStates, claim : Workers \cup {Nobody}, actions : Nat, attempts : Nat, expected : Nat]
  /\ task \in [revision : Nat, revised : BOOLEAN, passing : BOOLEAN]
  /\ step \in [stage : WorkStages, attempt : Attempts]
  /\ run \in {"none", "running", "paused", "failed"}
  /\ check \in [state : {"none", "active", "completed", "failed", "interrupted"}, op : BOOLEAN, job : BOOLEAN]
  /\ effect \in {"none", "planned", "dispatched", "observed", "uncertain", "abandoned", "reconciled"}
  /\ job \in {"none", "inserted", "live", "ending", "completed", "failed", "canceled", "interrupted"}
  /\ late \in BOOLEAN /\ events \in Nat

\* What a hand looks like after it is done.
LEMMA IdleIsPlaced == IdleHand \in HandRow /\ IdleHand.pc = "idle"
BY DEF HandRow, IdleHand, HandPlaces

LEMMA CancelIsPlaced ==
  [IdleHand EXCEPT !.pc = "cancel"] \in HandRow /\ [IdleHand EXCEPT !.pc = "cancel"].pc = "cancel"
<1>1. "cancel" \in HandPlaces
  BY DEF HandPlaces
<1>2. QED
  BY <1>1, IdleIsPlaced DEF HandRow

(***************************************************************************)
(* One hand moves: nothing about the claim changes for the others.         *)
(***************************************************************************)
LEMMA HandMoves ==
  ASSUME IInv, RowsOK', GoalKept, NEW a \in Actors, NEW h \in HandRow,
         hand' = [hand EXCEPT ![a] = h],
         a \in Workers /\ h.pc \in Acting => hand[a].pc \in Acting,
         a \in Workers => ReadTheBudget(h) /\ HasOutcome(h)
  PROVE  IInv'
<1>1. hand' \in [Actors -> HandRow] /\ \A b \in Actors : hand'[b] = IF b = a THEN h ELSE hand[b]
  BY DEF IInv, GoalTypeOK
<1>2. GoalTypeOK'
  BY <1>1 DEF RowsOK, GoalTypeOK
<1>3. ChargedBeforeActing'
  BY <1>1 DEF IInv, ChargedBeforeActing, Actors, GoalKept
<1>4. ASSUME NEW w \in Workers
      PROVE  ReadTheBudget(hand[w])' /\ HasOutcome(hand[w])'
  BY <1>1 DEF IInv, ReadTheBudget, HasOutcome, Actors, GoalKept
<1>5. QED
  BY <1>2, <1>3, <1>4 DEF IInv, ClaimedIsLive, Claimed, GoalKept

LEMMA HandStays ==
  ASSUME IInv, RowsOK', GoalKept, UNCHANGED hand
  PROVE  IInv'
<1>1. GoalTypeOK'
  BY DEF IInv, RowsOK, GoalTypeOK
<1>2. QED
  BY <1>1 DEF IInv, ChargedBeforeActing, ReadTheBudget, HasOutcome, ClaimedIsLive, Claimed, GoalKept

LEMMA MovesOn ==
  ASSUME IInv, RowsOK', GoalKept, NEW a \in Actors, NEW p \in HandPlaces \ {"charge", "finish", "commit"},
         Move(a, p), a \in Workers /\ p \in Acting => hand[a].pc \in Acting
  PROVE  IInv'
<1> DEFINE h == [hand[a] EXCEPT !.pc = p]
<1>1. hand[a] \in HandRow
  BY DEF IInv, GoalTypeOK
<1>2. h \in HandRow /\ h.pc = p
  BY <1>1 DEF HandRow
<1>3. hand' = [hand EXCEPT ![a] = h]
  BY DEF Move
<1> HIDE DEF h
<1>4. ReadTheBudget(h) /\ HasOutcome(h)
  BY <1>2 DEF ReadTheBudget, HasOutcome
<1>5. QED
  BY <1>2, <1>3, <1>4, HandMoves

LEMMA LetsGo ==
  ASSUME IInv, RowsOK', GoalKept, NEW a \in Actors, Done(a) \/ CleanUp(a)
  PROVE  IInv'
<1>1. PICK h \in {IdleHand, [IdleHand EXCEPT !.pc = "cancel"]} : hand' = [hand EXCEPT ![a] = h]
  BY DEF Done, CleanUp
<1>2. h \in HandRow /\ h.pc \in {"idle", "cancel"}
  BY <1>1, IdleIsPlaced, CancelIsPlaced
<1>3. ReadTheBudget(h) /\ HasOutcome(h) /\ h.pc \notin Acting
  BY <1>2 DEF ReadTheBudget, HasOutcome, Acting
<1>4. QED
  BY <1>1, <1>2, <1>3, HandMoves

LEMMA IsOver ==
  ASSUME IInv, RowsOK', GoalKept, NEW w \in Workers, NEW o \in GoalStates, Over(w, o), hand[w].pc \in Acting
  PROVE  IInv'
<1> DEFINE h == [hand[w] EXCEPT !.pc = "finish", !.outcome = o]
<1>1. w \in Actors /\ hand[w] \in HandRow
  BY DEF IInv, GoalTypeOK, Actors
<1>2. "finish" \in HandPlaces
  BY DEF HandPlaces
<1>3. h \in HandRow
  BY <1>1, <1>2 DEF HandRow
<1>4. h.pc = "finish" /\ h.outcome = o
  BY <1>1 DEF HandRow
<1>5. hand' = [hand EXCEPT ![w] = h]
  BY DEF Over
<1> HIDE DEF h
<1>6. ReadTheBudget(h) /\ HasOutcome(h)
  BY <1>3, <1>4 DEF ReadTheBudget, HasOutcome
<1>7. QED
  BY <1>1, <1>3, <1>5, <1>6, HandMoves

TaskRow == [revision : Nat, revised : BOOLEAN, passing : BOOLEAN]
GoalRow == [state : GoalStates, claim : Workers \cup {Nobody}, actions : Nat, attempts : Nat, expected : Nat]

LEMMA TaskMoves ==
  ASSUME NEW t \in TaskRow, NEW b \in BOOLEAN
  PROVE  [t EXCEPT !.revision = @ + 1] \in TaskRow /\ [t EXCEPT !.revision = @ + 1, !.passing = b] \in TaskRow
<1> DEFINE n == t.revision + 1
<1>1. n \in Nat
  BY DEF TaskRow
<1>2. /\ [t EXCEPT !.revision = @ + 1] = [t EXCEPT !.revision = n]
      /\ [t EXCEPT !.revision = @ + 1, !.passing = b] = [t EXCEPT !.revision = n, !.passing = b]
  OBVIOUS
<1> HIDE DEF n
<1>3. QED
  BY <1>1, <1>2, Zenon DEF TaskRow

LEMMA RowsTyped == IInv => RowsOK
BY DEF IInv, GoalTypeOK, RowsOK

LEMMA OwnerMoves ==
  ASSUME IInv, RowsOK', GoalKept, NEW h \in HandRow, hand' = [hand EXCEPT ![Owner] = h]
  PROVE  IInv'
BY HandMoves, GoalRunnerAssumption DEF Actors

-----------------------------------------------------------------------------
(* The steps.                                                              *)

LEMMA InitGood == GoalInit => IInv
<1> SUFFICES ASSUME GoalInit PROVE IInv
  OBVIOUS
<1>1. GoalTypeOK
  <2>1. RowsOK
    <3>1. step \in [stage : WorkStages, attempt : Attempts]
      BY DEF GoalInit, WorkStages, Attempts
    <3>2. QED
      BY <3>1 DEF GoalInit, RowsOK, NoCheck, GoalStates
  <2>2. QED
    BY <2>1, IdleIsPlaced DEF GoalInit, GoalTypeOK, RowsOK
<1>2. \A w \in Workers : hand[w].pc = "idle"
  BY DEF GoalInit, Actors, IdleHand
<1>3. QED
  BY <1>1, <1>2, GoalRunnerAssumption
     DEF IInv, GoalInit, ChargedBeforeActing, Acting, ClaimedIsLive, Claimed, ReadTheBudget, HasOutcome

\* Reads, and what becomes of a goal that cannot be advanced.
LEMMA LooksStep ==
  ASSUME IInv, NEW w \in Workers, LookAtGoal(w) \/ ConsentIsVoid(w) \/ WaitGoal(w)
  PROVE  IInv'
<1> USE DEF RowsOK, work, command, outside
<1>1. RowsOK /\ w \in Actors /\ hand[w] \in HandRow
  BY RowsTyped DEF IInv, GoalTypeOK, Actors
<1>2. CASE LookAtGoal(w)
  <2>1. RowsOK' /\ GoalKept
    BY <1>1, <1>2 DEF LookAtGoal, GoalKept, IInv, ClaimedIsLive, Claimed
  <2>2. CASE Move(w, "wait")
    BY <1>1, <2>1, <2>2, MovesOn DEF HandPlaces, Acting
  <2>3. CASE Current /\ NextGoalAction # "wait"
    <3> DEFINE h == [hand[w] EXCEPT !.pc = "claim", !.action = NextGoalAction]
    <3>1. NextGoalAction \in GoalActions
      BY <1>1, <2>3 DEF NextGoalAction, GoalActions, WorkStages
    <3>2. "claim" \in HandPlaces \ Acting
      BY DEF HandPlaces, Acting
    <3>3. h \in HandRow /\ h.pc = "claim"
      BY <1>1, <3>1, <3>2 DEF HandRow
    <3>4. hand' = [hand EXCEPT ![w] = h]
      BY <1>2, <2>3 DEF LookAtGoal
    <3> HIDE DEF h
    <3>5. QED
      BY <1>1, <2>1, <3>2, <3>3, <3>4, HandMoves DEF ReadTheBudget, HasOutcome
  <2>4. QED
    BY <1>2, <2>2, <2>3 DEF LookAtGoal
<1>3. CASE ConsentIsVoid(w)
  BY <1>1, <1>3, MovesOn DEF ConsentIsVoid, Event, GoalKept, IInv, ClaimedIsLive, Claimed, HandPlaces, Acting
<1>4. CASE WaitGoal(w)
  <2>1. RowsOK' /\ GoalKept
    BY <1>1, <1>4 DEF WaitGoal, GoalKept, IInv, ClaimedIsLive, Claimed, GoalStates
  <2>2. QED
    BY <1>1, <1>4, <2>1, LetsGo DEF WaitGoal
<1>5. QED
  BY <1>2, <1>3, <1>4

LEMMA ReadForClaimStep ==
  ASSUME IInv, NEW w \in Workers, ReadForClaim(w)
  PROVE  IInv'
<1> USE DEF RowsOK, work, command, outside
<1>1. RowsOK /\ w \in Actors /\ hand[w] \in HandRow
  BY RowsTyped DEF IInv, GoalTypeOK, Actors
<1>2. RowsOK' /\ GoalKept
  BY <1>1 DEF ReadForClaim, GoalKept, IInv, ClaimedIsLive, Claimed, GoalStates
<1>3. CASE Done(w) \/ CleanUp(w)
  BY <1>1, <1>2, <1>3, LetsGo
<1>4. CASE ~(goal.state # "active" \/ Claimed \/ ~Current) /\ ~OutOfBudget(hand[w].action)
  <2> DEFINE h == [hand[w] EXCEPT !.pc = "charge", !.seen = task.revision, !.used = goal.actions]
  <2>1. "charge" \in HandPlaces \ Acting
    BY DEF HandPlaces, Acting
  <2>2. h \in HandRow /\ h.pc = "charge" /\ h.used = goal.actions /\ h.action = hand[w].action
    BY <1>1, <2>1 DEF HandRow
  <2>3. hand' = [hand EXCEPT ![w] = h] /\ goal' = goal
    BY <1>4 DEF ReadForClaim
  <2> HIDE DEF h
  <2>4. ReadTheBudget(h) /\ HasOutcome(h)
    BY <1>1, <1>4, <2>2, GoalRunnerAssumption DEF OutOfBudget, ReadTheBudget, HasOutcome
  <2>5. QED
    BY <1>1, <1>2, <2>1, <2>2, <2>3, <2>4, HandMoves
<1>5. QED
  BY <1>3, <1>4 DEF ReadForClaim

LEMMA ClaimStep ==
  ASSUME IInv, NEW w \in Workers, ClaimGoalAction(w)
  PROVE  IInv'
<1> USE DEF RowsOK, work, command, outside
<1>1. RowsOK /\ w \in Actors /\ hand[w] \in HandRow
  BY RowsTyped DEF IInv, GoalTypeOK, Actors
<1>2. CASE ~Claimable(w)
  <2>1. UNCHANGED goal /\ Done(w)
    BY <1>2 DEF ClaimGoalAction
  <2>2. RowsOK' /\ GoalKept
    BY <1>1, <2>1 DEF ClaimGoalAction, GoalKept, IInv, ClaimedIsLive, Claimed
  <2>3. QED
    BY <1>1, <2>1, <2>2, LetsGo
<1>3. CASE Claimable(w)
  <2> DEFINE p == CASE hand[w].action = "verify" -> "create"
                    [] hand[w].action = "verify_collect" -> "scope"
                    [] OTHER -> "act"
             h == [hand[w] EXCEPT !.pc = p, !.seen = 0, !.used = 0]
  <2>1. p \in HandPlaces /\ p \in Acting /\ p \notin {"charge", "finish", "commit"}
    BY DEF HandPlaces, Acting
  <2> HIDE DEF p
  <2>2. h \in HandRow /\ h.pc = p
    BY <1>1, <2>1 DEF HandRow
  <2>3. hand' = [hand EXCEPT ![w] = h]
    BY <1>3 DEF ClaimGoalAction, p
  <2> HIDE DEF h
  <2>4. hand' \in [Actors -> HandRow] /\ \A b \in Actors : hand'[b] = IF b = w THEN h ELSE hand[b]
    BY <1>1, <2>2, <2>3 DEF IInv, GoalTypeOK
  <2>5. /\ goal.state = "active" /\ goal.claim = Nobody /\ goal.actions = hand[w].used
        /\ hand[w].pc = "charge"
    BY <1>3 DEF ClaimGoalAction, Claimable, Claimed, HandAt
  <2>6. /\ goal.actions < MaxActions
        /\ hand[w].action = "attempt" => goal.attempts < MaxAttempts
    BY <2>5 DEF IInv, ReadTheBudget
  <2>7. /\ goal'.state = "active" /\ goal'.claim = w /\ goal'.actions = goal.actions + 1
        /\ goal'.attempts = IF hand[w].action = "attempt" THEN goal.attempts + 1 ELSE goal.attempts
        /\ RowsOK'
    <3> DEFINE m == goal.actions + 1
               n == IF hand[w].action = "attempt" THEN goal.attempts + 1 ELSE goal.attempts
               g == [goal EXCEPT !.claim = w, !.actions = m, !.attempts = n]
    <3>1. goal' = g /\ UNCHANGED <<task, step, run, check, effect, job, late, events>>
      BY <1>3 DEF ClaimGoalAction
    <3>2. m \in Nat /\ n \in Nat /\ goal \in GoalRow /\ w \in Workers \cup {Nobody}
      BY <1>1 DEF GoalRow
    <3> HIDE DEF m, n
    <3>3. g \in GoalRow /\ g.state = goal.state /\ g.claim = w /\ g.actions = m /\ g.attempts = n
      BY <3>2, Zenon DEF GoalRow
    <3> HIDE DEF g
    <3>4. RowsOK'
      BY <1>1, <3>1, <3>3 DEF GoalRow
    <3>5. QED
      BY <2>5, <3>1, <3>3, <3>4 DEF m, n
  <2>8. GoalTypeOK'
    BY <2>4, <2>7 DEF GoalTypeOK
  <2>9. ChargedBeforeActing'
    <3>1. \A b \in Workers : hand[b].pc \notin Acting
      BY <2>5, GoalRunnerAssumption DEF IInv, ChargedBeforeActing
    <3>2. goal'.actions <= MaxActions /\ goal'.attempts <= MaxAttempts
      BY <1>1, <2>6, <2>7, GoalRunnerAssumption DEF IInv, ChargedBeforeActing
    <3>3. QED
      BY <2>4, <2>7, <3>1, <3>2 DEF ChargedBeforeActing, Actors
  <2>10. ASSUME NEW b \in Workers
         PROVE  ReadTheBudget(hand[b])' /\ HasOutcome(hand[b])'
    <3>1. CASE b = w
      BY <2>1, <2>2, <2>4, <3>1, <1>1 DEF ReadTheBudget, HasOutcome
    <3>2. CASE b # w
      <4>1. hand'[b] = hand[b] /\ ReadTheBudget(hand[b]) /\ HasOutcome(hand[b]) /\ hand[b] \in HandRow
        BY <2>4, <3>2 DEF IInv, Actors, GoalTypeOK
      <4>2. QED
        BY <1>1, <2>7, <4>1 DEF ReadTheBudget, HasOutcome, HandRow
    <3>3. QED
      BY <3>1, <3>2
  <2>11. QED
    BY <2>7, <2>8, <2>9, <2>10 DEF IInv, ClaimedIsLive
<1>4. QED
  BY <1>2, <1>3

\* An action is carried out, or fails.
LEMMA PerformStep ==
  ASSUME IInv, NEW w \in Workers, PerformAction(w) \/ ActionFails(w)
  PROVE  IInv'
<1> USE DEF RowsOK, work, command, outside
<1>1. RowsOK
  BY RowsTyped
<1>2. CASE PerformAction(w)
  <2>1. hand[w].pc \in Acting
    BY <1>2 DEF PerformAction, HandAt, Acting
  <2>2. Over(w, "active") \/ Over(w, "completed") \/ Over(w, "waiting")
    BY <1>2 DEF PerformAction, ApproveReview
  <2>3. GoalKept
    BY <1>2 DEF PerformAction, GoalKept, IInv, ClaimedIsLive, Claimed
  <2>4. step' \in [stage : WorkStages, attempt : Attempts]
    BY <1>1, <1>2 DEF PerformAction, Plan, BeginRun, Attempt, Propose, Approve, Apply, ApproveReview, ResumeReview,
                      FailWork, Set, WorkStages, Attempts
  <2>5. /\ task' \in [revision : Nat, revised : BOOLEAN, passing : BOOLEAN]
        /\ run' \in {"none", "running", "paused", "failed"}
    <3>1. /\ [task EXCEPT !.revision = @ + 1] \in TaskRow
          /\ [task EXCEPT !.revision = @ + 1, !.passing = TRUE] \in TaskRow
      BY <1>1, TaskMoves DEF TaskRow
    <3>2. /\ task' \in {task, [task EXCEPT !.revision = @ + 1], [task EXCEPT !.revision = @ + 1, !.passing = TRUE]}
          /\ run' \in {run, "running", "failed"}
      BY <1>2 DEF PerformAction, Plan, BeginRun, Attempt, Propose, Approve, Apply, ApproveReview, ResumeReview,
                  FailWork, NewRevision
    <3>3. QED
      BY <1>1, <3>1, <3>2 DEF TaskRow
  <2>6. /\ check' \in {check, NoCheck} /\ effect' \in {effect, "none"} /\ job' \in {job, "none"}
        /\ UNCHANGED <<goal, late, events>>
    BY <1>2 DEF PerformAction, Plan, BeginRun, Attempt, Propose, Approve, Apply, ApproveReview, ResumeReview,
                      FailWork
  <2>7. RowsOK'
    <3>1. NoCheck \in [state : {"none", "active", "completed", "failed", "interrupted"}, op : BOOLEAN, job : BOOLEAN]
      BY DEF NoCheck
    <3>2. QED
      BY <1>1, <2>4, <2>5, <2>6, <3>1
  <2>8. QED
    BY <2>1, <2>2, <2>3, <2>7, IsOver DEF GoalStates
<1>3. CASE ActionFails(w)
  <2>1. hand[w].pc \in Acting
    BY <1>3 DEF ActionFails, Acting
  <2>2. RowsOK' /\ GoalKept
    BY <1>1, <1>3 DEF ActionFails, Event, GoalKept, IInv, ClaimedIsLive, Claimed
  <2>3. QED
    BY <1>3, <2>1, <2>2, IsOver DEF ActionFails, GoalStates
<1>4. QED
  BY <1>2, <1>3

(***************************************************************************)
(* The check: every action of it is of the claim's holder, and the         *)
(* checkpoint's type is all that its rows need.                            *)
(***************************************************************************)
CheckRow == [state : {"none", "active", "completed", "failed", "interrupted"}, op : BOOLEAN, job : BOOLEAN]

LEMMA SaveStep ==
  ASSUME IInv, NEW w \in Workers, NEW row \in CheckRow, NEW p \in HandPlaces \ {"charge", "finish", "commit"},
         SaveCheckpoint(w, row, p), hand[w].pc \in Acting, UNCHANGED <<effect, job>>
  PROVE  IInv'
<1> USE DEF RowsOK, work, command, outside
<1>1. RowsOK /\ w \in Actors
  BY RowsTyped DEF Actors
<1>2. RowsOK' /\ GoalKept
  BY <1>1 DEF SaveCheckpoint, CheckRow, GoalKept, IInv, ClaimedIsLive, Claimed
<1>3. CASE Move(w, p)
  BY <1>1, <1>2, <1>3, MovesOn
<1>4. CASE Over(w, "waiting")
  BY <1>1, <1>2, <1>4, IsOver DEF GoalStates
<1>5. QED
  BY <1>3, <1>4 DEF SaveCheckpoint

LEMMA CheckpointStep ==
  ASSUME IInv, NEW w \in Workers,
         CreateCheckpoint(w) \/ SaveOperation(w) \/ Requeue(w) \/ SaveJob(w) \/ CloseCheckpoint(w)
  PROVE  IInv'
<1>1. check \in CheckRow
  BY DEF IInv, GoalTypeOK, CheckRow
<1>2. CASE CreateCheckpoint(w)
  <2>1. [state |-> "active", op |-> FALSE, job |-> FALSE] \in CheckRow
    BY DEF CheckRow
  <2>2. QED
    BY <1>2, <2>1, SaveStep DEF CreateCheckpoint, HandAt, Acting, HandPlaces
<1>3. CASE SaveOperation(w)
  <2>1. [check EXCEPT !.op = TRUE] \in CheckRow
    BY <1>1 DEF CheckRow
  <2>2. QED
    BY <1>3, <2>1, SaveStep DEF SaveOperation, HandAt, Acting, HandPlaces
<1>4. CASE Requeue(w)
  <2>1. [check EXCEPT !.op = FALSE] \in CheckRow
    BY <1>1 DEF CheckRow
  <2>2. QED
    BY <1>4, <2>1, SaveStep DEF Requeue, HandAt, Acting, HandPlaces
<1>5. CASE SaveJob(w)
  <2>1. [check EXCEPT !.job = TRUE] \in CheckRow
    BY <1>1 DEF CheckRow
  <2>2. QED
    BY <1>5, <2>1, SaveStep DEF SaveJob, HandAt, Acting, HandPlaces
<1>6. CASE CloseCheckpoint(w)
  <2> DEFINE row == [check EXCEPT !.state = IF HandAt(w, "closepass") THEN "completed" ELSE "failed"]
  <2>1. row \in CheckRow
    BY <1>1 DEF CheckRow
  <2> HIDE DEF row
  <2>2. SaveCheckpoint(w, row, "pending") /\ UNCHANGED <<effect, job>> /\ hand[w].pc \in Acting
    BY <1>6 DEF CloseCheckpoint, Acting, row
  <2>3. "pending" \in HandPlaces \ {"charge", "finish", "commit"}
    BY DEF HandPlaces
  <2>4. QED
    BY <2>1, <2>2, <2>3, SaveStep
<1>7. QED
  BY <1>2, <1>3, <1>4, <1>5, <1>6

LEMMA CheckStep ==
  ASSUME IInv, NEW w \in Workers,
         \/ ReadCheckpoint(w) \/ PlanCheck(w) \/ DispatchCheck(w) \/ LaunchCheck(w) \/ RegisterCancel(w)
         \/ EndPending(w) \/ CollectCheck(w) \/ FinishCheck(w) \/ RollbackCheck(w)
  PROVE  IInv'
<1> USE DEF RowsOK, work, command, outside
<1>1. RowsOK /\ w \in Actors
  BY RowsTyped DEF Actors
<1>2. GoalKept
  BY DEF ReadCheckpoint, PlanCheck, DispatchCheck, LaunchCheck, RegisterCancel, EndPending, CollectCheck,
         FinishCheck, RollbackCheck, GoalKept, IInv, ClaimedIsLive, Claimed
<1>3. hand[w].pc \in Acting
  BY DEF ReadCheckpoint, PlanCheck, DispatchCheck, LaunchCheck, RegisterCancel, EndPending, CollectCheck,
         FinishCheck, RollbackCheck, HandAt, Acting
<1>4. /\ step' \in [stage : WorkStages, attempt : Attempts]
      /\ step' = step \/ FinishCheck(w) \/ RollbackCheck(w)
  <2>1. CASE FinishCheck(w)
    <3> DEFINE s == IF step.stage = "verify" THEN "review" ELSE step.stage
    <3>1. s \in WorkStages
      BY <1>1 DEF WorkStages
    <3> HIDE DEF s
    <3>2. [step EXCEPT !.stage = s] \in [stage : WorkStages, attempt : Attempts]
      BY <1>1, <3>1
    <3>3. step' = [step EXCEPT !.stage = s]
      BY <2>1 DEF FinishCheck, s
    <3>4. QED
      BY <2>1, <3>2, <3>3
  <2>2. CASE RollbackCheck(w)
    BY <2>2 DEF RollbackCheck, FailWork, Set, WorkStages, Attempts
  <2>3. CASE ~FinishCheck(w) /\ ~RollbackCheck(w)
    BY <1>1, <2>3 DEF ReadCheckpoint, PlanCheck, DispatchCheck, LaunchCheck, RegisterCancel, EndPending, CollectCheck
  <2>4. QED
    BY <2>1, <2>2, <2>3
<1>5. task' \in TaskRow /\ run' \in {run, "failed"}
  <2>1. [task EXCEPT !.revision = @ + 1] \in TaskRow
    BY <1>1, TaskMoves DEF TaskRow
  <2>2. task' \in {task, [task EXCEPT !.revision = @ + 1]} /\ run' \in {run, "failed"}
    BY DEF ReadCheckpoint, PlanCheck, DispatchCheck, LaunchCheck, RegisterCancel, EndPending, CollectCheck,
           FinishCheck, RollbackCheck, FailWork, NewRevision
  <2>3. QED
    BY <1>1, <2>1, <2>2 DEF TaskRow
<1>6. /\ UNCHANGED <<goal, check, late, events>>
      /\ effect' \in {effect, "planned", "dispatched", "observed"} /\ job' \in {job, "inserted", "live"}
  BY DEF ReadCheckpoint, PlanCheck, DispatchCheck, LaunchCheck, RegisterCancel, EndPending, CollectCheck,
         FinishCheck, RollbackCheck, FailWork
<1>7. RowsOK'
  BY <1>1, <1>4, <1>5, <1>6 DEF TaskRow
<1>8. PICK p \in {"plan", "dispatch", "savejob", "collect", "saveop", "launch", "register", "requeue", "rollback",
                  "pass", "closepass", "closefail"} : Move(w, p) \/ Over(w, "active")
  BY <1>1 DEF ReadCheckpoint, PlanCheck, DispatchCheck, LaunchCheck, RegisterCancel, EndPending, CollectCheck,
              FinishCheck, RollbackCheck
<1>9. p \in HandPlaces \ {"charge", "finish", "commit"} /\ "active" \in GoalStates
  BY <1>8 DEF HandPlaces, GoalStates
<1>10. QED
  BY <1>1, <1>2, <1>3, <1>7, <1>8, <1>9, MovesOn, IsOver

-----------------------------------------------------------------------------
(* The end of an action, the owner, and the outside.                       *)

LEMMA ReadForFinishStep ==
  ASSUME IInv, NEW w \in Workers, ReadForFinish(w)
  PROVE  IInv'
<1> USE DEF RowsOK, work, command, outside
<1>1. RowsOK /\ w \in Actors /\ hand[w] \in HandRow
  BY RowsTyped DEF IInv, GoalTypeOK, Actors
<1>2. PICK cut \in BOOLEAN :
        /\ job' = IF cut /\ effect = "dispatched" THEN Cancelled ELSE job
        /\ hand' = [hand EXCEPT ![w].pc = "commit", ![w].seen = task.revision, ![w].cut = cut,
                     ![w].outcome = CASE goal.state = "stopping" -> "stopped"
                                      [] late /\ @ # "completed" /\ goal.state # "stopping" -> "budget_exhausted"
                                      [] OTHER -> @]
  BY DEF ReadForFinish
<1> DEFINE o == CASE goal.state = "stopping" -> "stopped"
                  [] late /\ hand[w].outcome # "completed" /\ goal.state # "stopping" -> "budget_exhausted"
                  [] OTHER -> hand[w].outcome
           h == [hand[w] EXCEPT !.pc = "commit", !.seen = task.revision, !.cut = cut, !.outcome = o]
<1>3. hand' = [hand EXCEPT ![w] = h]
  BY <1>2
<1>4. o \in GoalStates
  BY DEF GoalStates, ReadForFinish, HandAt, IInv, HasOutcome
<1>5. "commit" \in HandPlaces /\ "commit" \in Acting /\ hand[w].pc \in Acting
  BY DEF HandPlaces, Acting, ReadForFinish, HandAt
<1> HIDE DEF o
<1>6. h \in HandRow /\ h.pc = "commit" /\ h.outcome = o
  BY <1>1, <1>4, <1>5 DEF HandRow
<1> HIDE DEF h
<1>7. RowsOK' /\ GoalKept
  BY <1>1, <1>2 DEF ReadForFinish, Cancelled, GoalKept, IInv, ClaimedIsLive, Claimed
<1>8. ReadTheBudget(h) /\ HasOutcome(h)
  BY <1>4, <1>6 DEF ReadTheBudget, HasOutcome
<1>9. QED
  BY <1>1, <1>3, <1>5, <1>6, <1>7, <1>8, HandMoves

\* The transaction gives the claim back: nobody else acted under it.
LEMMA FinishStep ==
  ASSUME IInv, NEW w \in Workers, FinishGoalAction(w)
  PROVE  IInv'
<1> USE DEF RowsOK, work, command, outside
<1>1. RowsOK /\ w \in Actors /\ hand[w] \in HandRow
  BY RowsTyped DEF IInv, GoalTypeOK, Actors
<1>2. GoalOutcome(w) \in GoalStates
  BY DEF FinishGoalAction, HandAt, IInv, HasOutcome, GoalOutcome, GoalStates
<1>3. /\ goal' \in GoalRow /\ goal'.claim = Nobody
      /\ goal'.actions = goal.actions /\ goal'.attempts = goal.attempts
  <2> DEFINE g == [goal EXCEPT !.state = GoalOutcome(w), !.claim = Nobody, !.expected = task.revision]
  <2>1. goal \in GoalRow /\ task.revision \in Nat /\ goal' = g
    BY <1>1 DEF GoalRow, FinishGoalAction
  <2>2. g \in GoalRow /\ g.claim = Nobody /\ g.actions = goal.actions /\ g.attempts = goal.attempts
    BY <1>2, <2>1, Zenon DEF GoalRow
  <2>3. QED
    BY <2>1, <2>2
<1>4. RowsOK'
  BY <1>1, <1>3 DEF GoalRow, FinishGoalAction
<1>5. PICK h \in {IdleHand, [IdleHand EXCEPT !.pc = "cancel"]} : hand' = [hand EXCEPT ![w] = h]
  BY DEF FinishGoalAction, Done, CleanUp
<1>6. h \in HandRow /\ h.pc \in {"idle", "cancel"}
  BY <1>5, IdleIsPlaced, CancelIsPlaced
<1>7. hand' \in [Actors -> HandRow] /\ \A b \in Actors : hand'[b] = IF b = w THEN h ELSE hand[b]
  BY <1>1, <1>5, <1>6 DEF IInv, GoalTypeOK
<1>8. GoalTypeOK'
  BY <1>4, <1>7 DEF GoalTypeOK
<1>9. \A b \in Workers : hand'[b].pc \notin Acting
  <2>1. hand[w].pc \in Acting
    BY DEF FinishGoalAction, HandAt, Acting
  <2>2. \A b \in Workers : b # w => hand[b].pc \notin Acting
    BY <2>1, GoalRunnerAssumption DEF IInv, ChargedBeforeActing
  <2>3. QED
    BY <1>6, <1>7, <2>2 DEF Actors, Acting
<1>10. ASSUME NEW b \in Workers
       PROVE  ReadTheBudget(hand[b])' /\ HasOutcome(hand[b])'
  BY <1>3, <1>6, <1>7 DEF IInv, ReadTheBudget, HasOutcome, Actors
<1>11. QED
  BY <1>3, <1>8, <1>9, <1>10 DEF IInv, ChargedBeforeActing, ClaimedIsLive, Claimed

\* The commands of a goal are cancelled and its run is interrupted.
LEMMA CleanUpStep ==
  ASSUME IInv, NEW a \in Actors, CancelGoalCommands(a) \/ ReadForInterrupt(a) \/ InterruptGoalExecution(a)
  PROVE  IInv'
<1> USE DEF RowsOK, work, command, outside
<1>1. RowsOK /\ hand[a] \in HandRow
  BY RowsTyped DEF IInv, GoalTypeOK
<1>2. GoalKept
  BY DEF CancelGoalCommands, ReadForInterrupt, InterruptGoalExecution, GoalKept, IInv, ClaimedIsLive, Claimed
<1>3. CASE CancelGoalCommands(a)
  <2>1. RowsOK'
    BY <1>1, <1>3 DEF CancelGoalCommands, Cancelled
  <2>2. CASE Done(a)
    BY <1>2, <2>1, <2>2, LetsGo
  <2>3. CASE Move(a, "interrupt")
    BY <1>2, <2>1, <2>3, MovesOn DEF HandPlaces, Acting
  <2>4. QED
    BY <1>3, <2>2, <2>3 DEF CancelGoalCommands
<1>4. CASE ReadForInterrupt(a)
  <2>1. RowsOK'
    BY <1>1, <1>4 DEF ReadForInterrupt
  <2>2. CASE Done(a)
    BY <1>2, <2>1, <2>2, LetsGo
  <2>3. CASE AtRest
    <3> DEFINE h == [hand[a] EXCEPT !.pc = "pause", !.seen = task.revision]
    <3>1. "pause" \in HandPlaces \ Acting
      BY DEF HandPlaces, Acting
    <3>2. h \in HandRow /\ h.pc = "pause"
      BY <1>1, <3>1 DEF HandRow
    <3>3. hand' = [hand EXCEPT ![a] = h]
      BY <1>4, <2>3 DEF ReadForInterrupt
    <3> HIDE DEF h
    <3>4. QED
      BY <1>2, <2>1, <3>1, <3>2, <3>3, HandMoves DEF ReadTheBudget, HasOutcome
  <2>4. QED
    BY <1>4, <2>2, <2>3 DEF ReadForInterrupt
<1>5. CASE InterruptGoalExecution(a)
  <2>1. Done(a) /\ UNCHANGED <<goal, check, job, outside>>
    BY <1>5 DEF InterruptGoalExecution
  <2>2. CASE UNCHANGED <<work, effect>>
    BY <1>1, <1>2, <2>1, <2>2, LetsGo
  <2>3. CASE ~UNCHANGED <<work, effect>>
    <3> DEFINE s == IF step.attempt = "running" THEN "interrupted" ELSE step.attempt
               n == IF step.stage \notin {"finish", "done"} THEN task.revision + 1 ELSE task.revision
    <3>1. /\ run' = "paused" /\ step' = [step EXCEPT !.attempt = s] /\ task' = [task EXCEPT !.revision = n]
          /\ effect' \in {"abandoned", "uncertain", effect}
      BY <1>5, <2>3 DEF InterruptGoalExecution
    <3>2. s \in Attempts /\ n \in Nat
      BY <1>1 DEF Attempts
    <3> HIDE DEF s, n
    <3>3. RowsOK'
      BY <1>1, <2>1, <3>1, <3>2
    <3>4. QED
      BY <1>2, <2>1, <3>3, LetsGo
  <2>4. QED
    BY <2>2, <2>3
<1>6. QED
  BY <1>3, <1>4, <1>5

LEMMA OwnerStep ==
  ASSUME IInv, StopGoal \/ StopIsCutOff \/ ResumeGoal
  PROVE  IInv'
<1> USE DEF RowsOK, work, command, outside
<1>1. RowsOK
  BY RowsTyped
<1>2. CASE StopGoal
  <2> DEFINE s == IF goal.state \in {"active", "waiting", "stopping"}
                    THEN IF Claimed THEN "stopping" ELSE "stopped"
                    ELSE goal.state
             h == [IdleHand EXCEPT !.pc = "cancel", !.outcome = s]
  <2>1. s \in GoalStates /\ (Claimed => s \in {"active", "stopping"})
    BY <1>1 DEF GoalStates, IInv, ClaimedIsLive
  <2>2. goal' = [goal EXCEPT !.state = s] /\ hand' = [hand EXCEPT ![Owner] = h]
    BY <1>2 DEF StopGoal
  <2> HIDE DEF s
  <2>3. RowsOK'
    BY <1>1, <1>2, <2>1, <2>2 DEF StopGoal
  <2>4. GoalKept
    BY <1>1, <2>1, <2>2 DEF GoalKept, Claimed
  <2>5. "cancel" \in HandPlaces
    BY DEF HandPlaces
  <2>6. h \in HandRow
    BY <2>1, <2>5, IdleIsPlaced DEF HandRow
  <2> HIDE DEF h
  <2>7. QED
    BY <2>2, <2>3, <2>4, <2>6, OwnerMoves
<1>3. CASE StopIsCutOff
  <2> DEFINE h == [IdleHand EXCEPT !.cut = TRUE]
  <2>1. h \in HandRow /\ hand' = [hand EXCEPT ![Owner] = h]
    BY <1>3, IdleIsPlaced DEF HandRow, StopIsCutOff
  <2>2. RowsOK' /\ GoalKept
    BY <1>1, <1>3 DEF StopIsCutOff, Event, GoalKept, IInv, ClaimedIsLive, Claimed
  <2> HIDE DEF h
  <2>3. QED
    BY <2>1, <2>2, OwnerMoves
<1>4. CASE ResumeGoal
  <2> DEFINE g == [goal EXCEPT !.state = "active", !.expected = task.revision]
  <2>0. /\ g \in GoalRow /\ g.claim = goal.claim /\ g.state = "active"
        /\ g.actions = goal.actions /\ g.attempts = goal.attempts
    BY <1>1 DEF GoalRow, GoalStates
  <2>a. goal' = g /\ UNCHANGED <<hand, work, command, late>> /\ events' = events + 1
    BY <1>4 DEF ResumeGoal, Event
  <2> HIDE DEF g
  <2>1. RowsOK' /\ GoalKept /\ UNCHANGED hand
    BY <1>1, <2>0, <2>a DEF GoalKept, GoalRow
  <2>2. QED
    BY <2>1, HandStays
<1>5. QED
  BY <1>2, <1>3, <1>4

LEMMA OutsideStep ==
  ASSUME IInv, EndCommand \/ OutsideChange \/ ReconcileCheck \/ DeadlinePasses
  PROVE  IInv'
<1> USE DEF RowsOK, work, command, outside
<1>1. RowsOK
  BY RowsTyped
<1>2. UNCHANGED <<goal, hand, step, run, check>> /\ GoalKept
  BY DEF EndCommand, OutsideChange, ReconcileCheck, DeadlinePasses, GoalKept, IInv, ClaimedIsLive, Claimed
<1>3. task' \in TaskRow
  <2>1. CASE OutsideChange
    <3>1. CASE \E revised \in {task.revised, TRUE} : task' = [task EXCEPT !.revision = @ + 1, !.revised = revised]
      <4> DEFINE n == task.revision + 1
      <4>1. PICK revised \in BOOLEAN : task' = [task EXCEPT !.revision = n, !.revised = revised]
        BY <1>1, <3>1
      <4>2. n \in Nat /\ task \in TaskRow
        BY <1>1 DEF TaskRow
      <4> HIDE DEF n
      <4>3. QED
        BY <4>1, <4>2, Zenon DEF TaskRow
    <3>2. CASE task' = [task EXCEPT !.passing = FALSE] \/ task' = [task EXCEPT !.passing = TRUE]
      BY <1>1, <3>2 DEF TaskRow
    <3>3. QED
      BY <2>1, <3>1, <3>2 DEF OutsideChange
  <2>2. CASE EndCommand \/ ReconcileCheck \/ DeadlinePasses
    BY <1>1, <2>2 DEF EndCommand, ReconcileCheck, DeadlinePasses, TaskRow
  <2>3. QED
    BY <2>1, <2>2
<1>4. /\ effect' \in {effect, "reconciled"} /\ job' \in {job, "completed", "failed", "canceled"}
      /\ late' \in {late, TRUE} /\ events' \in {events, events + 1}
  BY DEF EndCommand, OutsideChange, ReconcileCheck, DeadlinePasses, Event
<1>4a. goal' = goal /\ step' = step /\ run' = run /\ check' = check
  BY <1>2
<1>5. RowsOK'
  <2>1. effect' \in {"none", "planned", "dispatched", "observed", "uncertain", "abandoned", "reconciled"}
    BY <1>1, <1>4
  <2>2. job' \in {"none", "inserted", "live", "ending", "completed", "failed", "canceled", "interrupted"}
    BY <1>1, <1>4
  <2>3. late' \in BOOLEAN
    BY <1>1, <1>4
  <2>4. events' \in Nat
    BY <1>1, <1>4
  <2>5. QED
    BY <1>1, <1>3, <1>4a, <2>1, <2>2, <2>3, <2>4 DEF TaskRow
<1>6. QED
  BY <1>2, <1>5, HandStays

\* A restart takes the claim away, and with it everybody who acted.
LEMMA RestartStep ==
  ASSUME IInv, RestartGoals
  PROVE  IInv'
<1> USE DEF RowsOK, work, command, outside
<1>1. RowsOK
  BY RowsTyped
<1>2. /\ goal' \in GoalRow /\ goal'.claim = Nobody
      /\ goal'.actions = goal.actions /\ goal'.attempts = goal.attempts
  <2> DEFINE s == IF goal.state = "stopping" THEN "stopped" ELSE "waiting"
             g == [goal EXCEPT !.claim = Nobody, !.state = s]
  <2>1. goal \in GoalRow /\ s \in GoalStates
    BY <1>1 DEF GoalRow, GoalStates
  <2>2. g \in GoalRow /\ g.claim = Nobody /\ g.actions = goal.actions /\ g.attempts = goal.attempts
    BY <2>1, Zenon DEF GoalRow
  <2>3. goal' = g \/ (goal' = goal /\ goal.claim = Nobody)
    BY DEF RestartGoals, Claimed
  <2> HIDE DEF g
  <2>4. QED
    BY <2>1, <2>2, <2>3
<1>3. step' \in [stage : WorkStages, attempt : Attempts] /\ task' \in TaskRow /\ check' \in CheckRow
  <2> DEFINE s == IF step.attempt = "running" THEN "interrupted" ELSE step.attempt
             n == IF run = "running" /\ step.stage \notin {"finish", "done"} THEN task.revision + 1 ELSE task.revision
             c == IF check.state = "active" THEN "interrupted" ELSE check.state
  <2>1. /\ step' = [step EXCEPT !.attempt = s] /\ task' = [task EXCEPT !.revision = n]
        /\ check' = [check EXCEPT !.state = c]
    BY DEF RestartGoals
  <2>2. s \in Attempts /\ n \in Nat /\ c \in {"none", "active", "completed", "failed", "interrupted"}
    BY <1>1 DEF Attempts
  <2> HIDE DEF s, n, c
  <2>3. QED
    BY <1>1, <2>1, <2>2 DEF TaskRow, CheckRow
<1>4. /\ effect' \in {effect, "abandoned", "uncertain"} /\ job' \in {job, "interrupted"}
      /\ run' \in {run, "paused"} /\ late' = late /\ events' = events + 1
  BY DEF RestartGoals, Event
<1>5. RowsOK'
  BY <1>1, <1>2, <1>3, <1>4 DEF TaskRow, GoalRow, CheckRow
<1>6. hand' = [a \in Actors |-> IdleHand]
  BY DEF RestartGoals
<1>7. GoalTypeOK'
  BY <1>5, <1>6, IdleIsPlaced DEF GoalTypeOK
<1>8. \A w \in Workers : hand'[w].pc = "idle"
  BY <1>6, IdleIsPlaced DEF Actors
<1>9. QED
  BY <1>2, <1>7, <1>8 DEF IInv, ChargedBeforeActing, Acting, ClaimedIsLive, Claimed, ReadTheBudget, HasOutcome

LEMMA NextGood == IInv /\ [GoalNext]_goalVars => IInv'
<1> SUFFICES ASSUME IInv, [GoalNext]_goalVars PROVE IInv'
  OBVIOUS
<1>1. ASSUME NEW w \in Workers, AdvanceGoal(w)
      PROVE  IInv'
  BY <1>1, LooksStep, ReadForClaimStep, ClaimStep, PerformStep, ReadForFinishStep, FinishStep DEF AdvanceGoal
<1>2. ASSUME NEW w \in Workers, AdvanceGoalVerification(w)
      PROVE  IInv'
  BY <1>2, CheckpointStep, CheckStep DEF AdvanceGoalVerification
<1>3. CASE UNCHANGED goalVars
  BY <1>3 DEF goalVars, IInv, GoalTypeOK, ChargedBeforeActing, ReadTheBudget, HasOutcome, ClaimedIsLive, Claimed
<1>4. QED
  BY <1>1, <1>2, <1>3, CleanUpStep, OwnerStep, OutsideStep, RestartStep DEF GoalNext

LEMMA Inductive == GoalSpec => []IInv
BY InitGood, NextGood, PTL DEF GoalSpec

-----------------------------------------------------------------------------
(* What follows.                                                           *)

\* Types of the goal's row, of what it works on, and of everybody's hand.
THEOREM TypeCorrect == GoalSpec => []GoalTypeOK
<1>1. IInv => GoalTypeOK
  BY DEF IInv
<1>2. QED
  BY <1>1, Inductive, PTL

\* Nobody acts for a goal without its claim, and no more is charged than its
\* owner consented to, whoever reads and claims at the same time.
THEOREM ActsUnderClaim == GoalSpec => []ChargedBeforeActing
<1>1. IInv => ChargedBeforeActing
  BY DEF IInv
<1>2. QED
  BY <1>1, Inductive, PTL

(***************************************************************************)
(* A stopped goal has no claim, so that no action is there to end; and an  *)
(* action that ends under a stop leaves the goal stopped.                  *)
(***************************************************************************)
THEOREM StopIsRespected == GoalSpec => StopTakesPrecedence
<1> DEFINE Stopped == goal.state \in {"stopping", "stopped"}
<1>1. ASSUME IInv, [GoalNext]_goalVars, Stopped
      PROVE  Stopped'
  <2>1. ASSUME NEW w \in Workers, AdvanceGoal(w)
        PROVE  Stopped'
    <3>1. CASE FinishGoalAction(w)
      <4>1. goal.state = "stopping"
        BY <1>1, <3>1, GoalRunnerAssumption
           DEF FinishGoalAction, HandAt, IInv, ChargedBeforeActing, Acting, ClaimedIsLive, Claimed
      <4>2. goal'.state = "stopped"
        BY <1>1, <3>1, <4>1 DEF FinishGoalAction, GoalOutcome, IInv, GoalTypeOK
      <4>3. QED
        BY <4>2
    <3>2. CASE ~FinishGoalAction(w)
      BY <1>1, <2>1, <3>2 DEF AdvanceGoal, LookAtGoal, ConsentIsVoid, WaitGoal, ReadForClaim, ClaimGoalAction,
                              Claimable, PerformAction, ActionFails, ReadForFinish
    <3>3. QED
      BY <3>1, <3>2
  <2>2. ASSUME NEW w \in Workers, AdvanceGoalVerification(w)
        PROVE  Stopped'
    BY <1>1, <2>2 DEF AdvanceGoalVerification, CreateCheckpoint, ReadCheckpoint, PlanCheck, SaveOperation, DispatchCheck,
                      LaunchCheck, RegisterCancel, Requeue, SaveJob, EndPending, CollectCheck, FinishCheck,
                      RollbackCheck, CloseCheckpoint, SaveCheckpoint
  <2>3. ASSUME NEW a \in Actors, CancelGoalCommands(a) \/ ReadForInterrupt(a) \/ InterruptGoalExecution(a)
        PROVE  Stopped'
    BY <1>1, <2>3 DEF CancelGoalCommands, ReadForInterrupt, InterruptGoalExecution
  <2>4. CASE StopGoal \/ StopIsCutOff \/ ResumeGoal
    BY <1>1, <2>4 DEF StopGoal, StopIsCutOff, ResumeGoal, IInv, GoalTypeOK
  <2>5. CASE EndCommand \/ OutsideChange \/ ReconcileCheck \/ DeadlinePasses
    BY <1>1, <2>5 DEF EndCommand, OutsideChange, ReconcileCheck, DeadlinePasses
  <2>6. CASE RestartGoals
    <3> DEFINE s == IF goal.state = "stopping" THEN "stopped" ELSE "waiting"
    <3>1. \/ goal' = goal
          \/ goal' = [goal EXCEPT !.claim = Nobody, !.state = s] /\ (Claimed \/ goal.state = "active")
      BY <2>6 DEF RestartGoals
    <3>2. goal' # goal => goal.state = "stopping"
      BY <1>1, <3>1 DEF IInv, ClaimedIsLive
    <3>3. QED
      BY <1>1, <3>1, <3>2 DEF IInv, GoalTypeOK
  <2>7. CASE UNCHANGED goalVars
    BY <1>1, <2>7 DEF goalVars
  <2>8. QED
    BY <1>1, <2>1, <2>2, <2>3, <2>4, <2>5, <2>6, <2>7 DEF GoalNext
<1>2. IInv /\ [GoalNext]_goalVars =>
        [goal.state \in {"stopping", "stopped"} => goal'.state \in {"stopping", "stopped"}]_goalVars
  BY <1>1
<1>3. QED
  BY <1>2, Inductive, PTL DEF GoalSpec, StopTakesPrecedence

(***************************************************************************)
(* Only the end of an action completes a goal, and its transaction looks   *)
(* at the requirements and at the gates again.                             *)
(***************************************************************************)
THEOREM CompletionIsBacked == GoalSpec => CompletedOnPassingGates
<1>1. ASSUME IInv, [GoalNext]_goalVars, goal.state # "completed", goal'.state = "completed"
      PROVE  task.passing /\ ~task.revised
  <2> USE DEF IInv, GoalTypeOK
  <2>1. ASSUME NEW w \in Workers, AdvanceGoal(w)
        PROVE  task.passing /\ ~task.revised
    <3>1. CASE FinishGoalAction(w)
      <4>1. GoalOutcome(w) = "completed"
        BY <1>1, <3>1 DEF FinishGoalAction
      <4>2. QED
        BY <1>1, <4>1 DEF GoalOutcome, Fenced
    <3>2. CASE ~FinishGoalAction(w)
      BY <1>1, <2>1, <3>2 DEF AdvanceGoal, LookAtGoal, ConsentIsVoid, WaitGoal, ReadForClaim, ClaimGoalAction,
                              PerformAction, ActionFails, ReadForFinish
    <3>3. QED
      BY <3>1, <3>2
  <2>2. ASSUME NEW w \in Workers, AdvanceGoalVerification(w)
        PROVE  FALSE
    BY <1>1, <2>2 DEF AdvanceGoalVerification, CreateCheckpoint, ReadCheckpoint, PlanCheck, SaveOperation, DispatchCheck,
                      LaunchCheck, RegisterCancel, Requeue, SaveJob, EndPending, CollectCheck, FinishCheck,
                      RollbackCheck, CloseCheckpoint, SaveCheckpoint
  <2>3. ASSUME NEW a \in Actors, CancelGoalCommands(a) \/ ReadForInterrupt(a) \/ InterruptGoalExecution(a)
        PROVE  FALSE
    BY <1>1, <2>3 DEF CancelGoalCommands, ReadForInterrupt, InterruptGoalExecution
  <2>4. CASE StopGoal \/ StopIsCutOff \/ ResumeGoal
    BY <1>1, <2>4 DEF StopGoal, StopIsCutOff, ResumeGoal
  <2>5. CASE EndCommand \/ OutsideChange \/ ReconcileCheck \/ DeadlinePasses
    BY <1>1, <2>5 DEF EndCommand, OutsideChange, ReconcileCheck, DeadlinePasses
  <2>6. CASE RestartGoals
    <3> DEFINE s == IF goal.state = "stopping" THEN "stopped" ELSE "waiting"
    <3>1. goal' = goal \/ goal' = [goal EXCEPT !.claim = Nobody, !.state = s]
      BY <2>6 DEF RestartGoals
    <3>2. QED
      BY <1>1, <3>1
  <2>7. CASE UNCHANGED goalVars
    BY <1>1, <2>7 DEF goalVars
  <2>8. QED
    BY <1>1, <2>1, <2>2, <2>3, <2>4, <2>5, <2>6, <2>7 DEF GoalNext
<1>2. IInv /\ [GoalNext]_goalVars =>
        [goal.state # "completed" /\ goal'.state = "completed" => task.passing /\ ~task.revised]_goalVars
  BY <1>1
<1>3. QED
  BY <1>2, Inductive, PTL DEF GoalSpec, CompletedOnPassingGates

-----------------------------------------------------------------------------
(* An ended goal has no command running.                                   *)

Ended == goal.state \in {"stopped", "budget_exhausted"}

\* The states of an effect whose command was launched, or is about to be.
Launched == {"dispatched", "uncertain", "reconciled"}

\* What a command that runs rests on: its effect, a run, and a checkpoint that
\* names its operation, so that no other is planned beside it.
CommandHasBasis ==
  /\ effect \in Launched /\ run # "none"
  /\ check.op /\ check.state # "none"

\* What the place of whoever acts for the goal says of the check.
PlaceFits(pc) ==
  /\ pc \in {"plan", "saveop"} => ~check.op /\ check.state # "none"
  /\ pc \in {"dispatch", "launch"} => check.op /\ check.state # "none"
  /\ pc = "launch" => effect \in Launched /\ run # "none"
  /\ pc \in {"dispatch", "launch", "requeue"} => ~CommandLive
  /\ pc = "register" => job = "inserted"

\* Somebody is about to cancel the command, or was cut off before.
CancelIsDue == hand[Owner].cut \/ \E a \in Actors : HandAt(a, "cancel")

(***************************************************************************)
(* A command is unregistered only while its launcher is under way, with    *)
(* the claim; so it is registered when the goal has ended.  And whoever    *)
(* ends a goal goes on to cancel its command, or is cut off on the way.    *)
(***************************************************************************)
CommandInv ==
  /\ CommandLive => CommandHasBasis
  /\ \A w \in Workers : PlaceFits(hand[w].pc)
  /\ job = "inserted" => \E w \in Workers : HandAt(w, "register")
  /\ Ended => ~Claimed
  /\ Ended /\ CommandLive /\ effect # "reconciled" => CancelIsDue
  /\ hand[Owner].cut => HandAt(Owner, "idle")

OthersStay(a) == \A b \in Actors : b # a => hand'[b] = hand[b]

\* Where nothing is said of the check.
Elsewhere == HandPlaces \ {"plan", "saveop", "dispatch", "launch", "requeue", "register"}

LEMMA ElsewhereFits == ASSUME NEW pc \in Elsewhere PROVE PlaceFits(pc)
BY DEF PlaceFits, Elsewhere

\* A step of the claim's holder: nobody else is at a place of the check.
LEMMA HolderKeeps ==
  ASSUME IInv, CommandInv, NEW w \in Workers, hand[w].pc \in Acting, OthersStay(w), goal' = goal,
         NEW p \in HandPlaces, hand'[w].pc = p,
         (CommandLive => CommandHasBasis)',
         PlaceFits(p)',
         job' = "inserted" => p = "register"
  PROVE  CommandInv'
<1>1. w \in Actors /\ w # Owner /\ Owner \in Actors
  BY GoalRunnerAssumption DEF Actors
<1>2. goal.claim = w /\ w # Nobody
  BY GoalRunnerAssumption DEF IInv, ChargedBeforeActing
<1>3. ~Ended /\ ~Ended'
  BY <1>2 DEF CommandInv, Ended, Claimed
<1>4. ASSUME NEW v \in Workers PROVE PlaceFits(hand[v].pc)'
  <2>1. CASE v = w
    BY <2>1
  <2>2. CASE v # w
    <3>1. hand[v].pc \notin Acting /\ hand'[v] = hand[v] /\ hand[v].pc \in HandPlaces
      BY <1>2, <2>2 DEF IInv, ChargedBeforeActing, OthersStay, Actors, GoalTypeOK, HandRow
    <3>2. hand'[v].pc \in Elsewhere
      BY <3>1 DEF Acting, Elsewhere
    <3>3. QED
      BY <3>2 DEF PlaceFits, Elsewhere
  <2>3. QED
    BY <2>1, <2>2
<1>5. hand'[Owner] = hand[Owner]
  BY <1>1 DEF OthersStay
<1>6. QED
  BY <1>3, <1>4, <1>5 DEF CommandInv, HandAt

\* A step that leaves the command alone.
LEMMA CommandKept ==
  ASSUME IInv, CommandInv, UNCHANGED command, run # "none" => run' # "none",
         NEW a \in Actors, OthersStay(a), hand[a].pc # "register", NEW h \in HandRow, hand'[a] = h,
         h.pc \in Elsewhere, a = Owner => (h.cut => h.pc = "idle"),
         Ended' => ~Claimed',
         Ended' => \/ Ended /\ hand[a].pc # "cancel" /\ (a = Owner /\ hand[a].cut => h.cut)
                   \/ h.pc = "cancel" \/ (a = Owner /\ h.cut)
  PROVE  CommandInv'
<1>1. /\ UNCHANGED <<check, effect, job>> /\ Owner \in Actors
      /\ \A b \in Actors : b # a => hand'[b] = hand[b]
      /\ \A v \in Workers : v \in Actors
  BY DEF command, Actors, OthersStay
<1>2. (CommandLive => CommandHasBasis)'
  BY <1>1 DEF CommandInv, CommandLive, CommandHasBasis
<1>3. ASSUME NEW v \in Workers PROVE PlaceFits(hand[v].pc)'
  <2>1. CASE v = a
    BY <2>1 DEF PlaceFits, Elsewhere
  <2>2. CASE v # a
    BY <1>1, <2>2 DEF CommandInv, PlaceFits, CommandLive
  <2>3. QED
    BY <2>1, <2>2
<1>4. job' = "inserted" => \E w \in Workers : HandAt(w, "register")'
  BY <1>1 DEF CommandInv, HandAt
<1>5. Ended' /\ CommandLive' /\ effect' # "reconciled" => CancelIsDue'
  <2> SUFFICES ASSUME Ended', CommandLive', effect' # "reconciled" PROVE CancelIsDue'
    OBVIOUS
  <2>1. CASE h.pc = "cancel" \/ (a = Owner /\ h.cut)
    BY <2>1 DEF CancelIsDue, HandAt
  <2>2. CASE Ended /\ hand[a].pc # "cancel" /\ (a = Owner /\ hand[a].cut => h.cut)
    <3>1. CancelIsDue
      BY <1>1, <2>2 DEF CommandInv, CommandLive
    <3>2. CASE hand[Owner].cut
      BY <1>1, <2>2, <3>2 DEF CancelIsDue
    <3>3. CASE \E b \in Actors : HandAt(b, "cancel")
      BY <1>1, <2>2, <3>3 DEF CancelIsDue, HandAt
    <3>4. QED
      BY <3>1, <3>2, <3>3 DEF CancelIsDue
  <2>3. QED
    BY <2>1, <2>2
<1>6. hand'[Owner].cut => hand'[Owner].pc = "idle"
  BY <1>1 DEF CommandInv, HandAt
<1>7. QED
  BY <1>2, <1>3, <1>4, <1>5, <1>6 DEF CommandInv, HandAt

LEMMA HandGoes ==
  ASSUME IInv, NEW a \in Actors, NEW h, hand' = [hand EXCEPT ![a] = h]
  PROVE  hand'[a] = h /\ OthersStay(a)
BY DEF IInv, GoalTypeOK, OthersStay

LEMMA HandMoved ==
  ASSUME IInv, NEW a \in Actors, NEW p \in HandPlaces, Move(a, p)
  PROVE  hand'[a].pc = p /\ hand'[a].cut = hand[a].cut /\ hand'[a] \in HandRow /\ OthersStay(a)
<1>1. hand[a] \in HandRow
  BY DEF IInv, GoalTypeOK
<1> DEFINE h == [hand[a] EXCEPT !.pc = p]
<1>2. h \in HandRow /\ h.pc = p /\ h.cut = hand[a].cut
  BY <1>1 DEF HandRow
<1>3. hand' = [hand EXCEPT ![a] = h]
  BY DEF Move
<1> HIDE DEF h
<1>4. QED
  BY <1>2, <1>3, HandGoes

LEMMA HandIsOver ==
  ASSUME IInv, NEW w \in Actors, NEW o, Over(w, o)
  PROVE  hand'[w].pc = "finish" /\ OthersStay(w)
<1>1. hand[w] \in HandRow
  BY DEF IInv, GoalTypeOK
<1> DEFINE h == [hand[w] EXCEPT !.pc = "finish", !.outcome = o]
<1>2. h.pc = "finish"
  BY <1>1 DEF HandRow
<1>3. hand' = [hand EXCEPT ![w] = h]
  BY DEF Over
<1> HIDE DEF h
<1>4. QED
  BY <1>2, <1>3, HandGoes

\* Whoever acts is the only one, so that an unregistered command is his.
LEMMA HolderLaunched ==
  ASSUME IInv, CommandInv, NEW w \in Workers, hand[w].pc \in Acting, job = "inserted"
  PROVE  hand[w].pc = "register"
<1>1. PICK v \in Workers : hand[v].pc = "register"
  BY DEF CommandInv, HandAt
<1>2. v = w
  BY <1>1 DEF IInv, ChargedBeforeActing, Acting
<1>3. QED
  BY <1>1, <1>2

\* His action is over, or goes on where nothing is said of the check, and the
\* command is as it was.
LEMMA HolderLeaves ==
  ASSUME IInv, CommandInv, NEW w \in Workers, hand[w].pc \in Acting \ {"register"}, OthersStay(w), goal' = goal,
         run # "none" => run' # "none", effect' = effect \/ ~CommandLive,
         job' = job \/ job' \notin {"inserted", "live"}, check' = check \/ ~CommandLive,
         hand'[w].pc \in Elsewhere
  PROVE  CommandInv'
<1>1. job # "inserted"
  BY HolderLaunched
<1>2. (CommandLive => CommandHasBasis)'
  BY <1>1 DEF CommandInv, CommandLive, CommandHasBasis
<1>3. PICK p \in Elsewhere : hand'[w].pc = p
  OBVIOUS
<1>4. PlaceFits(p)'
  BY <1>3 DEF PlaceFits, Elsewhere
<1>5. job' # "inserted" /\ p \in HandPlaces /\ hand[w].pc \in Acting
  BY <1>1 DEF Elsewhere
<1>6. QED
  BY <1>2, <1>3, <1>4, <1>5, HolderKeeps

LEMMA ChecksKeepCommand ==
  ASSUME IInv, CommandInv, NEW w \in Workers, AdvanceGoalVerification(w)
  PROVE  CommandInv'
<1>1. w \in Actors /\ hand[w] \in HandRow
  BY DEF IInv, GoalTypeOK, Actors
<1>2. hand[w].pc \in Acting /\ goal' = goal /\ (run # "none" => run' # "none")
  BY DEF AdvanceGoalVerification, CreateCheckpoint, ReadCheckpoint, PlanCheck, SaveOperation, DispatchCheck,
         LaunchCheck, RegisterCancel, Requeue, SaveJob, EndPending, CollectCheck, FinishCheck,
         RollbackCheck, CloseCheckpoint, SaveCheckpoint, HandAt, Acting, work, outside, FailWork
<1>3. /\ CommandLive => CommandHasBasis
      /\ PlaceFits(hand[w].pc)
      /\ job = "inserted" => hand[w].pc = "register"
  BY <1>2, HolderLaunched DEF CommandInv
<1>4. check \in CheckRow
  BY DEF IInv, GoalTypeOK, CheckRow
<1>5. ASSUME NEW p \in HandPlaces, Move(w, p), (CommandLive => CommandHasBasis)', PlaceFits(p)',
             job' = "inserted" => p = "register"
      PROVE  CommandInv'
  BY <1>1, <1>2, <1>5, HandMoved, HolderKeeps
<1>6. ASSUME NEW o, Over(w, o), UNCHANGED command, hand[w].pc # "register"
      PROVE  CommandInv'
  <2>1. hand'[w].pc \in Elsewhere /\ OthersStay(w)
    BY <1>1, <1>6, HandIsOver DEF Elsewhere, HandPlaces
  <2>2. QED
    BY <1>2, <1>6, <2>1, HolderLeaves DEF command
<1> USE DEF HandAt
\* The checkpoint, under the claim.
<1>7. ASSUME NEW row \in CheckRow, NEW p \in HandPlaces, SaveCheckpoint(w, row, p), UNCHANGED <<effect, job>>,
             hand[w].pc # "register", (row.op /\ row.state # "none") \/ ~CommandLive,
             /\ p \in {"plan", "saveop"} => ~row.op /\ row.state # "none"
             /\ p \in {"dispatch", "launch"} => row.op /\ row.state # "none"
             /\ p \in {"dispatch", "requeue"} => ~CommandLive
             /\ p \notin {"launch", "register"}
      PROVE  CommandInv'
  <2>1. CASE check' = row /\ Move(w, p)
    <3>1. (CommandLive => CommandHasBasis)'
      BY <1>3, <1>7, <2>1 DEF SaveCheckpoint, CommandLive, CommandHasBasis, work
    <3>2. PlaceFits(p)'
      BY <1>7, <2>1 DEF PlaceFits, CommandLive
    <3>3. QED
      BY <1>3, <1>5, <1>7, <2>1, <3>1, <3>2
  <2>2. CASE UNCHANGED check /\ Over(w, "waiting")
    BY <1>6, <1>7, <2>2 DEF command
  <2>3. QED
    BY <1>7, <2>1, <2>2 DEF SaveCheckpoint
<1>8. CASE CreateCheckpoint(w)
  <2>1. [state |-> "active", op |-> FALSE, job |-> FALSE] \in CheckRow /\ "scope" \in HandPlaces
    BY DEF CheckRow, HandPlaces
  <2>2. ~CommandLive
    BY <1>3, <1>8 DEF CreateCheckpoint, CommandHasBasis
  <2>3. QED
    BY <1>7, <1>8, <2>1, <2>2 DEF CreateCheckpoint
<1>9. CASE ReadCheckpoint(w)
  <2>1. UNCHANGED command /\ UNCHANGED work
    BY <1>9 DEF ReadCheckpoint
  <2>2. (CommandLive => CommandHasBasis)' /\ job' # "inserted"
    BY <1>3, <1>9, <2>1 DEF ReadCheckpoint, CommandLive, CommandHasBasis, command, work
  <2>3. check.state = "active" /\ check.op \in BOOLEAN /\ check.job \in BOOLEAN
    BY <1>4, <1>9 DEF ReadCheckpoint, CheckRow
  <2>4. PICK p \in {"plan", "dispatch", "savejob", "collect"} :
          /\ Move(w, p)
          /\ p = "plan" => ~check.op
          /\ p = "dispatch" => check.op /\ effect = "planned"
    BY <1>9, <2>3 DEF ReadCheckpoint
  <2>5. PlaceFits(p)'
    BY <1>3, <2>1, <2>3, <2>4 DEF PlaceFits, CommandLive, CommandHasBasis, command, Launched
  <2>6. p \in HandPlaces
    BY DEF HandPlaces
  <2>7. QED
    BY <1>5, <2>2, <2>4, <2>5, <2>6
<1>10. CASE PlanCheck(w)
  <2>1. ~CommandLive /\ ~check.op /\ check.state # "none" /\ UNCHANGED <<check, job>>
    BY <1>3, <1>10 DEF PlanCheck, PlaceFits, CommandHasBasis
  <2>2. CASE Move(w, "saveop")
    BY <1>5, <2>1, <2>2 DEF PlaceFits, CommandLive, HandPlaces
  <2>3. CASE UNCHANGED effect /\ Over(w, "active")
    BY <1>6, <1>10, <2>1, <2>3 DEF PlanCheck, command
  <2>4. QED
    BY <1>10, <2>2, <2>3 DEF PlanCheck
<1>11. CASE SaveOperation(w)
  <2>1. ~CommandLive /\ check.state # "none"
    BY <1>3, <1>11 DEF SaveOperation, PlaceFits, CommandHasBasis
  <2>2. PICK row \in CheckRow : row = [check EXCEPT !.op = TRUE]
    BY <1>4 DEF CheckRow
  <2>3. row.op /\ row.state # "none"
    BY <1>4, <2>1, <2>2 DEF CheckRow
  <2>4. "dispatch" \in HandPlaces
    BY DEF HandPlaces
  <2>5. QED
    BY <1>7, <1>11, <2>1, <2>2, <2>3, <2>4 DEF SaveOperation
<1>12. CASE DispatchCheck(w)
  <2>1. ~CommandLive /\ check.op /\ check.state # "none" /\ UNCHANGED <<check, job, work>>
    BY <1>3, <1>12 DEF DispatchCheck, PlaceFits
  <2>2. effect' = "dispatched" /\ run = "running" /\ run' = run /\ Move(w, "launch")
    BY <1>12, <2>1 DEF DispatchCheck, HasAuthority, work
  <2>3. ~CommandLive' /\ PlaceFits("launch")'
    BY <2>1, <2>2 DEF PlaceFits, CommandLive, Launched
  <2>4. QED
    BY <1>5, <2>1, <2>2, <2>3 DEF HandPlaces, CommandLive
<1>13. CASE LaunchCheck(w)
  <2>1. /\ ~CommandLive /\ effect \in Launched /\ run # "none" /\ check.op /\ check.state # "none"
        /\ UNCHANGED <<check, run>>
    BY <1>3, <1>13 DEF LaunchCheck, PlaceFits, work
  <2>2. CASE job' = "inserted" /\ UNCHANGED effect /\ Move(w, "register")
    <3>1. CommandHasBasis' /\ PlaceFits("register")'
      BY <2>1, <2>2 DEF CommandHasBasis, PlaceFits
    <3>2. QED
      BY <1>5, <2>2, <3>1 DEF HandPlaces
  <2>3. CASE UNCHANGED job /\ (Move(w, "requeue") \/ Move(w, "rollback"))
    <3>1. ~CommandLive' /\ PlaceFits("requeue")' /\ PlaceFits("rollback")' /\ job' # "inserted"
      BY <2>1, <2>3 DEF PlaceFits, CommandLive
    <3>2. QED
      BY <1>5, <2>3, <3>1 DEF HandPlaces
  <2>4. QED
    BY <1>13, <2>2, <2>3 DEF LaunchCheck
<1>14. CASE RegisterCancel(w)
  <2>1. CommandHasBasis /\ UNCHANGED <<check, effect, run>> /\ job' = "live" /\ Move(w, "savejob")
    BY <1>3, <1>14 DEF RegisterCancel, PlaceFits, CommandLive, work
  <2>2. CommandHasBasis' /\ PlaceFits("savejob")'
    BY <2>1 DEF CommandHasBasis, PlaceFits
  <2>3. QED
    BY <1>5, <2>1, <2>2 DEF HandPlaces
<1>15. CASE Requeue(w)
  <2>1. ~CommandLive
    BY <1>3, <1>15 DEF Requeue, PlaceFits
  <2>2. [check EXCEPT !.op = FALSE] \in CheckRow /\ "pending" \in HandPlaces
    BY <1>4 DEF CheckRow, HandPlaces
  <2>3. QED
    BY <1>7, <1>15, <2>1, <2>2 DEF Requeue
<1>16. CASE SaveJob(w)
  <2>1. PICK row \in CheckRow : row = [check EXCEPT !.job = TRUE]
    BY <1>4 DEF CheckRow
  <2>2. row.op = check.op /\ row.state = check.state /\ "collect" \in HandPlaces
    BY <1>4, <2>1 DEF CheckRow, HandPlaces
  <2>3. QED
    BY <1>3, <1>7, <1>16, <2>1, <2>2 DEF SaveJob, CommandHasBasis
<1>17. CASE CloseCheckpoint(w)
  <2>1. PICK row \in CheckRow :
          row = [check EXCEPT !.state = IF HandAt(w, "closepass") THEN "completed" ELSE "failed"]
    BY <1>4 DEF CheckRow
  <2>2. row.op = check.op /\ row.state # "none" /\ "pending" \in HandPlaces
    BY <1>4, <2>1 DEF CheckRow, HandPlaces
  <2>3. QED
    BY <1>3, <1>7, <1>17, <2>1, <2>2 DEF CloseCheckpoint, CommandHasBasis
<1>18. CASE EndPending(w)
  BY <1>6, <1>18 DEF EndPending, command
<1>19. CASE CollectCheck(w) \/ FinishCheck(w) \/ RollbackCheck(w)
  <2>1. PICK p \in {"pass", "rollback", "closepass", "closefail"} : Move(w, p)
    BY <1>19 DEF CollectCheck, FinishCheck, RollbackCheck
  <2>2. p \in HandPlaces /\ p \in Elsewhere /\ hand[w].pc \in Acting \ {"register"}
    BY <1>2, <1>19 DEF Elsewhere, HandPlaces, CollectCheck, FinishCheck, RollbackCheck
  <2>3. hand'[w].pc \in Elsewhere /\ OthersStay(w)
    BY <1>1, <2>1, <2>2, HandMoved
  <2>4. UNCHANGED <<check, job>> /\ (effect' = effect \/ ~CommandLive)
    BY <1>19 DEF CollectCheck, FinishCheck, RollbackCheck, CommandLive, command
  <2>5. QED
    BY <1>2, <2>2, <2>3, <2>4, HolderLeaves
<1>20. QED
  BY <1>8, <1>9, <1>10, <1>11, <1>12, <1>13, <1>14, <1>15, <1>16, <1>17, <1>18, <1>19 DEF AdvanceGoalVerification

\* What a hand that is done, or goes on to cancel the command, looks like.
LEMMA HandLetsGo ==
  ASSUME IInv, NEW a \in Actors, Done(a) \/ CleanUp(a)
  PROVE  /\ hand'[a] \in HandRow /\ ~hand'[a].cut /\ OthersStay(a)
         /\ Done(a) => hand'[a].pc = "idle"
         /\ CleanUp(a) => hand'[a].pc = "cancel"
<1>1. /\ IdleHand \in HandRow /\ IdleHand.pc = "idle" /\ ~IdleHand.cut
      /\ [IdleHand EXCEPT !.pc = "cancel"] \in HandRow /\ [IdleHand EXCEPT !.pc = "cancel"].pc = "cancel"
      /\ ~[IdleHand EXCEPT !.pc = "cancel"].cut
  BY IdleIsPlaced, CancelIsPlaced DEF IdleHand
<1>2. CASE Done(a)
  <2>1. hand'[a] = IdleHand /\ OthersStay(a)
    BY <1>2, HandGoes DEF Done
  <2>2. ~CleanUp(a)
    BY <1>1, <2>1, HandGoes DEF CleanUp
  <2>3. QED
    BY <1>1, <2>1, <2>2
<1>3. CASE CleanUp(a)
  <2>1. hand'[a] = [IdleHand EXCEPT !.pc = "cancel"] /\ OthersStay(a)
    BY <1>3, HandGoes DEF CleanUp
  <2>2. ~Done(a)
    BY <1>1, <2>1, HandGoes DEF Done
  <2>3. QED
    BY <1>1, <2>1, <2>2
<1>4. QED
  BY <1>2, <1>3

\* Whoever looks at a goal, or claims it, leaves its command alone; and who finds
\* the budget used up goes on to cancel it.
LEMMA LookersKeepCommand ==
  ASSUME IInv, CommandInv, NEW w \in Workers,
         LookAtGoal(w) \/ ConsentIsVoid(w) \/ WaitGoal(w) \/ ReadForClaim(w) \/ ClaimGoalAction(w)
  PROVE  CommandInv'
<1>1. w \in Actors /\ w # Owner /\ hand[w] \in HandRow /\ IInv'
  BY LooksStep, ReadForClaimStep, ClaimStep, GoalRunnerAssumption DEF IInv, GoalTypeOK, Actors
<1>2. /\ UNCHANGED command /\ run' = run
      /\ hand[w].pc \in {"idle", "wait", "claim", "charge"}
  BY DEF LookAtGoal, ConsentIsVoid, WaitGoal, ReadForClaim, ClaimGoalAction, HandAt, work
<1>3. /\ hand'[w].pc \in {"idle", "wait", "claim", "charge", "cancel", "create", "scope", "act"}
      /\ OthersStay(w)
      /\ CleanUp(w) => hand'[w].pc = "cancel"
  <2>1. CASE Done(w) \/ CleanUp(w)
    BY <1>1, <2>1, HandLetsGo
  <2>2. CASE Move(w, "wait")
    BY <1>1, <2>2, HandMoved, HandLetsGo DEF HandPlaces
  <2>3. CASE hand' = [hand EXCEPT ![w].pc = "claim", ![w].action = NextGoalAction]
    BY <1>1, <2>3, HandLetsGo DEF OthersStay, IInv, GoalTypeOK, HandRow
  <2>4. CASE hand' = [hand EXCEPT ![w].pc = "charge", ![w].seen = task.revision, ![w].used = goal.actions]
    BY <1>1, <2>4, HandLetsGo DEF OthersStay, IInv, GoalTypeOK, HandRow
  <2>5. CASE \E p \in {"create", "scope", "act"} :
               hand' = [hand EXCEPT ![w].pc = p, ![w].seen = 0, ![w].used = 0]
    BY <1>1, <2>5, HandLetsGo DEF OthersStay, IInv, GoalTypeOK, HandRow
  <2>6. ASSUME ClaimGoalAction(w)
        PROVE  Done(w) \/ \E p \in {"create", "scope", "act"} :
                            hand' = [hand EXCEPT ![w].pc = p, ![w].seen = 0, ![w].used = 0]
    <3> DEFINE p == CASE hand[w].action = "verify" -> "create"
                      [] hand[w].action = "verify_collect" -> "scope"
                      [] OTHER -> "act"
    <3>1. p \in {"create", "scope", "act"}
      OBVIOUS
    <3>2. Done(w) \/ hand' = [hand EXCEPT ![w].pc = p, ![w].seen = 0, ![w].used = 0]
      BY <2>6 DEF ClaimGoalAction
    <3> HIDE DEF p
    <3>3. QED
      BY <3>1, <3>2
  <2>7. QED
    BY <2>1, <2>2, <2>3, <2>4, <2>5, <2>6 DEF LookAtGoal, ConsentIsVoid, WaitGoal, ReadForClaim
<1>4. hand'[w] \in HandRow
  BY <1>1 DEF IInv, GoalTypeOK
<1>5. goal \in GoalRow /\ goal' \in GoalRow
  BY <1>1 DEF IInv, GoalTypeOK, GoalRow
<1>6. Ended' => (Ended /\ goal' = goal) \/ (goal'.claim = Nobody /\ CleanUp(w))
  BY <1>5 DEF LookAtGoal, ConsentIsVoid, WaitGoal, ReadForClaim, ClaimGoalAction, Claimable, Ended, Claimed, GoalRow
<1>7. Ended' => ~Claimed'
  BY <1>6 DEF CommandInv, Claimed
<1>8. hand'[w].pc \in Elsewhere /\ hand[w].pc \notin {"register", "cancel"}
  BY <1>2, <1>3 DEF Elsewhere, HandPlaces
<1>9. QED
  BY <1>1, <1>2, <1>3, <1>4, <1>6, <1>7, <1>8, CommandKept

\* An action other than a check leaves the command alone, or makes room for one.
LEMMA PerformersKeepCommand ==
  ASSUME IInv, CommandInv, NEW w \in Workers, PerformAction(w) \/ ActionFails(w)
  PROVE  CommandInv'
<1>1. w \in Actors
  BY DEF Actors
<1>2. hand[w].pc \in Acting /\ goal' = goal
  BY DEF PerformAction, ActionFails, HandAt, Acting
<1>3. hand'[w].pc = "finish" /\ OthersStay(w)
  <2>1. \E o : Over(w, o)
    BY DEF PerformAction, ActionFails, ApproveReview
  <2>2. QED
    BY <1>1, <2>1, HandIsOver
<1>4. CASE hand[w].pc # "register" /\ UNCHANGED command /\ (run # "none" => run' # "none")
  BY <1>2, <1>3, <1>4, HolderLeaves DEF command, Elsewhere, HandPlaces
<1>5. CASE job' = "none" /\ Apply
  <2>1. ~CommandLive'
    BY <1>5 DEF CommandLive
  <2>2. PlaceFits("finish")' /\ "finish" \in HandPlaces
    BY DEF PlaceFits, HandPlaces
  <2>3. QED
    BY <1>2, <1>3, <1>5, <2>1, <2>2, HolderKeeps
<1>6. hand[w].pc # "register"
  BY DEF PerformAction, ActionFails, HandAt
<1>7. QED
  BY <1>4, <1>5, <1>6 DEF PerformAction, ActionFails, Plan, BeginRun, Attempt, Propose, Approve, Apply, ApproveReview,
                          ResumeReview, FailWork, work

\* Before an action ends its command may be cancelled.
LEMMA FinishersKeepCommand ==
  ASSUME IInv, CommandInv, NEW w \in Workers, ReadForFinish(w) \/ FinishGoalAction(w)
  PROVE  CommandInv'
<1>1. w \in Actors /\ w # Owner /\ hand[w] \in HandRow /\ IInv'
  BY ReadForFinishStep, FinishStep, GoalRunnerAssumption DEF IInv, GoalTypeOK, Actors
<1>2. CASE ReadForFinish(w)
  <2>1. hand[w].pc \in Acting \ {"register"} /\ goal' = goal /\ run' = run /\ UNCHANGED <<check, effect>>
    BY <1>2 DEF ReadForFinish, HandAt, Acting, work
  <2>2. hand'[w].pc = "commit" /\ OthersStay(w)
    <3>1. PICK cut :
            hand' = [hand EXCEPT ![w].pc = "commit", ![w].seen = task.revision, ![w].cut = cut,
                       ![w].outcome = CASE goal.state = "stopping" -> "stopped"
                                        [] late /\ @ # "completed" /\ goal.state # "stopping" -> "budget_exhausted"
                                        [] OTHER -> @]
      BY <1>2 DEF ReadForFinish
    <3> DEFINE o == CASE goal.state = "stopping" -> "stopped"
                      [] late /\ hand[w].outcome # "completed" /\ goal.state # "stopping" -> "budget_exhausted"
                      [] OTHER -> hand[w].outcome
               h == [hand[w] EXCEPT !.pc = "commit", !.seen = task.revision, !.cut = cut, !.outcome = o]
    <3>2. hand' = [hand EXCEPT ![w] = h]
      BY <3>1
    <3> HIDE DEF o
    <3>3. h.pc = "commit"
      BY <1>1 DEF HandRow
    <3> HIDE DEF h
    <3>4. QED
      BY <1>1, <3>2, <3>3, HandGoes
  <2>3. job' = job \/ job' = "ending"
    BY <1>2 DEF ReadForFinish, Cancelled
  <2>4. QED
    BY <2>1, <2>2, <2>3, HolderLeaves DEF Elsewhere, HandPlaces
<1>3. CASE FinishGoalAction(w)
  <2>1. /\ hand[w].pc = "commit" /\ UNCHANGED command /\ run' = run
        /\ goal' = [goal EXCEPT !.state = GoalOutcome(w), !.claim = Nobody, !.expected = task.revision]
        /\ IF EndsQuietly(w) THEN Done(w) ELSE CleanUp(w)
    BY <1>3 DEF FinishGoalAction, HandAt, work
  <2>2. /\ hand'[w].pc \in {"idle", "cancel"} /\ hand'[w] \in HandRow /\ OthersStay(w)
        /\ CleanUp(w) => hand'[w].pc = "cancel"
    BY <1>1, <2>1, HandLetsGo
  <2>3. goal'.state = GoalOutcome(w) /\ goal'.claim = Nobody
    BY <2>1 DEF IInv, GoalTypeOK
  <2>4. Ended' => ~EndsQuietly(w)
    BY <2>3 DEF Ended, EndsQuietly, GoalOutcome, Fenced
  <2>5. hand'[w].pc \in Elsewhere
    BY <2>2 DEF Elsewhere, HandPlaces
  <2>6. QED
    BY <1>1, <2>1, <2>2, <2>3, <2>4, <2>5, CommandKept DEF Claimed
<1>4. QED
  BY <1>2, <1>3

\* Whoever cancels the commands of a goal that has ended leaves none running.
LEMMA CancellersKeepCommand ==
  ASSUME IInv, CommandInv, NEW a \in Actors,
         CancelGoalCommands(a) \/ ReadForInterrupt(a) \/ InterruptGoalExecution(a)
  PROVE  CommandInv'
<1>1. /\ goal' = goal /\ UNCHANGED check
      /\ hand[a].pc \in {"cancel", "interrupt", "pause"} /\ Owner \in Actors /\ Workers \subseteq Actors
  BY DEF CancelGoalCommands, ReadForInterrupt, InterruptGoalExecution, HandAt, Actors, command
<1>2. /\ hand'[a].pc \in {"idle", "interrupt", "pause"} /\ OthersStay(a)
      /\ hand'[a].cut => hand[a].cut
  <2>0. hand[a] \in HandRow
    BY DEF IInv, GoalTypeOK
  <2>1. CASE Done(a)
    BY <2>1, HandLetsGo
  <2>2. CASE Move(a, "interrupt")
    BY <2>2, HandMoved DEF HandPlaces
  <2>3. CASE hand' = [hand EXCEPT ![a].pc = "pause", ![a].seen = task.revision]
    BY <2>3 DEF OthersStay, IInv, GoalTypeOK, HandRow
  <2>4. QED
    BY <2>1, <2>2, <2>3 DEF CancelGoalCommands, ReadForInterrupt, InterruptGoalExecution
<1>3. /\ run # "none" => run' # "none"
      /\ effect' = effect \/ (effect = "planned" /\ effect' = "abandoned")
           \/ (effect = "dispatched" /\ effect' = "uncertain")
      /\ job' = job \/ job' = "ending"
  BY DEF CancelGoalCommands, ReadForInterrupt, InterruptGoalExecution, Cancelled, work, command
<1>4. (CommandLive => CommandHasBasis)'
  BY <1>1, <1>3 DEF CommandInv, CommandLive, CommandHasBasis, Launched
<1>5. ASSUME NEW v \in Workers PROVE PlaceFits(hand[v].pc)'
  <2>1. CASE v = a
    BY <1>2, <2>1 DEF PlaceFits
  <2>2. CASE v # a
    <3>1. hand'[v] = hand[v] /\ PlaceFits(hand[v].pc)
      BY <1>1, <1>2, <2>2 DEF OthersStay, CommandInv
    <3>2. hand[v].pc = "register" => job' = "inserted"
      BY <1>3, <3>1 DEF PlaceFits, CancelGoalCommands, ReadForInterrupt, InterruptGoalExecution, Cancelled, command
    <3>3. QED
      BY <1>1, <1>3, <3>1, <3>2 DEF PlaceFits, CommandLive, Launched
  <2>3. QED
    BY <2>1, <2>2
<1>6. job' = "inserted" => \E v \in Workers : HandAt(v, "register")'
  <2> SUFFICES ASSUME job' = "inserted" PROVE \E v \in Workers : HandAt(v, "register")'
    OBVIOUS
  <2>1. PICK v \in Workers : hand[v].pc = "register"
    BY <1>3 DEF CommandInv, HandAt
  <2>2. v # a /\ hand'[v] = hand[v]
    BY <1>1, <1>2, <2>1 DEF OthersStay
  <2>3. QED
    BY <2>1, <2>2 DEF HandAt
<1>7. ASSUME Ended', CommandLive', effect' # "reconciled" PROVE CancelIsDue'
  <2>1. Ended /\ CommandLive /\ effect # "reconciled"
    BY <1>1, <1>3, <1>7 DEF Ended, CommandLive
  <2>2. job = "live" /\ run # "none" /\ effect \in {"dispatched", "uncertain"}
    <3>1. \A v \in Workers : hand[v].pc \notin Acting
      BY <2>1, GoalRunnerAssumption DEF CommandInv, Claimed, IInv, ChargedBeforeActing
    <3>2. job # "inserted"
      BY <3>1 DEF CommandInv, HandAt, Acting
    <3>3. QED
      BY <2>1, <3>2 DEF CommandInv, CommandLive, CommandHasBasis, Launched
  <2>3. ~CancelGoalCommands(a)
    BY <1>7, <2>2 DEF CancelGoalCommands, Cancelled, CommandLive
  <2>4. hand[a].pc # "cancel"
    BY <2>3 DEF ReadForInterrupt, InterruptGoalExecution, HandAt
  <2>5. CancelIsDue
    BY <2>1 DEF CommandInv
  <2>6. CASE hand[Owner].cut
    <3>1. Owner # a
      BY <1>1, <2>6 DEF CommandInv, HandAt
    <3>2. QED
      BY <1>1, <1>2, <2>6, <3>1 DEF OthersStay, CancelIsDue
  <2>7. CASE \E b \in Actors : HandAt(b, "cancel")
    BY <1>2, <2>4, <2>7 DEF OthersStay, CancelIsDue, HandAt
  <2>8. QED
    BY <2>5, <2>6, <2>7 DEF CancelIsDue
<1>8. hand'[Owner].cut => hand'[Owner].pc = "idle"
  BY <1>1, <1>2 DEF CommandInv, HandAt, OthersStay
<1>9. Ended' => ~Claimed'
  BY <1>1 DEF CommandInv, Ended, Claimed
<1>10. QED
  BY <1>4, <1>5, <1>6, <1>7, <1>8, <1>9 DEF CommandInv, HandAt

LEMMA OwnersKeepCommand ==
  ASSUME IInv, CommandInv, StopGoal \/ StopIsCutOff \/ ResumeGoal
  PROVE  CommandInv'
<1>1. Owner \in Actors /\ UNCHANGED command /\ run' = run /\ goal \in GoalRow
  BY DEF Actors, StopGoal, StopIsCutOff, ResumeGoal, work, IInv, GoalTypeOK, GoalRow
<1>2. CASE StopGoal
  <2> DEFINE s == IF goal.state \in {"active", "waiting", "stopping"}
                    THEN IF Claimed THEN "stopping" ELSE "stopped"
                    ELSE goal.state
             h == [IdleHand EXCEPT !.pc = "cancel", !.outcome = s]
  <2>1. s \in GoalStates /\ "cancel" \in HandPlaces
    BY <1>1 DEF GoalStates, GoalRow, HandPlaces
  <2>2. goal' = [goal EXCEPT !.state = s] /\ hand' = [hand EXCEPT ![Owner] = h]
    BY <1>2 DEF StopGoal
  <2>3. Ended' => goal'.claim = Nobody
    BY <1>1, <2>2 DEF Ended, GoalRow, CommandInv, Claimed
  <2> HIDE DEF s
  <2>4. h \in HandRow /\ h.pc = "cancel" /\ ~h.cut
    <3>1. IdleHand \in HandRow /\ ~IdleHand.cut
      BY IdleIsPlaced DEF IdleHand
    <3>2. QED
      BY <2>1, <3>1 DEF HandRow
  <2> HIDE DEF h
  <2>5. hand'[Owner] = h /\ OthersStay(Owner)
    BY <1>1, <2>2, HandGoes
  <2>6. hand[Owner].pc # "register" /\ h.pc \in Elsewhere
    BY <1>2, <2>4 DEF StopGoal, HandAt, Elsewhere, HandPlaces
  <2>7. QED
    BY <1>1, <2>3, <2>4, <2>5, <2>6, CommandKept DEF Claimed
<1>3. CASE StopIsCutOff
  <2> DEFINE h == [IdleHand EXCEPT !.cut = TRUE]
  <2>1. h \in HandRow /\ h.cut /\ h.pc = "idle"
    BY IdleIsPlaced DEF HandRow
  <2>2. hand'[Owner] = h /\ OthersStay(Owner) /\ goal' = goal
    BY <1>1, <1>3, HandGoes DEF StopIsCutOff
  <2> HIDE DEF h
  <2>3. hand[Owner].pc # "register" /\ h.pc \in Elsewhere
    BY <1>3, <2>1 DEF StopIsCutOff, Elsewhere, HandPlaces
  <2>4. Ended' => ~Claimed'
    BY <2>2 DEF CommandInv, Ended, Claimed
  <2>5. QED
    BY <1>1, <2>1, <2>2, <2>3, <2>4, CommandKept
<1>4. CASE ResumeGoal
  <2>1. ~Ended' /\ UNCHANGED hand
    BY <1>1, <1>4 DEF ResumeGoal, Ended, GoalRow
  <2>2. QED
    BY <1>1, <2>1 DEF CommandInv, CommandLive, CommandHasBasis, PlaceFits, HandAt, command
<1>5. QED
  BY <1>2, <1>3, <1>4

LEMMA OutsideKeepsCommand ==
  ASSUME IInv, CommandInv, EndCommand \/ OutsideChange \/ ReconcileCheck \/ DeadlinePasses \/ UNCHANGED goalVars
  PROVE  CommandInv'
<1>1. UNCHANGED <<goal, hand, run, check>>
  BY DEF EndCommand, OutsideChange, ReconcileCheck, DeadlinePasses, goalVars, work, command
<1>2. CASE UNCHANGED <<effect, job>>
  BY <1>1, <1>2 DEF CommandInv, CommandLive, CommandHasBasis, PlaceFits, HandAt, Ended, Claimed, CancelIsDue
<1>3. CASE ~CommandLive' /\ effect' = effect /\ job # "inserted"
  BY <1>1, <1>3 DEF CommandInv, CommandLive, PlaceFits, HandAt, Ended, Claimed
<1>4. CASE ~CommandLive /\ job' = job /\ effect = "uncertain" /\ effect' = "reconciled"
  BY <1>1, <1>4 DEF CommandInv, CommandLive, PlaceFits, HandAt, Ended, Claimed, Launched
<1>5. QED
  BY <1>2, <1>3, <1>4
     DEF EndCommand, OutsideChange, ReconcileCheck, DeadlinePasses, goalVars, work, command, CommandLive

LEMMA RestartKeepsCommand ==
  ASSUME IInv, CommandInv, RestartGoals
  PROVE  CommandInv'
<1>1. \A a \in Actors : hand'[a] = IdleHand
  BY DEF RestartGoals
<1>2. IdleHand.pc = "idle" /\ ~IdleHand.cut /\ Owner \in Actors /\ Workers \subseteq Actors
  BY DEF IdleHand, Actors
<1>3. ~CommandLive' /\ job' # "inserted"
  BY DEF RestartGoals, CommandLive
<1>4. Ended' => ~Claimed'
  <2>1. CASE goal' = goal /\ ~Claimed
    BY <2>1 DEF Claimed
  <2>2. CASE \E s : goal' = [goal EXCEPT !.claim = Nobody, !.state = s]
    BY <2>2 DEF Claimed, IInv, GoalTypeOK
  <2>3. QED
    BY <2>1, <2>2 DEF RestartGoals
<1>5. QED
  BY <1>1, <1>2, <1>3, <1>4 DEF CommandInv, PlaceFits, HandAt

LEMMA CommandInductive == IInv /\ CommandInv /\ [GoalNext]_goalVars => CommandInv'
<1> SUFFICES ASSUME IInv, CommandInv, [GoalNext]_goalVars PROVE CommandInv'
  OBVIOUS
<1>1. ASSUME NEW w \in Workers, AdvanceGoal(w)
      PROVE  CommandInv'
  BY <1>1, LookersKeepCommand, PerformersKeepCommand, FinishersKeepCommand DEF AdvanceGoal
<1>2. QED
  BY <1>1, ChecksKeepCommand, CancellersKeepCommand, OwnersKeepCommand, OutsideKeepsCommand, RestartKeepsCommand
     DEF GoalNext

\* When every call has returned, and none was cut off, the command of a goal that
\* was stopped or has used up its budget does not run any more.
THEOREM StopReachesCommand == GoalSpec => []StopEndsCommand
<1>1. GoalInit => CommandInv
  <2> SUFFICES ASSUME GoalInit PROVE CommandInv
    OBVIOUS
  <2>1. \A a \in Actors : hand[a].pc = "idle" /\ ~hand[a].cut
    BY DEF GoalInit, IdleHand
  <2>2. goal.claim = Nobody /\ job = "none" /\ goal.state = "active"
    BY DEF GoalInit
  <2>3. QED
    BY <2>1, <2>2 DEF CommandInv, CommandLive, PlaceFits, HandAt, Ended, Claimed, Actors
<1>2. CommandInv => StopEndsCommand
  BY DEF CommandInv, StopEndsCommand, CancelIsDue, HandAt, Ended, Actors
<1>3. QED
  BY <1>1, <1>2, Inductive, CommandInductive, PTL DEF GoalSpec
=============================================================================
