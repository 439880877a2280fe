------------------------- MODULE TurnLease_proofs -------------------------
(***************************************************************************)
(* What holds of a session for any number of turns, approvals, messages,   *)
(* goroutines and restarts: types, and that whoever holds the session is   *)
(* a turn that was begun and has not ended, from which it follows that a   *)
(* stop that was accepted is never overtaken by a completion.  And that an *)
(* approval is one attempt: whoever acts on it does so alone, on a claim   *)
(* that stands.                                                            *)
(*                                                                         *)
(* Rows and calls are separate arguments.  CallsMove: every operation sets *)
(* the call of one goroutine to one that is again well placed, or leaves   *)
(* all calls alone, or is a crash.  The lemmas ...Rows are about the rows. *)
(***************************************************************************)
EXTENDS TurnLease, TLAPS, WellFoundedInduction, NaturalsInduction

(***************************************************************************)
(* A call that has begun has a turn, what a tool returned is a receipt,    *)
(* and a RunTurn that is over has a result that the queue may report.      *)
(***************************************************************************)
Fits(op, pc, turn, authorized, result) ==
  /\ pc \notin {"idle", "draining", "refused"} => turn \in Turns
  /\ pc = "report" => op = "run"
  /\ pc = "receipt" => result \in {"executed", "failed", "uncertain", "denied"}
  /\ op = "run" =>
       /\ pc \notin {"read", "resumed", "resuming", "steer"}
       /\ pc \in {"claim", "tool", "receipt"} => authorized
       /\ pc \in {"ending", "ended", "observe", "settle", "report"} =>
            result \in {"completed", "failed", "awaiting_approval"}

WellPlaced(c) == Fits(c.op, c.pc, c.turn, c.authorized, c.result)

\* Turn t was begun, and no event says that it completed or failed.
Unfinished(t) == outcome[t] \in {"open", "blocked", "stopped", "interrupted"}

(***************************************************************************)
(* The strengthening: whoever holds the session is unfinished, and so is   *)
(* every turn that was asked to stop; an approval belongs to a turn.       *)
(***************************************************************************)
LeaseIsOpen ==
  /\ session.turn # None => Unfinished(session.turn)
  /\ \A t \in Turns : control[t] # "none" => Unfinished(t)
  /\ \A a \in Approvals : approval[a].state # "none" => approval[a].turn \in Turns

CallsFit == \A i \in Calls : WellPlaced(call[i])

IInv == TypeOK /\ CallsFit /\ LeaseIsOpen

-----------------------------------------------------------------------------
(* Calls.                                                                  *)

CallStep(i) == \E c \in CallRecord : WellPlaced(c) /\ call' = [call EXCEPT ![i] = c]

\* The shapes in which the operations change a call.
LEMMA NoCallFits == NoCall \in CallRecord /\ WellPlaced(NoCall)
  BY SMT DEF NoCall, CallRecord, WellPlaced, Fits, Places, Results, None

LEMMA CallIsTyped ==
  ASSUME IInv, NEW i \in Calls
  PROVE  call[i] \in CallRecord /\ WellPlaced(call[i])
  BY DEF IInv, TypeOK, CallsFit

LEMMA GoSteps ==
  ASSUME IInv, NEW i \in Calls, NEW p \in Places, Go(i, p),
         Fits(call[i].op, p, call[i].turn, call[i].authorized, call[i].result)
  PROVE  CallStep(i)
<1> DEFINE g == [call[i] EXCEPT !.pc = p]
<1>1. call' = [call EXCEPT ![i] = g]
  BY DEF Go
<1>2. g \in CallRecord
  BY CallIsTyped, Zenon DEF CallRecord
<1>3. /\ g.op = call[i].op /\ g.pc = p /\ g.turn = call[i].turn
      /\ g.authorized = call[i].authorized /\ g.result = call[i].result
  BY CallIsTyped, Zenon DEF CallRecord
<1>4. WellPlaced(g)
  BY <1>3, Zenon DEF WellPlaced
<1>5. QED
  BY <1>1, <1>2, <1>4, Zenon DEF CallStep

LEMMA FinishSteps ==
  ASSUME IInv, NEW i \in Calls, NEW p \in Places, NEW r \in Results, Finish(i, p, r),
         Fits(call[i].op, p, call[i].turn, call[i].authorized, r)
  PROVE  CallStep(i)
<1> DEFINE g == [call[i] EXCEPT !.pc = p, !.result = r]
<1>1. call' = [call EXCEPT ![i] = g]
  BY DEF Finish
<1>2. g \in CallRecord
  BY CallIsTyped, Zenon DEF CallRecord
<1>3. /\ g.op = call[i].op /\ g.pc = p /\ g.turn = call[i].turn
      /\ g.authorized = call[i].authorized /\ g.result = r
  BY CallIsTyped, Zenon DEF CallRecord
<1>4. WellPlaced(g)
  BY <1>3, Zenon DEF WellPlaced
<1>5. QED
  BY <1>1, <1>2, <1>4, Zenon DEF CallStep

LEMMA ReturnSteps ==
  ASSUME IInv, NEW i \in Calls, Return(i),
         call[i].op = "run" =>
           Fits("run", "report", call[i].turn, call[i].authorized, call[i].result)
  PROVE  CallStep(i)
<1>1. CASE call[i].op = "run" /\ call[i].message # None
  <2>1. Go(i, "report")
    BY <1>1 DEF Return, Go
  <2>2. QED
    BY <1>1, <2>1, GoSteps DEF Places
<1>2. CASE ~(call[i].op = "run" /\ call[i].message # None)
  <2>1. call' = [call EXCEPT ![i] = NoCall]
    BY <1>2 DEF Return
  <2>2. QED
    BY <2>1, NoCallFits, Zenon DEF CallStep
<1>3. QED
  BY <1>1, <1>2

LEMMA GoersMove ==
  ASSUME IInv, NEW i \in Calls,
         \/ LoopFails(i) \/ DecisionCancelled(i) \/ DecisionStands(i) \/ ContinueLoop(i)
         \/ BlockContinuation(i) \/ DrainRefused(i)
  PROVE  CallStep(i)
<1>1. WellPlaced(call[i])
  BY CallIsTyped
<1>2. CASE LoopFails(i)
  BY <1>1, <1>2, GoSteps DEF LoopFails, At, WellPlaced, Fits, Places
<1>3. CASE DecisionCancelled(i)
  BY <1>1, <1>3, GoSteps DEF DecisionCancelled, At, WellPlaced, Fits, Places
<1>4. CASE DecisionStands(i)
  BY <1>1, <1>4, GoSteps DEF DecisionStands, At, WellPlaced, Fits, Places
<1>5. CASE ContinueLoop(i)
  BY <1>1, <1>5, GoSteps DEF ContinueLoop, At, WellPlaced, Fits, Places
<1>6. CASE BlockContinuation(i)
  BY <1>1, <1>6, GoSteps DEF BlockContinuation, At, WellPlaced, Fits, Places
<1>7. CASE DrainRefused(i)
  BY <1>1, <1>7, GoSteps DEF DrainRefused, At, WellPlaced, Fits, Places
<1>8. QED
  BY <1>2, <1>3, <1>4, <1>5, <1>6, <1>7

LEMMA FinishersMove ==
  ASSUME IInv, NEW i \in Calls,
         \/ LoopPauses(i) \/ CompleteTurn(i) \/ FailTurn(i) \/ PersistFails(i)
         \/ \E result \in {"executed", "failed", "uncertain"} : ToolReturns(i, result)
  PROVE  CallStep(i)
<1>1. WellPlaced(call[i])
  BY CallIsTyped
<1>2. CASE LoopPauses(i)
  <2> DEFINE p == IF call[i].op = "run" /\ control[Turn(i)] = "stopping" THEN "failing" ELSE "ending"
  <2>1. Finish(i, p, "awaiting_approval") /\ p \in {"failing", "ending"} /\ At(i, "paused")
    BY <1>2 DEF LoopPauses
  <2> HIDE DEF p
  <2>2. QED
    BY <1>1, <2>1, FinishSteps DEF At, WellPlaced, Fits, Places, Results
<1>3. CASE CompleteTurn(i)
  BY <1>1, <1>3, FinishSteps DEF CompleteTurn, At, WellPlaced, Fits, Places, Results
<1>4. CASE FailTurn(i)
  <2>1. At(i, "failing") /\ \E p \in {"observe", "ending"} : Finish(i, p, "failed")
    BY <1>4 DEF FailTurn
  <2>2. QED
    BY <1>1, <2>1, FinishSteps DEF At, WellPlaced, Fits, Places, Results
<1>5. CASE PersistFails(i)
  <2>1. /\ At(i, "receipt")
        /\ Finish(i, IF call[i].authorized THEN "failing" ELSE "ending", "failed")
    BY <1>5 DEF PersistFails
  <2>2. QED
    BY <1>1, <2>1, FinishSteps DEF At, WellPlaced, Fits, Places, Results
<1>6. ASSUME NEW result \in {"executed", "failed", "uncertain"}, ToolReturns(i, result)
      PROVE  CallStep(i)
  BY <1>1, <1>6, FinishSteps DEF ToolReturns, At, WellPlaced, Fits, Places, Results
<1>7. QED
  BY <1>2, <1>3, <1>4, <1>5, <1>6

LEMMA ReturnersMove ==
  ASSUME IInv, NEW i \in Calls, LeaveExecution(i) \/ SteerTooLate(i)
  PROVE  CallStep(i)
<1>1. WellPlaced(call[i])
  BY CallIsTyped
<1>2. CASE LeaveExecution(i)
  <2>1. CASE control[Turn(i)] = "stopping"
    BY <1>1, <1>2, <2>1, GoSteps DEF LeaveExecution, At, WellPlaced, Fits, Places
  <2>2. CASE control[Turn(i)] # "stopping"
    BY <1>1, <1>2, <2>2, ReturnSteps DEF LeaveExecution, At, WellPlaced, Fits
  <2>3. QED
    BY <2>1, <2>2
<1>3. CASE SteerTooLate(i)
  BY <1>1, <1>3, ReturnSteps DEF SteerTooLate, At, WellPlaced, Fits
<1>4. QED
  BY <1>2, <1>3

LEMMA ClaimMoves ==
  ASSUME IInv, NEW i \in Calls,
         NEW decision \in {"executing", "denied"}, ClaimApprovalDecision(i, decision)
  PROVE  CallStep(i)
<1>1. WellPlaced(call[i])
  BY CallIsTyped
<1>2. At(i, "claim")
  BY DEF ClaimApprovalDecision
<1>3. CASE Finish(i, "tool", "none") \/ Finish(i, "receipt", "denied")
  BY <1>1, <1>2, <1>3, FinishSteps DEF At, WellPlaced, Fits, Places, Results
<1>4. CASE Go(i, IF call[i].authorized THEN "failing" ELSE "ending")
  BY <1>1, <1>2, <1>4, GoSteps DEF At, WellPlaced, Fits, Places
<1>5. QED
  BY <1>3, <1>4 DEF ClaimApprovalDecision

LEMMA AcquireTurnMoves ==
  ASSUME IInv, NEW i \in Calls, NEW t \in Turns, AcquireTurn(i, t)
  PROVE  CallStep(i)
<1>a. "acquired" \in Places
  BY DEF Places
<1> DEFINE g == [call[i] EXCEPT !.op = "run", !.pc = "acquired", !.turn = t]
<1>1. call' = [call EXCEPT ![i] = g]
  BY DEF AcquireTurn
<1>2. g \in CallRecord
  BY <1>a, CallIsTyped, Zenon DEF CallRecord
<1>3. /\ g.op = "run" /\ g.pc = "acquired" /\ g.turn = t
      /\ g.authorized = call[i].authorized /\ g.result = call[i].result
  BY CallIsTyped, Zenon DEF CallRecord
<1>4. WellPlaced(g)
  BY <1>3, CallIsTyped, NoCallFits, SMT DEF WellPlaced, Fits, AcquireTurn, At
<1>5. QED
  BY <1>1, <1>2, <1>4, Zenon DEF CallStep

LEMMA RegisterTurnMoves ==
  ASSUME IInv, NEW i \in Calls, RegisterTurn(i)
  PROVE  CallStep(i)
<1>a. "loop" \in Places
  BY DEF Places
<1> DEFINE g == [call[i] EXCEPT !.pc = "loop", !.registered = TRUE]
<1>1. call' = [call EXCEPT ![i] = g]
  BY DEF RegisterTurn
<1>2. g \in CallRecord
  BY <1>a, CallIsTyped, Zenon DEF CallRecord
<1>3. /\ g.op = call[i].op /\ g.pc = "loop" /\ g.turn = call[i].turn
      /\ g.authorized = call[i].authorized /\ g.result = call[i].result
  BY CallIsTyped, Zenon DEF CallRecord
<1>4. WellPlaced(g)
  BY <1>3, CallIsTyped, NoCallFits, SMT DEF WellPlaced, Fits, RegisterTurn, At
<1>5. QED
  BY <1>1, <1>2, <1>4, Zenon DEF CallStep

LEMMA EndExecutionMoves ==
  ASSUME IInv, NEW i \in Calls, EndExecution(i)
  PROVE  CallStep(i)
<1>a. "ended" \in Places
  BY DEF Places
<1> DEFINE g == [call[i] EXCEPT !.pc = "ended", !.registered = FALSE]
<1>1. call' = [call EXCEPT ![i] = g]
  BY DEF EndExecution
<1>2. g \in CallRecord
  BY <1>a, CallIsTyped, Zenon DEF CallRecord
<1>3. /\ g.op = call[i].op /\ g.pc = "ended" /\ g.turn = call[i].turn
      /\ g.authorized = call[i].authorized /\ g.result = call[i].result
  BY CallIsTyped, Zenon DEF CallRecord
<1>4. WellPlaced(g)
  BY <1>3, CallIsTyped, NoCallFits, SMT DEF WellPlaced, Fits, EndExecution, At
<1>5. QED
  BY <1>1, <1>2, <1>4, Zenon DEF CallStep

LEMMA CarryOutMoves ==
  ASSUME IInv, NEW i \in Calls, CarryOut(i)
  PROVE  CallStep(i)
<1> DEFINE g == [call[i] EXCEPT !.acted = TRUE]
<1>1. call' = [call EXCEPT ![i] = g]
  BY DEF CarryOut
<1>2. g \in CallRecord
  BY CallIsTyped, Zenon DEF CallRecord
<1>3. /\ g.op = call[i].op /\ g.pc = call[i].pc /\ g.turn = call[i].turn
      /\ g.authorized = call[i].authorized /\ g.result = call[i].result
  BY CallIsTyped, Zenon DEF CallRecord
<1>4. WellPlaced(g)
  BY <1>3, CallIsTyped, NoCallFits, SMT DEF WellPlaced, Fits, CarryOut, At
<1>5. QED
  BY <1>1, <1>2, <1>4, Zenon DEF CallStep

LEMMA ReconcileStoppedTurnMoves ==
  ASSUME IInv, NEW i \in Calls, NEW t \in Turns, ReconcileStoppedTurn(i, t)
  PROVE  CallStep(i)
<1>a. "observe" \in Places
  BY DEF Places
<1> DEFINE g == [call[i] EXCEPT !.op = "reconcile", !.pc = "observe", !.turn = t]
<1>1. call' = [call EXCEPT ![i] = g]
  BY DEF ReconcileStoppedTurn
<1>2. g \in CallRecord
  BY <1>a, CallIsTyped, Zenon DEF CallRecord
<1>3. /\ g.op = "reconcile" /\ g.pc = "observe" /\ g.turn = t
      /\ g.authorized = call[i].authorized /\ g.result = call[i].result
  BY CallIsTyped, Zenon DEF CallRecord
<1>4. WellPlaced(g)
  BY <1>3, CallIsTyped, NoCallFits, SMT DEF WellPlaced, Fits, ReconcileStoppedTurn, At
<1>5. QED
  BY <1>1, <1>2, <1>4, Zenon DEF CallStep

LEMMA DrainOneQueuedMoves ==
  ASSUME IInv, NEW i \in Calls, NEW m \in Messages, DrainOneQueued(i, m)
  PROVE  CallStep(i)
<1>a. "draining" \in Places
  BY DEF Places
<1> DEFINE g == [call[i] EXCEPT !.op = "run", !.pc = "draining", !.message = m]
<1>1. call' = [call EXCEPT ![i] = g]
  BY DEF DrainOneQueued
<1>2. g \in CallRecord
  BY <1>a, CallIsTyped, Zenon DEF CallRecord
<1>3. /\ g.op = "run" /\ g.pc = "draining" /\ g.turn = call[i].turn
      /\ g.authorized = call[i].authorized /\ g.result = call[i].result
  BY CallIsTyped, Zenon DEF CallRecord
<1>4. WellPlaced(g)
  BY <1>3, CallIsTyped, NoCallFits, SMT DEF WellPlaced, Fits, DrainOneQueued, At
<1>5. QED
  BY <1>1, <1>2, <1>4, Zenon DEF CallStep

LEMMA CreateToolApprovalMoves ==
  ASSUME IInv, NEW i \in Calls, NEW a \in Approvals, NEW authorized \in BOOLEAN,
         CreateToolApproval(i, a, authorized)
  PROVE  CallStep(i)
<1> DEFINE p == IF authorized THEN "claim" ELSE "paused"
<1>p. p \in Places /\ p \in {"claim", "paused"} /\ (p = "claim" => authorized)
  BY DEF Places
<1>a. call[i].pc = "loop"
  BY DEF CreateToolApproval, At
<1> DEFINE g == [call[i] EXCEPT !.pc = p, !.approval = a, !.authorized = authorized]
<1>1. call' = [call EXCEPT ![i] = g]
  BY DEF CreateToolApproval
<1> HIDE DEF p
<1>2. g \in CallRecord
  BY <1>p, <1>a, CallIsTyped, Zenon DEF CallRecord
<1>3. /\ g.op = call[i].op /\ g.pc = p /\ g.turn = call[i].turn
      /\ g.authorized = authorized /\ g.result = call[i].result
  BY CallIsTyped, Zenon DEF CallRecord
<1>4. WellPlaced(g)
  BY <1>3, CallIsTyped, <1>p, <1>a, SMT DEF WellPlaced, Fits
<1>5. QED
  BY <1>1, <1>2, <1>4, Zenon DEF CallStep

LEMMA ReadApprovalMoves ==
  ASSUME IInv, NEW i \in Calls, NEW a \in Approvals, ReadApproval(i, a)
  PROVE  CallStep(i)
<1> DEFINE p == approval[a].turn
<1>p. p \in Turns
  BY DEF IInv, LeaseIsOpen, ReadApproval
<1>a. "decide" \in {"none", "run", "decide", "stop", "steer", "reconcile"} /\ "read" \in Places
  BY DEF Places
<1> DEFINE g == [call[i] EXCEPT !.op = "decide", !.pc = "read", !.approval = a, !.turn = p]
<1>1. call' = [call EXCEPT ![i] = g]
  BY DEF ReadApproval
<1> HIDE DEF p
<1>2. g \in CallRecord
  BY <1>p, <1>a, CallIsTyped, Zenon DEF CallRecord
<1>3. /\ g.op = "decide" /\ g.pc = "read" /\ g.turn = p
      /\ g.authorized = call[i].authorized /\ g.result = call[i].result
  BY CallIsTyped, Zenon DEF CallRecord
<1>4. WellPlaced(g)
  BY <1>3, CallIsTyped, <1>p, <1>a, SMT DEF WellPlaced, Fits
<1>5. QED
  BY <1>1, <1>2, <1>4, Zenon DEF CallStep

LEMMA QueueSteerMoves ==
  ASSUME IInv, NEW i \in Calls, NEW m \in Messages, QueueSteer(i, m)
  PROVE  CallStep(i)
<1> DEFINE p == session.turn
<1>p. p \in Turns
  BY DEF IInv, TypeOK, SessionRow, QueueSteer
<1>a. "steer" \in {"none", "run", "decide", "stop", "steer", "reconcile"} /\ "steer" \in Places
  BY DEF Places
<1> DEFINE g == [call[i] EXCEPT !.op = "steer", !.pc = "steer", !.turn = p, !.message = m]
<1>1. call' = [call EXCEPT ![i] = g]
  BY DEF QueueSteer
<1> HIDE DEF p
<1>2. g \in CallRecord
  BY <1>p, <1>a, CallIsTyped, Zenon DEF CallRecord
<1>3. /\ g.op = "steer" /\ g.pc = "steer" /\ g.turn = p
      /\ g.authorized = call[i].authorized /\ g.result = call[i].result
  BY CallIsTyped, Zenon DEF CallRecord
<1>4. WellPlaced(g)
  BY <1>3, CallIsTyped, <1>p, <1>a, SMT DEF WellPlaced, Fits
<1>5. QED
  BY <1>1, <1>2, <1>4, Zenon DEF CallStep

LEMMA PersistApprovalReceiptMoves ==
  ASSUME IInv, NEW i \in Calls, PersistApprovalReceipt(i)
  PROVE  CallStep(i)
<1> DEFINE p == IF call[i].authorized THEN "loop" ELSE "resumed"
<1>p. p \in Places /\ p \in {"loop", "resumed"} /\ (p = "resumed" => ~call[i].authorized)
  BY DEF Places
<1>a. call[i].pc = "receipt" /\ "none" \in Results
  BY DEF PersistApprovalReceipt, At, Results
<1> DEFINE g == [call[i] EXCEPT !.pc = p, !.authorized = FALSE, !.acted = FALSE,
                             !.approval = None, !.result = "none"]
<1>1. call' = [call EXCEPT ![i] = g]
  BY DEF PersistApprovalReceipt
<1> HIDE DEF p
<1>2. g \in CallRecord
  BY <1>p, <1>a, CallIsTyped, Zenon DEF CallRecord
<1>3. /\ g.op = call[i].op /\ g.pc = p /\ g.turn = call[i].turn
      /\ g.authorized = FALSE /\ g.result = "none"
  BY CallIsTyped, Zenon DEF CallRecord
<1>4. WellPlaced(g)
  BY <1>3, CallIsTyped, <1>p, <1>a, SMT DEF WellPlaced, Fits
<1>5. QED
  BY <1>1, <1>2, <1>4, Zenon DEF CallStep

LEMMA NoCallMoves ==
  ASSUME IInv, NEW i \in Calls, ReportRefusal(i) \/ ReportTurn(i)
  PROVE  CallStep(i)
<1>1. call' = [call EXCEPT ![i] = NoCall]
  BY DEF ReportRefusal, ReportTurn
<1>2. QED
  BY <1>1, NoCallFits, Zenon DEF CallStep

LEMMA ObserveMoves ==
  ASSUME IInv, NEW i \in Calls, Observe(i)
  PROVE  CallStep(i)
<1> PICK p \in BOOLEAN : call' = [call EXCEPT ![i].pc = "settle", ![i].sure = p]
  BY DEF Observe
<1>a. call[i].pc = "observe" /\ "settle" \in Places
  BY DEF Observe, At, Places
<1> DEFINE g == [call[i] EXCEPT !.pc = "settle", !.sure = p]
<1>1. call' = [call EXCEPT ![i] = g]
  BY DEF Observe
<1>2. g \in CallRecord
  BY <1>a, CallIsTyped, Zenon DEF CallRecord
<1>3. /\ g.op = call[i].op /\ g.pc = "settle" /\ g.turn = call[i].turn
      /\ g.authorized = call[i].authorized /\ g.result = call[i].result
  BY CallIsTyped, Zenon DEF CallRecord
<1>4. WellPlaced(g)
  BY <1>3, CallIsTyped, <1>a, SMT DEF WellPlaced, Fits
<1>5. QED
  BY <1>1, <1>2, <1>4, Zenon DEF CallStep

LEMMA RegisterDecisionMoves ==
  ASSUME IInv, NEW i \in Calls, RegisterDecision(i)
  PROVE  CallStep(i)
<1>1. call[i].pc = "read" /\ call[i].turn \in Turns /\ call[i].op # "run"
  BY CallIsTyped DEF RegisterDecision, At, WellPlaced, Fits
<1>2. CASE Return(i)
  BY <1>1, <1>2, ReturnSteps
<1>3. CASE ~Return(i)
  <2> DEFINE p == IF control[Turn(i)] = "none" THEN "claim" ELSE "ending"
             g == [call[i] EXCEPT !.registered = TRUE, !.pc = p]
  <2>1. p \in Places
    BY DEF Places
  <2>2. call' = [call EXCEPT ![i] = g]
    BY <1>3 DEF RegisterDecision
  <2>3. p \in {"claim", "ending"}
    OBVIOUS
  <2> HIDE DEF p
  <2>4. g \in CallRecord
    BY <2>1, CallIsTyped, Zenon DEF CallRecord
  <2>5. g.op = call[i].op /\ g.pc = p /\ g.turn = call[i].turn
    BY CallIsTyped, Zenon DEF CallRecord
  <2>6. WellPlaced(g)
    BY <1>1, <2>3, <2>5, SMT DEF WellPlaced, Fits
  <2>7. QED
    BY <2>2, <2>4, <2>6, Zenon DEF CallStep
<1>4. QED
  BY <1>2, <1>3

LEMMA StopTurnMoves ==
  ASSUME IInv, NEW i \in Calls, NEW t \in Turns, StopTurn(i, t)
  PROVE  CallStep(i)
<1> DEFINE g == [NoCall EXCEPT !.op = "stop", !.pc = "observe", !.turn = t]
<1>1. call' = [call EXCEPT ![i] = g] \/ call' = [call EXCEPT ![i] = NoCall]
  BY DEF StopTurn
<1>2. g \in CallRecord
  BY NoCallFits, Zenon DEF CallRecord, Places
<1>3. g.op = "stop" /\ g.pc = "observe" /\ g.turn = t
  BY NoCallFits, Zenon DEF CallRecord
<1>4. WellPlaced(g)
  BY <1>3, SMT DEF WellPlaced, Fits
<1>5. QED
  BY <1>1, <1>2, <1>4, NoCallFits, Zenon DEF CallStep

LEMMA SettleMoves ==
  ASSUME IInv, NEW i \in Calls, Settle(i)
  PROVE  CallStep(i)
<1> DEFINE r == IF control[Turn(i)] = "stopping" THEN "completed" ELSE "failed"
           g == [call[i] EXCEPT !.pc = "ending", !.result = r]
<1>1. WellPlaced(call[i]) /\ call[i].pc = "settle"
  BY CallIsTyped DEF Settle, At
<1>2. r \in {"completed", "failed"} /\ r \in Results /\ "ending" \in Places
  BY DEF Results, Places
<1>3. call' = [call EXCEPT ![i] = g] \/ Return(i)
  BY DEF Settle
<1> HIDE DEF r
<1>4. g \in CallRecord
  BY <1>2, CallIsTyped, Zenon DEF CallRecord
<1>5. g.op = call[i].op /\ g.pc = "ending" /\ g.turn = call[i].turn /\ g.result = r
  BY CallIsTyped, Zenon DEF CallRecord
<1>6. WellPlaced(g)
  BY <1>1, <1>2, <1>5, SMT DEF WellPlaced, Fits
<1>7. CASE Return(i)
  BY <1>1, <1>7, ReturnSteps DEF WellPlaced, Fits
<1>8. QED
  BY <1>3, <1>4, <1>6, <1>7, Zenon DEF CallStep

\* Every step sets one call to one that fits, leaves all alone, or crashes.
LEMMA CallsMove ==
  ASSUME IInv, Next
  PROVE  (\E i \in Calls : CallStep(i)) \/ UNCHANGED call \/ Crash
<1>1. ASSUME NEW i \in Calls, RunsTurn(i)
      PROVE  CallStep(i) \/ UNCHANGED call
  BY <1>1, AcquireTurnMoves, RegisterTurnMoves, CreateToolApprovalMoves, GoersMove, FinishersMove,
     EndExecutionMoves, ReturnersMove DEF RunsTurn, UsesCommands, StartCommand, CancelCommand
<1>2. ASSUME NEW i \in Calls, DecidesApproval(i)
      PROVE  CallStep(i)
  BY <1>2, ReadApprovalMoves, RegisterDecisionMoves, ClaimMoves, CarryOutMoves, FinishersMove,
     PersistApprovalReceiptMoves, GoersMove DEF DecidesApproval
<1>3. ASSUME NEW i \in Calls, StopsTurn(i)
      PROVE  CallStep(i)
  BY <1>3, StopTurnMoves, ReconcileStoppedTurnMoves, ObserveMoves, SettleMoves DEF StopsTurn
<1>4. ASSUME NEW i \in Calls, UsesQueue(i)
      PROVE  CallStep(i)
  BY <1>4, QueueSteerMoves, DrainOneQueuedMoves, ReturnersMove, GoersMove, NoCallMoves DEF UsesQueue
<1>5. ASSUME \/ \E t \in Turns : CommandEnds(t)
             \/ \E m \in Messages : QueueMessage(m) \/ CancelQueuedMessage(m)
             \/ Startup
      PROVE  UNCHANGED call
  BY <1>5 DEF CommandEnds, QueueMessage, CancelQueuedMessage, Startup, RecoverMessageQueue,
              RecoverInterruptedApprovals, RecoverInterruptedTurns, RecoverTurnControls
<1>6. QED
  BY <1>1, <1>2, <1>3, <1>4, <1>5 DEF Next

LEMMA CallsKeepFitting ==
  ASSUME IInv, [Next]_vars
  PROVE  call' \in [Calls -> CallRecord] /\ CallsFit'
<1>1. call \in [Calls -> CallRecord] /\ CallsFit
  BY DEF IInv, TypeOK
<1>2. ASSUME NEW i \in Calls, CallStep(i)
      PROVE  call' \in [Calls -> CallRecord] /\ CallsFit'
  <2>1. PICK c \in CallRecord : WellPlaced(c) /\ call' = [call EXCEPT ![i] = c]
    BY <1>2, Zenon DEF CallStep
  <2>2. call' \in [Calls -> CallRecord]
    BY <1>1, <2>1, Zenon
  <2>3. \A j \in Calls : call'[j] = c \/ call'[j] = call[j]
    BY <1>1, <2>1, Zenon
  <2>4. ASSUME NEW j \in Calls PROVE WellPlaced(call'[j])
    BY <1>1, <2>1, <2>3, Zenon DEF CallsFit
  <2>5. QED
    BY <2>2, <2>4, Zenon DEF CallsFit, WellPlaced
<1>3. CASE Crash
  <2>1. call' = [i \in Calls |-> NoCall]
    BY <1>3 DEF Crash
  <2>2. \A j \in Calls : call'[j] = NoCall
    BY <2>1
  <2>3. QED
    BY <2>1, <2>2, NoCallFits, Zenon DEF CallsFit, WellPlaced
<1>4. CASE UNCHANGED call
  BY <1>1, <1>4 DEF CallsFit, WellPlaced
<1>5. QED
  BY <1>2, <1>3, <1>4, CallsMove DEF vars

-----------------------------------------------------------------------------
(* Rows.                                                                   *)

RowTypes ==
  /\ session \in SessionRow
  /\ session.turn = None <=> session.state = "active"
  /\ control \in [Turns -> {"none", "stopping", "needs_review", "stopped"}]
  /\ approval \in [Approvals -> ApprovalRow]
  /\ message \in [Messages -> MessageRow]
  /\ outcome \in [Turns -> Outcomes]

RowsFit == RowTypes /\ LeaseIsOpen

LEMMA RowsDoFit ==
  ASSUME IInv
  PROVE  RowsFit
  BY DEF IInv, TypeOK, RowsFit, RowTypes

LEMMA NoneIsNoTurn == None \notin Turns /\ \A t \in Turns : t \in Int
  BY TurnLeaseAssumption DEF None, Turns

\* A turn that is in the session is a turn.
LEMMA HoldersAreTurns ==
  ASSUME IInv
  PROVE  /\ session.turn # None => session.turn \in Turns
         /\ session.state # "active" => session.turn \in Turns /\ Unfinished(session.turn)
  BY DEF IInv, TypeOK, SessionRow, LeaseIsOpen

LEMMA FreeFits == Free \in SessionRow /\ Free.turn = None /\ Free.state = "active"
  BY DEF Free, SessionRow, SessionStates

LEMMA HeldFits ==
  ASSUME NEW state \in {"running", "awaiting_approval", "control_blocked"}, NEW t \in Turns,
         Held(state, t)
  PROVE  session' \in SessionRow /\ session'.turn = t /\ session'.state = state
  BY DEF Held, SessionRow, SessionStates

\* Queue items only change their state.
LEMMA ClosedMessagesFit ==
  ASSUME IInv, NEW t, NEW state \in MessageStates
  PROVE  CloseMessage(t, state) \in [Messages -> MessageRow]
<1>1. message \in [Messages -> MessageRow]
  BY DEF IInv, TypeOK
<1>2. ASSUME NEW m \in Messages PROVE [message[m] EXCEPT !.state = state] \in MessageRow
  BY <1>1, Zenon DEF MessageRow
<1>3. QED
  BY <1>1, <1>2, Zenon DEF CloseMessage

LEMMA CancelledApprovalsFit ==
  ASSUME IInv, NEW S
  PROVE  /\ CancelPending(S) \in [Approvals -> ApprovalRow]
         /\ \A a \in Approvals : /\ CancelPending(S)[a].turn = approval[a].turn
                                 /\ CancelPending(S)[a].state # "none" => approval[a].state # "none"
<1>1. approval \in [Approvals -> ApprovalRow]
  BY DEF IInv, TypeOK
<1>2. ASSUME NEW a \in Approvals
      PROVE  /\ [approval[a] EXCEPT !.state = "cancelled"] \in ApprovalRow
             /\ [approval[a] EXCEPT !.state = "cancelled"].turn = approval[a].turn
  BY <1>1, Zenon DEF ApprovalRow, ApprovalStates
<1>3. QED
  BY <1>1, <1>2 DEF CancelPending

LEMMA DecisionFits ==
  ASSUME IInv, NEW i \in Calls, NEW state \in ApprovalStates, Decided(i, state),
         call[i].approval \in Approvals => approval[call[i].approval].state # "none"
  PROVE  /\ approval' \in [Approvals -> ApprovalRow]
         /\ \A a \in Approvals : approval'[a].state # "none" => approval'[a].turn \in Turns
<1>1. approval \in [Approvals -> ApprovalRow]
  BY DEF IInv, TypeOK
<1>2. /\ approval' \in [Approvals -> ApprovalRow]
      /\ \A a \in Approvals : /\ approval'[a].turn = approval[a].turn
                              /\ a # call[i].approval => approval'[a] = approval[a]
  BY <1>1 DEF Decided, ApprovalRow
<1>3. QED
  BY <1>2 DEF IInv, LeaseIsOpen

\* What LeaseIsOpen needs of a step that closes turns or asks them to stop.
LEMMA OpenStaysOpen ==
  ASSUME RowsFit, UNCHANGED approval,
         (session.turn # None => Unfinished(session.turn))',
         (\A t \in Turns : control[t] # "none" => Unfinished(t))'
  PROVE  LeaseIsOpen'
  BY DEF RowsFit, LeaseIsOpen, Unfinished

LEMMA AcquireTurnRows ==
  ASSUME IInv, NEW i \in Calls, NEW t \in Turns, AcquireTurn(i, t)
  PROVE  RowsFit'
<1> USE RowsDoFit
<1>1. message' \in [Messages -> MessageRow]
  <2>1. CASE call[i].message = None
    BY <2>1 DEF AcquireTurn, RowsFit, RowTypes
  <2>2. CASE call[i].message # None
    <3> DEFINE m == call[i].message
               g == [message[m] EXCEPT !.state = "running", !.turn = t]
    <3>1. m \in Messages /\ message[m] \in MessageRow
      BY <2>2, CallIsTyped DEF CallRecord, RowsFit, RowTypes
    <3>2. message' = [message EXCEPT ![m] = g]
      BY <2>2 DEF AcquireTurn
    <3>3. g \in MessageRow
      BY <3>1, Zenon DEF MessageRow, MessageStates
    <3>4. QED
      BY <3>2, <3>3, Zenon DEF RowsFit, RowTypes
  <2>3. QED
    BY <2>1, <2>2
<1>2. session' \in SessionRow /\ session'.turn = t /\ session'.state = "running"
  BY HeldFits DEF AcquireTurn
<1>3. /\ outcome' \in [Turns -> Outcomes] /\ outcome'[t] = "open"
      /\ \A u \in Turns : u # t => outcome'[u] = outcome[u]
  BY DEF AcquireTurn, RowsFit, RowTypes, Outcomes
<1>4. control[t] = "none"
  BY DEF AcquireTurn, RowsFit, LeaseIsOpen, Unfinished
<1>5. LeaseIsOpen'
  BY <1>2, <1>3, <1>4, OpenStaysOpen DEF AcquireTurn, RowsFit, LeaseIsOpen, Unfinished
<1>6. QED
  BY <1>1, <1>2, <1>3, <1>5, NoneIsNoTurn DEF AcquireTurn, RowsFit, RowTypes

LEMMA CreateToolApprovalRows ==
  ASSUME IInv, NEW i \in Calls, NEW a \in Approvals, NEW authorized \in BOOLEAN,
         CreateToolApproval(i, a, authorized)
  PROVE  RowsFit'
<1> USE RowsDoFit
<1> DEFINE t == Turn(i)
<1>1. t \in Turns /\ Unfinished(t)
  BY HoldersAreTurns DEF CreateToolApproval, Running
<1> HIDE DEF t
<1>2. session' \in SessionRow /\ session'.turn = t /\ session'.state = "awaiting_approval"
  BY <1>1, HeldFits DEF CreateToolApproval, t
<1>3. approval' = [approval EXCEPT ![a] = [state |-> "pending", turn |-> t]]
  BY DEF CreateToolApproval, t
<1>4. /\ approval' \in [Approvals -> ApprovalRow]
      /\ \A b \in Approvals : approval'[b].state # "none" => approval'[b].turn \in Turns
  BY <1>1, <1>3 DEF RowsFit, RowTypes, LeaseIsOpen, ApprovalRow, ApprovalStates
<1>5. QED
  BY <1>1, <1>2, <1>4, NoneIsNoTurn DEF CreateToolApproval, RowsFit, RowTypes, LeaseIsOpen, Unfinished

\* A turn that ends gives the session back.
LEMMA EndedTurnsRows ==
  ASSUME IInv, NEW t, Running(t), NEW how \in {"completed", "failed", "blocked"},
         how # "blocked" => control[t] = "none",
         session' = Free, outcome' = [outcome EXCEPT ![t] = how],
         message' \in [Messages -> MessageRow], UNCHANGED <<control, approval>>
  PROVE  RowsFit'
<1> USE RowsDoFit
<1>1. t \in Turns
  BY HoldersAreTurns DEF Running
<1>2. /\ outcome' \in [Turns -> Outcomes] /\ outcome'[t] = how
      /\ \A u \in Turns : u # t => outcome'[u] = outcome[u]
  BY <1>1 DEF RowsFit, RowTypes, Outcomes
<1>3. LeaseIsOpen'
  BY <1>1, <1>2, FreeFits, OpenStaysOpen DEF RowsFit, LeaseIsOpen, Unfinished
<1>4. QED
  BY <1>2, <1>3, FreeFits DEF RowsFit, RowTypes

LEMMA TurnEndsRows ==
  ASSUME IInv, NEW i \in Calls, CompleteTurn(i) \/ FailTurn(i) \/ BlockContinuation(i)
  PROVE  RowsFit'
<1>1. /\ CloseMessage(Turn(i), "completed") \in [Messages -> MessageRow]
      /\ CloseMessage(Turn(i), "failed") \in [Messages -> MessageRow]
  BY ClosedMessagesFit DEF MessageStates
<1>2. CASE CompleteTurn(i)
  BY <1>1, <1>2, EndedTurnsRows DEF CompleteTurn
<1>3. CASE FailTurn(i)
  <2>1. CASE control[Turn(i)] = "none" /\ Running(Turn(i))
    BY <1>1, <1>3, <2>1, EndedTurnsRows DEF FailTurn
  <2>2. CASE ~(control[Turn(i)] = "none" /\ Running(Turn(i)))
    <3>1. UNCHANGED rows
      BY <1>3, <2>2 DEF FailTurn
    <3>2. QED
      BY <3>1, RowsDoFit DEF rows, RowsFit, RowTypes, LeaseIsOpen, Unfinished
  <2>3. QED
    BY <2>1, <2>2
<1>4. CASE BlockContinuation(i)
  BY <1>4, EndedTurnsRows, RowsDoFit DEF BlockContinuation, RowsFit, RowTypes
<1>5. QED
  BY <1>2, <1>3, <1>4

LEMMA ClaimRows ==
  ASSUME IInv, NEW i \in Calls, NEW decision \in {"executing", "denied"},
         ClaimApprovalDecision(i, decision)
  PROVE  RowsFit'
<1>1. CASE UNCHANGED approval
  BY <1>1, RowsDoFit DEF ClaimApprovalDecision, RowsFit, RowTypes, LeaseIsOpen, Unfinished
<1>2. CASE Asked(i).state = "pending" /\ Decided(i, decision)
  <2>1. /\ approval' \in [Approvals -> ApprovalRow]
        /\ \A a \in Approvals : approval'[a].state # "none" => approval'[a].turn \in Turns
    BY <1>2, DecisionFits DEF ApprovalStates, Asked
  <2>2. QED
    BY <2>1, RowsDoFit DEF ClaimApprovalDecision, RowsFit, RowTypes, LeaseIsOpen, Unfinished
<1>3. QED
  BY <1>1, <1>2 DEF ClaimApprovalDecision

LEMMA PersistApprovalReceiptRows ==
  ASSUME IInv, NEW i \in Calls, PersistApprovalReceipt(i)
  PROVE  RowsFit'
<1> DEFINE t == Turn(i)
<1>1. t \in Turns /\ Unfinished(t)
  BY HoldersAreTurns DEF PersistApprovalReceipt, Awaiting
<1> HIDE DEF t
<1>2. session' \in SessionRow /\ session'.turn = t /\ session'.state = "running"
  BY <1>1, HeldFits DEF PersistApprovalReceipt, t
<1>3. Asked(i).state # "none"
  BY DEF PersistApprovalReceipt
<1>4. /\ approval' \in [Approvals -> ApprovalRow]
      /\ \A a \in Approvals : approval'[a].state # "none" => approval'[a].turn \in Turns
  <2>1. call[i].result \in ApprovalStates
    BY CallIsTyped DEF WellPlaced, Fits, PersistApprovalReceipt, At, ApprovalStates
  <2>2. QED
    BY <1>3, <2>1, DecisionFits DEF Asked, PersistApprovalReceipt
<1>5. QED
  BY <1>1, <1>2, <1>4, RowsDoFit, NoneIsNoTurn
  DEF PersistApprovalReceipt, RowsFit, RowTypes, LeaseIsOpen, Unfinished

LEMMA StopTurnRows ==
  ASSUME IInv, NEW i \in Calls, NEW t \in Turns, StopTurn(i, t)
  PROVE  RowsFit'
<1> USE RowsDoFit
<1>1. Unfinished(t)
  BY HoldersAreTurns, NoneIsNoTurn DEF StopTurn, RowsFit, LeaseIsOpen
<1>2. /\ control' \in [Turns -> {"none", "stopping", "needs_review", "stopped"}]
      /\ \A u \in Turns : u # t => control'[u] = control[u]
  BY DEF StopTurn, RowsFit, RowTypes
<1>3. QED
  BY <1>1, <1>2 DEF StopTurn, RowsFit, RowTypes, LeaseIsOpen, Unfinished

LEMMA SettleRowsFit ==
  ASSUME IInv, NEW t \in Turns, NEW stopped \in BOOLEAN, SettleRows(t, stopped), control[t] # "none"
  PROVE  RowsFit'
<1> USE RowsDoFit
<1>1. /\ control' \in [Turns -> {"none", "stopping", "needs_review", "stopped"}]
      /\ \A u \in Turns : u # t => control'[u] = control[u]
  BY DEF SettleRows, RowsFit, RowTypes
<1>2. /\ approval' \in [Approvals -> ApprovalRow]
      /\ \A a \in Approvals : approval'[a].state # "none" => approval'[a].turn \in Turns
  BY CancelledApprovalsFit DEF SettleRows, RowsFit, LeaseIsOpen
<1>3. message' \in [Messages -> MessageRow]
  BY ClosedMessagesFit DEF SettleRows, MessageStates
<1>4. /\ session' \in SessionRow /\ (session'.turn = None <=> session'.state = "active")
      /\ session'.turn \in {None, session.turn}
  <2>1. CASE session.turn # t
    BY <2>1 DEF SettleRows, RowsFit, RowTypes
  <2>2. CASE session.turn = t /\ stopped
    BY <2>2, FreeFits DEF SettleRows
  <2>3. CASE session.turn = t /\ ~stopped
    BY <2>3, HeldFits, NoneIsNoTurn DEF SettleRows, Held
  <2>4. QED
    BY <2>1, <2>2, <2>3
<1>5. /\ outcome' \in [Turns -> Outcomes]
      /\ \A u \in Turns : outcome'[u] = outcome[u] \/ (outcome[u] = "open" /\ outcome'[u] = "stopped")
  BY DEF SettleRows, RowsFit, RowTypes, Outcomes
<1>6. \A u \in Turns : Unfinished(u) => Unfinished(u)'
  BY <1>5 DEF Unfinished
<1>7. LeaseIsOpen'
  BY <1>1, <1>2, <1>4, <1>6, HoldersAreTurns DEF RowsFit, LeaseIsOpen
<1>8. QED
  BY <1>1, <1>2, <1>3, <1>4, <1>5, <1>7 DEF RowsFit, RowTypes

LEMMA SettleKeepsRows ==
  ASSUME IInv, NEW i \in Calls, Settle(i)
  PROVE  RowsFit'
<1>1. Turn(i) \in Turns
  BY CallIsTyped DEF Settle, At, WellPlaced, Fits, Turn
<1>2. CASE UNCHANGED rows
  BY <1>2, RowsDoFit DEF rows, RowsFit, RowTypes, LeaseIsOpen, Unfinished
<1>3. CASE ~UNCHANGED rows
  <2>1. /\ SettleRows(Turn(i), call[i].sure /\ ~InDoubt(Turn(i)))
        /\ control[Turn(i)] # "none"
    BY <1>3 DEF Settle
  <2>2. QED
    BY <1>1, <2>1, SettleRowsFit
<1>4. QED
  BY <1>2, <1>3

\* An operation of the queue changes nothing but messages.
LEMMA MessageRows ==
  ASSUME IInv,
         \/ \E i \in Calls : \/ \E m \in Messages : QueueSteer(i, m)
                             \/ SteerTooLate(i) \/ ReportRefusal(i) \/ ReportTurn(i)
         \/ \E m \in Messages : QueueMessage(m) \/ CancelQueuedMessage(m)
         \/ RecoverMessageQueue
  PROVE  RowsFit'
<1> USE RowsDoFit
<1>1. message \in [Messages -> MessageRow] /\ UNCHANGED <<session, control, approval, outcome>>
  BY DEF RowsFit, RowTypes, QueueSteer, SteerTooLate, ReportRefusal, ReportTurn, QueueMessage,
         CancelQueuedMessage, RecoverMessageQueue
<1>2. ASSUME NEW m \in Messages, NEW s \in MessageStates
      PROVE  /\ [message[m] EXCEPT !.state = s] \in MessageRow
             /\ [message EXCEPT ![m].state = s] \in [Messages -> MessageRow]
  BY <1>1 DEF MessageRow
<1>3. ASSUME NEW i \in Calls, SteerTooLate(i) \/ ReportRefusal(i) \/ ReportTurn(i)
      PROVE  message' \in [Messages -> MessageRow]
  <2>1. CASE UNCHANGED message
    BY <1>1, <2>1
  <2>2. CASE ~UNCHANGED message
    <3>1. /\ call[i].message \in Messages \cup {None}
          /\ call[i].pc = "report" => call[i].result \in MessageStates
      BY CallIsTyped DEF CallRecord, WellPlaced, Fits, MessageStates
    <3>2. \E s \in MessageStates : message' = [message EXCEPT ![call[i].message].state = s]
      BY <1>3, <2>2, <3>1 DEF SteerTooLate, ReportRefusal, ReportTurn, At, MessageStates
    <3>3. CASE call[i].message \in Messages
      BY <1>2, <3>2, <3>3
    <3>4. CASE call[i].message \notin Messages
      BY <1>1, <3>2, <3>4
    <3>5. QED
      BY <3>3, <3>4
  <2>3. QED
    BY <2>1, <2>2
<1>4. ASSUME NEW m \in Messages, QueueMessage(m) \/ CancelQueuedMessage(m)
      PROVE  message' \in [Messages -> MessageRow]
  <2>1. PICK s \in {"queued", "cancelled"} : message' = [message EXCEPT ![m].state = s]
    BY <1>4 DEF QueueMessage, CancelQueuedMessage
  <2>2. s \in MessageStates
    BY DEF MessageStates
  <2>3. [message EXCEPT ![m].state = s] \in [Messages -> MessageRow]
    BY <1>2, <2>2
  <2>4. QED
    BY <2>1, <2>3
<1>5. ASSUME NEW i \in Calls, NEW m \in Messages, QueueSteer(i, m)
      PROVE  message' \in [Messages -> MessageRow]
  <2>1. [state |-> "queued", mode |-> "steer", base |-> session.turn, turn |-> None] \in MessageRow
    BY DEF MessageRow, MessageStates, RowsFit, RowTypes, SessionRow
  <2>2. "needs_review" \in MessageStates
    BY DEF MessageStates
  <2>3. QED
    BY <1>1, <1>2, <1>5, <2>1, <2>2 DEF QueueSteer
<1>6. ASSUME RecoverMessageQueue PROVE message' \in [Messages -> MessageRow]
  <2>1. "needs_review" \in MessageStates
    BY DEF MessageStates
  <2>2. QED
    BY <1>1, <1>2, <1>6, <2>1 DEF RecoverMessageQueue
<1>7. message' \in [Messages -> MessageRow]
  BY <1>3, <1>4, <1>5, <1>6
<1>8. QED
  BY <1>1, <1>7 DEF RowsFit, RowTypes, LeaseIsOpen, Unfinished

LEMMA RecoverInterruptedApprovalsRows ==
  ASSUME IInv, RecoverInterruptedApprovals
  PROVE  RowsFit'
<1> USE RowsDoFit
<1>1. PICK verdict \in [Interrupted -> {"executed", "pending", "uncertain"}] :
        approval' = [a \in Approvals |-> IF a \in Interrupted
                       THEN [approval[a] EXCEPT !.state = verdict[a]] ELSE approval[a]]
  BY DEF RecoverInterruptedApprovals
<1>2. ASSUME NEW a \in Approvals
      PROVE  /\ approval'[a] \in ApprovalRow
             /\ approval'[a].state # "none" => approval'[a].turn \in Turns
  <2>1. approval[a] \in ApprovalRow /\ (approval[a].state # "none" => approval[a].turn \in Turns)
    BY DEF RowsFit, RowTypes, LeaseIsOpen
  <2>2. CASE a \in Interrupted
    <3>1. verdict[a] \in ApprovalStates
      BY <2>2 DEF ApprovalStates
    <3>2. approval'[a] = [approval[a] EXCEPT !.state = verdict[a]] /\ approval[a].state # "none"
      BY <1>1, <2>2 DEF Interrupted
    <3>3. QED
      BY <2>1, <3>1, <3>2 DEF ApprovalRow
  <2>3. CASE a \notin Interrupted
    BY <1>1, <2>1, <2>3
  <2>4. QED
    BY <2>2, <2>3
<1>3. approval' \in [Approvals -> ApprovalRow]
  BY <1>1, <1>2
<1>4. session' = session \/ session' = Free
  BY DEF RecoverInterruptedApprovals
<1>5. QED
  BY <1>2, <1>3, <1>4, FreeFits
  DEF RecoverInterruptedApprovals, RowsFit, RowTypes, LeaseIsOpen, Unfinished

LEMMA RecoverInterruptedTurnsRows ==
  ASSUME IInv, RecoverInterruptedTurns
  PROVE  RowsFit'
<1> USE RowsDoFit
<1>1. CASE session.state = "running"
  <2>1. session' = Free /\ outcome' = [outcome EXCEPT ![session.turn] = "interrupted"]
    BY <1>1 DEF RecoverInterruptedTurns
  <2>2. /\ outcome' \in [Turns -> Outcomes]
        /\ \A t \in Turns : outcome'[t] = outcome[t] \/ outcome'[t] = "interrupted"
    BY <2>1 DEF RowsFit, RowTypes, Outcomes
  <2>3. QED
    BY <2>1, <2>2, FreeFits DEF RecoverInterruptedTurns, RowsFit, RowTypes, LeaseIsOpen, Unfinished
<1>2. CASE session.state # "running"
  BY <1>2 DEF RecoverInterruptedTurns, RowsFit, RowTypes, LeaseIsOpen, Unfinished
<1>3. QED
  BY <1>1, <1>2

\* The row that ORDER BY requested_at DESC LIMIT 1 picks exists.
LEMMA LatestTurn ==
  ASSUME NEW S \in SUBSET Turns, S # {}
  PROVE  \E t \in S : \A u \in S : u <= t
<1> DEFINE R == {ss \in Nat \X Nat : ss[1] < ss[2]}
           D == {n \in Nat : MaxTurns - n \in S}
<1>1. IsWellFoundedOn(R, Nat)
  BY NatLessThanWellFounded, Zenon DEF OpToRel
<1>2. D \in SUBSET Nat /\ D # {}
  <2>1. PICK t \in S : TRUE
    OBVIOUS
  <2>2. MaxTurns - t \in Nat /\ MaxTurns - (MaxTurns - t) = t
    BY TurnLeaseAssumption DEF Turns
  <2>3. QED
    BY <2>1, <2>2
<1> HIDE DEF R
<1>3. PICK n \in D : \A d \in D : ~ (<<d, n>> \in R)
  BY <1>1, <1>2, WFMin
<1>4. ASSUME NEW u \in S PROVE u <= MaxTurns - n
  <2>1. MaxTurns - u \in Nat /\ MaxTurns - (MaxTurns - u) = u /\ n \in Nat /\ u \in Int
    BY TurnLeaseAssumption DEF Turns
  <2>2. ASSUME MaxTurns - u < n PROVE FALSE
    <3>1. MaxTurns - u \in D
      BY <2>1
    <3>2. <<MaxTurns - u, n>> \in R
      BY <2>1, <2>2 DEF R
    <3>3. QED
      BY <1>3, <3>1, <3>2
  <2>3. QED
    BY <2>1, <2>2, TurnLeaseAssumption
<1>5. QED
  BY <1>3, <1>4

LEMMA RecoverTurnControlsRows ==
  ASSUME IInv, RecoverTurnControls
  PROVE  RowsFit'
<1> USE RowsDoFit
<1> DEFINE unsettled == {t \in Turns : control'[t] = "needs_review"}
           latest == CHOOSE t \in unsettled : \A u \in unsettled : u <= t
<1>1. /\ control' \in [Turns -> {"none", "stopping", "needs_review", "stopped"}]
      /\ \A t \in Turns : control'[t] # "none" <=> control[t] # "none"
  BY DEF RecoverTurnControls, RowsFit, RowTypes
<1>2. /\ session' = IF unsettled = {} THEN session ELSE [state |-> "control_blocked", turn |-> latest]
      /\ approval' = CancelPending({t \in Turns : control[t] # "none"})
      /\ message' = [m \in Messages |->
           IF /\ message[m].state = "queued" /\ message[m].mode = "steer"
              /\ message[m].base \in unsettled
           THEN [message[m] EXCEPT !.state = "needs_review"] ELSE message[m]]
  BY DEF RecoverTurnControls
<1>3. /\ approval' \in [Approvals -> ApprovalRow]
      /\ \A a \in Approvals : approval'[a].state # "none" => approval'[a].turn \in Turns
  BY <1>2, CancelledApprovalsFit DEF RowsFit, LeaseIsOpen
<1>4. message' \in [Messages -> MessageRow]
  <2>1. \A m \in Messages : [message[m] EXCEPT !.state = "needs_review"] \in MessageRow
    BY DEF RowsFit, RowTypes, MessageRow, MessageStates
  <2>2. QED
    BY <1>2, <2>1 DEF RowsFit, RowTypes
<1>5. unsettled # {} => latest \in unsettled
  BY LatestTurn, Zenon
<1>6. /\ session' \in SessionRow /\ (session'.turn = None <=> session'.state = "active")
      /\ session'.turn # None => Unfinished(session'.turn)
  <2>1. CASE unsettled = {}
    BY <1>2, <2>1 DEF RowsFit, RowTypes, LeaseIsOpen
  <2>2. CASE unsettled # {}
    <3>1. latest \in Turns /\ control[latest] # "none"
      BY <1>1, <1>5, <2>2
    <3>2. Unfinished(latest)
      BY <3>1 DEF RowsFit, LeaseIsOpen
    <3> HIDE DEF latest
    <3>3. session' = [state |-> "control_blocked", turn |-> latest]
      BY <1>2, <2>2
    <3>4. QED
      BY <3>1, <3>2, <3>3, NoneIsNoTurn DEF SessionRow, SessionStates
  <2>3. QED
    BY <2>1, <2>2
<1>7. QED
  BY <1>1, <1>3, <1>4, <1>6 DEF RecoverTurnControls, RowsFit, RowTypes, LeaseIsOpen, Unfinished

LEMMA RowsKeepFitting ==
  ASSUME IInv, [Next]_vars
  PROVE  RowsFit'
<1>1. CASE UNCHANGED rows
  BY <1>1, RowsDoFit DEF rows, RowsFit, RowTypes, LeaseIsOpen, Unfinished
<1>2. ASSUME NEW i \in Calls, RunsTurn(i) PROVE RowsFit' \/ UNCHANGED rows
  BY <1>2, AcquireTurnRows, CreateToolApprovalRows, TurnEndsRows
  DEF RunsTurn, RegisterTurn, UsesCommands, StartCommand, CancelCommand, LoopPauses, LoopFails, EndExecution, LeaveExecution
<1>3. ASSUME NEW i \in Calls, DecidesApproval(i) PROVE RowsFit' \/ UNCHANGED rows
  BY <1>3, ClaimRows, PersistApprovalReceiptRows, TurnEndsRows
  DEF DecidesApproval, ReadApproval, RegisterDecision, CarryOut, ToolReturns, PersistFails,
      DecisionCancelled, DecisionStands, ContinueLoop
<1>4. ASSUME NEW i \in Calls, StopsTurn(i) PROVE RowsFit' \/ UNCHANGED rows
  BY <1>4, StopTurnRows, SettleKeepsRows DEF StopsTurn, ReconcileStoppedTurn, Observe
<1>5. ASSUME NEW i \in Calls, UsesQueue(i) PROVE RowsFit' \/ UNCHANGED rows
  BY <1>5, MessageRows DEF UsesQueue, DrainOneQueued, DrainRefused
<1>6. ASSUME \/ \E t \in Turns : CommandEnds(t)
             \/ \E m \in Messages : QueueMessage(m) \/ CancelQueuedMessage(m)
             \/ Crash \/ Startup
      PROVE  RowsFit' \/ UNCHANGED rows
  BY <1>6, MessageRows, RecoverInterruptedApprovalsRows, RecoverInterruptedTurnsRows,
     RecoverTurnControlsRows DEF CommandEnds, Crash, Startup
<1>7. CASE UNCHANGED vars
  BY <1>1, <1>7 DEF vars, rows
<1>8. QED
  BY <1>1, <1>2, <1>3, <1>4, <1>5, <1>6, <1>7 DEF Next

-----------------------------------------------------------------------------
(* The rest of the types; types and stops.                                 *)

WorldTypes ==
  /\ boot \in {"up", "queue", "approvals", "turns", "controls"}
  /\ restarts \in 0..MaxRestarts
  /\ did \in [Approvals -> Nat]
  /\ live \in SUBSET Turns /\ loose \in SUBSET live /\ saved \in [Turns -> SUBSET live]

LEMMA WorldKeepsTyped ==
  ASSUME IInv, [Next]_vars
  PROVE  WorldTypes'
<1>1. WorldTypes
  BY DEF IInv, TypeOK, WorldTypes
<1>2. CASE UNCHANGED <<world, process>>
  BY <1>1, <1>2 DEF world, commands, process, WorldTypes
<1>3. ASSUME NEW i \in Calls, UsesCommands(i) PROVE WorldTypes'
  <2>1. CASE StartCommand(i)
    <3>1. Turn(i) \in Turns
      BY <2>1, CallIsTyped DEF StartCommand, At, WellPlaced, Fits, Turn
    <3>2. QED
      BY <1>1, <2>1, <3>1 DEF StartCommand, process, WorldTypes
  <2>2. CASE \E u \in Turns : CancelCommand(i, u)
    BY <1>1, <2>2 DEF CancelCommand, Counted, process, WorldTypes
  <2>3. QED
    BY <1>3, <2>1, <2>2 DEF UsesCommands
<1>e. ASSUME NEW ended, EndCommands(ended), UNCHANGED <<did, process>> PROVE WorldTypes'
  BY <1>1, <1>e DEF EndCommands, process, WorldTypes
<1>s. ASSUME NEW t, saved' = [saved EXCEPT ![t] = Counted \cup saved[t]] \/ saved' = [saved EXCEPT ![t] = Counted],
             UNCHANGED <<did, live, loose, process>>
      PROVE  WorldTypes'
  BY <1>1, <1>s DEF Counted, process, WorldTypes
<1>4. ASSUME NEW i \in Calls, Observe(i) \/ \E t \in Turns : StopTurn(i, t) PROVE WorldTypes'
  <2>1. CASE Observe(i)
    BY <2>1, <1>e, <1>s DEF Observe, Owned
  <2>2. CASE \E t \in Turns : StopTurn(i, t)
    BY <2>2, <1>s DEF StopTurn
  <2>3. QED
    BY <1>4, <2>1, <2>2
<1>5. ASSUME NEW i \in Calls, CarryOut(i) PROVE WorldTypes'
  <2>1. did' = [did EXCEPT ![call[i].approval] = @ + 1]
    BY <1>5 DEF CarryOut
  <2>2. did' \in [Approvals -> Nat]
    <3> DEFINE b == call[i].approval
               n == did[b] + 1
    <3>1. did \in [Approvals -> Nat] /\ did' = [did EXCEPT ![b] = n]
      BY <1>1, <2>1 DEF WorldTypes
    <3>2. b \in Approvals => n \in Nat
      BY <3>1
    <3> HIDE DEF b, n
    <3>3. QED
      BY <3>1, <3>2
  <2>3. QED
    BY <1>1, <1>5, <2>2 DEF CarryOut, commands, process, WorldTypes
<1>6. CASE Crash \/ Startup \/ \E t \in Turns : CommandEnds(t)
  <2>1. CASE \E t \in Turns : CommandEnds(t)
    BY <2>1, <1>e DEF CommandEnds
  <2>2. CASE Crash \/ Startup
    BY <1>1, <2>2, TurnLeaseAssumption
    DEF Crash, Startup, RecoverMessageQueue, RecoverInterruptedApprovals, RecoverInterruptedTurns,
        RecoverTurnControls, world, commands, process, WorldTypes
  <2>3. QED
    BY <1>6, <2>1, <2>2
<1>7. ASSUME NEW i \in Calls, RunsTurn(i) PROVE UNCHANGED <<world, process>> \/ UsesCommands(i)
  BY <1>7 DEF RunsTurn, AcquireTurn, RegisterTurn, CreateToolApproval, LoopPauses, LoopFails,
              CompleteTurn, FailTurn, EndExecution, LeaveExecution
<1>8. ASSUME NEW i \in Calls, DecidesApproval(i) PROVE UNCHANGED <<world, process>> \/ CarryOut(i)
  BY <1>8 DEF DecidesApproval, ReadApproval, RegisterDecision, ClaimApprovalDecision, ToolReturns,
              PersistApprovalReceipt, PersistFails, DecisionCancelled, DecisionStands, ContinueLoop,
              BlockContinuation
<1>9. ASSUME NEW i \in Calls, StopsTurn(i) \/ UsesQueue(i)
      PROVE  UNCHANGED <<world, process>> \/ Observe(i) \/ \E t \in Turns : StopTurn(i, t)
  BY <1>9 DEF StopsTurn, ReconcileStoppedTurn, Settle, UsesQueue, QueueSteer,
              DrainOneQueued, SteerTooLate, DrainRefused, ReportRefusal, ReportTurn
<1>10. ASSUME NEW m \in Messages, QueueMessage(m) \/ CancelQueuedMessage(m)
       PROVE  UNCHANGED <<world, process>>
  BY <1>10 DEF QueueMessage, CancelQueuedMessage
<1>11. CASE UNCHANGED vars
  BY <1>2, <1>11 DEF vars, world, commands, process
<1>12. QED
  BY <1>2, <1>3, <1>4, <1>5, <1>6, <1>7, <1>8, <1>9, <1>10, <1>11 DEF Next

LEMMA InitFits == Init => IInv
<1> SUFFICES ASSUME Init PROVE IInv
  OBVIOUS
<1>1. CallsFit /\ call \in [Calls -> CallRecord]
  BY NoCallFits, Zenon DEF Init, CallsFit
<1>2. LeaseIsOpen
  BY FreeFits DEF Init, LeaseIsOpen
<1>3. approval \in [Approvals -> ApprovalRow] /\ message \in [Messages -> MessageRow]
  BY DEF Init, ApprovalRow, ApprovalStates, MessageRow, MessageStates
<1>4. QED
  BY <1>1, <1>2, <1>3, FreeFits, TurnLeaseAssumption DEF Init, IInv, TypeOK, Outcomes

LEMMA Inductive == IInv /\ [Next]_vars => IInv'
  BY CallsKeepFitting, RowsKeepFitting, WorldKeepsTyped
  DEF IInv, TypeOK, RowsFit, RowTypes, WorldTypes

LEMMA Invariance == Spec => []IInv
  BY InitFits, Inductive, PTL DEF Spec

\* Types, for any number of turns, approvals, messages, goroutines and restarts.
THEOREM TypeCorrect == Spec => []TypeOK
<1>1. IInv => TypeOK
  BY DEF IInv
<1>2. QED
  BY <1>1, Invariance, PTL

\* No turn that was asked to stop is reported as completed or failed.
THEOREM StopIsRespected == Spec => []StopWins
<1>1. IInv => StopWins
  BY DEF IInv, TypeOK, LeaseIsOpen, Unfinished, StopWins
<1>2. QED
  BY <1>1, Invariance, PTL

-----------------------------------------------------------------------------
(* One attempt per approval.                                               *)

Asks(c) == c.pc \in {"read", "claim", "tool", "receipt"}
Acts(c) == c.pc \in {"tool", "receipt"}

\* What a call that acts on an approval may rely on: its claim still stands.
ClaimStands(c) ==
  /\ c.pc = "tool" => /\ approval[c.approval].state = "executing"
                      /\ ~c.acted => did[c.approval] = 0
  /\ c.pc = "receipt" =>
       approval[c.approval].state = IF c.result = "denied" THEN "denied" ELSE "executing"

(***************************************************************************)
(* No two calls act on the same approval, and none does during startup,    *)
(* when the claims of the last process are looked at.                      *)
(***************************************************************************)
OneActor ==
  /\ \A i \in Calls : Asks(call[i]) => call[i].approval \in Approvals
  /\ \A i \in Calls : ClaimStands(call[i])
  /\ \A i, j \in Calls : i # j /\ Acts(call[i]) /\ Acts(call[j])
                         => call[i].approval # call[j].approval
  /\ ~Up => \A i \in Calls : call[i] = NoCall

AttemptInv == OneActor /\ OneAttempt

Others(i) == \A j \in Calls : j # i => call'[j] = call[j]
Hushed(i) == ~Asks(call'[i]) /\ Others(i)
Withdrawn == approval' = approval \/ \E S : approval' = CancelPending(S)

LEMMA GoHushes ==
  ASSUME IInv, NEW i \in Calls, NEW p, p \notin {"read", "claim", "tool", "receipt"},
         Go(i, p) \/ \E r : Finish(i, p, r)
  PROVE  Hushed(i)
<1>1. call[i] \in CallRecord /\ call \in [Calls -> CallRecord]
  BY DEF IInv, TypeOK
<1>2. call'[i].pc = p
  BY <1>1 DEF Go, Finish, CallRecord
<1>3. Others(i)
  BY <1>1 DEF Go, Finish, Others
<1>4. QED
  BY <1>2, <1>3 DEF Hushed, Asks

LEMMA ReturnHushes ==
  ASSUME IInv, NEW i \in Calls, Return(i) \/ call' = [call EXCEPT ![i] = NoCall]
  PROVE  Hushed(i)
<1>1. call[i] \in CallRecord /\ call \in [Calls -> CallRecord]
  BY DEF IInv, TypeOK
<1>2. call'[i].pc \in {"report", "idle"}
  BY <1>1 DEF Return, CallRecord, NoCall
<1>3. Others(i)
  BY <1>1 DEF Return, Others
<1>4. QED
  BY <1>2, <1>3 DEF Hushed, Asks

LEMMA RunsTurnHushes ==
  ASSUME IInv, NEW i \in Calls,
         \/ \E t \in Turns : AcquireTurn(i, t)
         \/ RegisterTurn(i) \/ LoopPauses(i) \/ LoopFails(i) \/ CompleteTurn(i) \/ FailTurn(i)
         \/ EndExecution(i) \/ LeaveExecution(i)
  PROVE  Hushed(i) /\ Up
<1> call \in [Calls -> CallRecord]
  BY DEF IInv, TypeOK
<1>0. Up
  BY DEF AcquireTurn, RegisterTurn, LoopPauses, LoopFails, CompleteTurn, FailTurn, EndExecution,
         LeaveExecution, At
<1>1. ASSUME NEW t \in Turns, AcquireTurn(i, t) PROVE Hushed(i)
  <2>1. call' = [call EXCEPT ![i].op = "run", ![i].pc = "acquired", ![i].turn = t]
    BY <1>1 DEF AcquireTurn
  <2>2. QED
    BY <2>1 DEF Hushed, Others, Asks, CallRecord
<1>2. CASE RegisterTurn(i) \/ EndExecution(i)
  <2>1. PICK p \in {"loop", "ended"}, b \in BOOLEAN :
          call' = [call EXCEPT ![i].pc = p, ![i].registered = b]
    BY <1>2 DEF RegisterTurn, EndExecution
  <2>2. QED
    BY <1>0, <2>1 DEF Hushed, Others, Asks, CallRecord
<1>3. CASE LoopPauses(i)
  <2>1. Finish(i, "failing", "awaiting_approval") \/ Finish(i, "ending", "awaiting_approval")
    BY <1>3 DEF LoopPauses
  <2>2. QED
    BY <1>0, <2>1, GoHushes
<1>4. CASE LoopFails(i) \/ CompleteTurn(i)
  BY <1>0, <1>4, GoHushes DEF LoopFails, CompleteTurn
<1>5. CASE FailTurn(i)
  BY <1>0, <1>5, GoHushes DEF FailTurn
<1>6. CASE LeaveExecution(i)
  BY <1>0, <1>6, GoHushes, ReturnHushes DEF LeaveExecution
<1>8. QED
  BY <1>0, <1>1, <1>2, <1>3, <1>4, <1>5, <1>6

LEMMA OthersHush ==
  ASSUME IInv, NEW i \in Calls,
         \/ PersistFails(i) \/ DecisionCancelled(i) \/ DecisionStands(i) \/ ContinueLoop(i)
         \/ BlockContinuation(i) \/ StopsTurn(i) \/ UsesQueue(i)
  PROVE  Hushed(i) /\ Up
<1> call \in [Calls -> CallRecord]
  BY DEF IInv, TypeOK
<1>1. CASE \/ DecisionCancelled(i) \/ DecisionStands(i) \/ ContinueLoop(i) \/ BlockContinuation(i)
  BY <1>1, GoHushes DEF DecisionCancelled, DecisionStands, ContinueLoop, BlockContinuation, At
<1>2. CASE PersistFails(i)
  <2>1. Finish(i, "failing", "failed") \/ Finish(i, "ending", "failed")
    BY <1>2 DEF PersistFails
  <2>2. QED
    BY <1>2, <2>1, GoHushes DEF PersistFails, At
<1>3. ASSUME NEW t \in Turns, StopTurn(i, t) PROVE Hushed(i) /\ Up
  BY <1>3 DEF StopTurn, Hushed, Others, Asks, NoCall, At
<1>4. ASSUME NEW t \in Turns, ReconcileStoppedTurn(i, t) PROVE Hushed(i) /\ Up
  BY <1>4 DEF ReconcileStoppedTurn, Hushed, Others, Asks, CallRecord, At
<1>5. CASE Observe(i)
  BY <1>5 DEF Observe, Hushed, Others, Asks, CallRecord, At
<1>6. CASE Settle(i)
  <2>1. CASE call[i].registered
    <3>1. PICK r : call' = [call EXCEPT ![i] = [call[i] EXCEPT !.pc = "ending", !.result = r]]
      BY <1>6, <2>1 DEF Settle
    <3>2. QED
      BY <1>6, <3>1 DEF Settle, Hushed, Others, Asks, CallRecord, At
  <2>2. CASE ~call[i].registered
    BY <1>6, <2>2, ReturnHushes DEF Settle, At
  <2>3. QED
    BY <2>1, <2>2
<1>7. ASSUME NEW m \in Messages, QueueSteer(i, m) \/ DrainOneQueued(i, m) PROVE Hushed(i) /\ Up
  BY <1>7 DEF QueueSteer, DrainOneQueued, Hushed, Others, Asks, CallRecord, At
<1>8. CASE SteerTooLate(i) \/ DrainRefused(i) \/ ReportRefusal(i) \/ ReportTurn(i)
  BY <1>8, GoHushes, ReturnHushes DEF SteerTooLate, DrainRefused, ReportRefusal, ReportTurn, At
<1>9. QED
  BY <1>1, <1>2, <1>3, <1>4, <1>5, <1>6, <1>7, <1>8 DEF StopsTurn, UsesQueue

\* A stop withdraws approvals that are pending; nothing else is touched.
LEMMA HushedRows ==
  ASSUME NEW i \in Calls,
         \/ \E t \in Turns : AcquireTurn(i, t)
         \/ RegisterTurn(i) \/ LoopPauses(i) \/ LoopFails(i) \/ CompleteTurn(i) \/ FailTurn(i)
         \/ EndExecution(i) \/ LeaveExecution(i)
         \/ PersistFails(i) \/ DecisionCancelled(i) \/ DecisionStands(i) \/ ContinueLoop(i)
         \/ BlockContinuation(i) \/ StopsTurn(i) \/ UsesQueue(i)
  PROVE  Withdrawn /\ UNCHANGED <<did, boot>>
<1>1. CASE \/ \E t \in Turns : AcquireTurn(i, t)
           \/ RegisterTurn(i) \/ LoopPauses(i) \/ LoopFails(i) \/ CompleteTurn(i) \/ FailTurn(i)
           \/ EndExecution(i) \/ LeaveExecution(i)
  BY <1>1 DEF AcquireTurn, RegisterTurn, LoopPauses, LoopFails, CompleteTurn, FailTurn, EndExecution,
              LeaveExecution, Withdrawn, rows, world, process
<1>2. CASE \/ PersistFails(i) \/ DecisionCancelled(i) \/ DecisionStands(i) \/ ContinueLoop(i)
           \/ BlockContinuation(i)
  BY <1>2 DEF PersistFails, DecisionCancelled, DecisionStands, ContinueLoop, BlockContinuation,
              Withdrawn, rows, world, process
<1>3. CASE Settle(i)
  BY <1>3 DEF Settle, SettleRows, Withdrawn, rows, world, process
<1>4. CASE StopsTurn(i)
  BY <1>3, <1>4 DEF StopsTurn, StopTurn, ReconcileStoppedTurn, Observe, Withdrawn, rows, world, process
<1>5. CASE UsesQueue(i)
  BY <1>5 DEF UsesQueue, QueueSteer, DrainOneQueued, SteerTooLate, DrainRefused, ReportRefusal,
              ReportTurn, Withdrawn, rows, world, process
<1>6. QED
  BY <1>1, <1>2, <1>4, <1>5

LEMMA ApprovalsAreRows ==
  ASSUME IInv, NEW a \in Approvals
  PROVE  /\ approval \in [Approvals -> ApprovalRow] /\ did \in [Approvals -> Nat]
         /\ did[a] \in Nat
  BY DEF IInv, TypeOK

LEMMA WithdrawnRows ==
  ASSUME IInv, Withdrawn, NEW a \in Approvals
  PROVE  \/ approval'[a].state = approval[a].state
         \/ approval[a].state = "pending" /\ approval'[a].state = "cancelled"
<1>1. approval[a] \in ApprovalRow
  BY ApprovalsAreRows
<1>2. ASSUME NEW S, approval' = CancelPending(S)
      PROVE  \/ approval'[a].state = approval[a].state
             \/ approval[a].state = "pending" /\ approval'[a].state = "cancelled"
  BY <1>1, <1>2 DEF CancelPending, ApprovalRow
<1>3. QED
  BY <1>2 DEF Withdrawn

\* A step that nobody makes on behalf of an approval.
LEMMA NobodyActs ==
  ASSUME IInv, AttemptInv, Withdrawn, did' = did,
         \A j \in Calls : Asks(call'[j]) => call'[j] = call[j],
         (~Up)' => \A j \in Calls : call'[j] = NoCall
  PROVE  AttemptInv'
<1>1. ASSUME NEW j \in Calls, Asks(call'[j]) PROVE call'[j] = call[j]
  BY <1>1
<1>2. ASSUME NEW a \in Approvals
      PROVE  /\ approval[a].state # "pending" => approval'[a].state = approval[a].state
             /\ did'[a] = did[a]
             /\ approval'[a].state \in {"none", "pending", "denied", "cancelled"}
                  => approval[a].state \in {"none", "pending", "denied", "cancelled"}
  BY WithdrawnRows
<1>3. OneAttempt'
  BY <1>2 DEF AttemptInv, OneAttempt
<1>4. \A j \in Calls : Asks(call'[j]) => call'[j].approval \in Approvals
  BY <1>1 DEF AttemptInv, OneActor
<1>5. ASSUME NEW j \in Calls PROVE ClaimStands(call[j])'
  <2>1. CASE Acts(call'[j])
    <3>1. call'[j] = call[j] /\ call[j].approval \in Approvals /\ ClaimStands(call[j])
      BY <1>1, <2>1 DEF Acts, Asks, AttemptInv, OneActor
    <3>2. QED
      BY <1>2, <3>1 DEF ClaimStands
  <2>2. CASE ~Acts(call'[j])
    BY <2>2 DEF Acts, ClaimStands
  <2>3. QED
    BY <2>1, <2>2
<1>6. \A j, k \in Calls : j # k /\ Acts(call'[j]) /\ Acts(call'[k])
                            => call'[j].approval # call'[k].approval
  BY <1>1 DEF Acts, Asks, AttemptInv, OneActor
<1>7. QED
  BY <1>3, <1>4, <1>5, <1>6 DEF AttemptInv, OneActor, Asks, Acts

LEMMA QuietStep ==
  ASSUME IInv, AttemptInv, Withdrawn, did' = did, Up, boot' = boot, NEW i \in Calls, Hushed(i)
  PROVE  AttemptInv'
<1>1. \A j \in Calls : Asks(call'[j]) => call'[j] = call[j]
  BY DEF Hushed, Others
<1>2. Up'
  BY DEF Up
<1>3. QED
  BY <1>1, <1>2, NobodyActs

LEMMA StillStep ==
  ASSUME IInv, AttemptInv, Withdrawn, did' = did, call' = call, Up' \/ ~Up
  PROVE  AttemptInv'
<1>1. (~Up)' => \A j \in Calls : call'[j] = NoCall
  BY DEF AttemptInv, OneActor
<1>2. QED
  BY <1>1, NobodyActs

LEMMA NoCallIsQuiet ==
  ASSUME \A j \in Calls : call'[j] = NoCall
  PROVE  OneActor'
<1>1. NoCall.pc = "idle"
  BY DEF NoCall
<1>2. QED
  BY <1>1 DEF OneActor, Asks, Acts, ClaimStands

\* A call that comes to act, or goes on acting, on its own approval.
LEMMA ActingStep ==
  ASSUME IInv, AttemptInv, NEW i \in Calls, Up, Up', Others(i),
         NEW a \in Approvals, OneAttempt',
         Asks(call'[i]) => call'[i].approval = a,
         ClaimStands(call[i])',
         \A j \in Calls : j # i /\ Acts(call[j]) => call[j].approval # a,
         \A b \in Approvals : b # a => approval'[b] = approval[b] /\ did'[b] = did[b]
  PROVE  AttemptInv'
<1>1. \A j \in Calls : j # i => call'[j] = call[j]
  BY DEF Others
<1>2. \A j \in Calls : Asks(call'[j]) => call'[j].approval \in Approvals
  BY <1>1 DEF AttemptInv, OneActor
<1>3. ASSUME NEW j \in Calls, j # i PROVE ClaimStands(call[j])'
  <2>1. CASE Acts(call[j])
    <3>1. call'[j] = call[j] /\ call[j].approval \in Approvals /\ ClaimStands(call[j])
      BY <1>1, <1>3, <2>1 DEF Acts, Asks, AttemptInv, OneActor
    <3>2. call[j].approval # a
      BY <1>3, <2>1
    <3>3. QED
      BY <3>1, <3>2 DEF ClaimStands
  <2>2. CASE ~Acts(call[j])
    BY <1>1, <1>3, <2>2 DEF Acts, ClaimStands
  <2>3. QED
    BY <2>1, <2>2
<1>4. ClaimStands(call[i])'
  OBVIOUS
<1>5. \A j, k \in Calls : j # k /\ Acts(call'[j]) /\ Acts(call'[k])
                            => call'[j].approval # call'[k].approval
  BY <1>1 DEF Acts, Asks, AttemptInv, OneActor
<1>6. QED
  BY <1>2, <1>3, <1>4, <1>5 DEF AttemptInv, OneActor, Asks, Acts

LEMMA AsksAreTyped ==
  ASSUME IInv, AttemptInv, NEW i \in Calls
  PROVE  /\ call \in [Calls -> CallRecord] /\ call[i] \in CallRecord
         /\ Asks(call[i]) => call[i].approval \in Approvals
         /\ ClaimStands(call[i])
         /\ \A j \in Calls : j # i /\ Acts(call[i]) /\ Acts(call[j])
                               => call[j].approval # call[i].approval
  BY DEF IInv, TypeOK, AttemptInv, OneActor

\* Nobody acts on an approval that is not decided.
LEMMA UndecidedIsUntouched ==
  ASSUME IInv, AttemptInv, NEW a \in Approvals, approval[a].state \in {"none", "pending"}
  PROVE  /\ \A j \in Calls : Acts(call[j]) => call[j].approval # a
         /\ did[a] = 0
  BY DEF AttemptInv, OneActor, OneAttempt, Acts, ClaimStands

LEMMA CreateKeepsAttempts ==
  ASSUME IInv, AttemptInv, NEW i \in Calls, NEW a \in Approvals, NEW authorized \in BOOLEAN,
         CreateToolApproval(i, a, authorized)
  PROVE  AttemptInv'
<1>1. call \in [Calls -> CallRecord] /\ call[i] \in CallRecord
  BY AsksAreTyped
<1>2. /\ call'[i].pc \in {"claim", "paused"} /\ call'[i].approval = a /\ Others(i)
  BY <1>1 DEF CreateToolApproval, CallRecord, Others
<1>3. /\ approval'[a].state = "pending" /\ did' = did
      /\ \A b \in Approvals : b # a => approval'[b] = approval[b]
  BY ApprovalsAreRows DEF CreateToolApproval, world
<1>4. approval[a].state = "none"
  BY DEF CreateToolApproval
<1>5. OneAttempt'
  BY <1>3, <1>4, UndecidedIsUntouched DEF AttemptInv, OneAttempt
<1>6. Up /\ Up'
  BY DEF CreateToolApproval, At, process, Up
<1>7. ClaimStands(call[i])'
  BY <1>2 DEF ClaimStands
<1>8. QED
  BY <1>2, <1>3, <1>4, <1>5, <1>6, <1>7, UndecidedIsUntouched, ActingStep

LEMMA ReadKeepsAttempts ==
  ASSUME IInv, AttemptInv, NEW i \in Calls, NEW a \in Approvals, ReadApproval(i, a)
  PROVE  AttemptInv'
<1>1. call \in [Calls -> CallRecord] /\ call[i] \in CallRecord
  BY AsksAreTyped
<1>2. /\ call'[i].pc = "read" /\ call'[i].approval = a /\ Others(i)
  BY <1>1 DEF ReadApproval, CallRecord, Others
<1>3. approval' = approval /\ did' = did /\ Up /\ Up' /\ approval[a].state = "pending"
  BY DEF ReadApproval, At, rows, world, process, Up
<1>4. OneAttempt' /\ ClaimStands(call[i])'
  BY <1>2, <1>3 DEF ClaimStands, AttemptInv, OneAttempt
<1>5. QED
  BY <1>2, <1>3, <1>4, UndecidedIsUntouched, ActingStep

LEMMA RegisterKeepsAttempts ==
  ASSUME IInv, AttemptInv, NEW i \in Calls, RegisterDecision(i)
  PROVE  AttemptInv'
<1>1. call \in [Calls -> CallRecord] /\ call[i] \in CallRecord /\ call[i].pc = "read"
  BY AsksAreTyped DEF RegisterDecision, At
<1>2. approval' = approval /\ did' = did /\ boot' = boot /\ Up /\ Up'
  BY DEF RegisterDecision, At, rows, world, process, Up
<1>3. CASE Return(i)
  <2>1. Hushed(i) /\ Withdrawn
    BY <1>2, <1>3, ReturnHushes DEF Withdrawn
  <2>2. QED
    BY <1>2, <2>1, QuietStep
<1>4. CASE ~Return(i)
  <2>1. /\ call'[i].pc \in {"claim", "ending"} /\ call'[i].approval = call[i].approval /\ Others(i)
    BY <1>1, <1>4 DEF RegisterDecision, CallRecord, Others
  <2>2. \A j \in Calls : Asks(call'[j]) => Asks(call[j]) /\ call'[j].approval = call[j].approval
    BY <1>1, <2>1 DEF Asks, Others
  <2>3. \A j \in Calls : Acts(call'[j]) => call'[j] = call[j]
    BY <2>1 DEF Acts, Others
  <2>4. \A j \in Calls : ClaimStands(call[j])'
    BY <1>2, <2>3 DEF Acts, ClaimStands, AttemptInv, OneActor
  <2>5. \A j, k \in Calls : j # k /\ Acts(call'[j]) /\ Acts(call'[k])
                            => call'[j].approval # call'[k].approval
    BY <2>3 DEF AttemptInv, OneActor
  <2>6. OneAttempt'
    BY <1>2 DEF AttemptInv, OneAttempt
  <2>7. \A j \in Calls : Asks(call'[j]) => call'[j].approval \in Approvals
    BY <2>2 DEF AttemptInv, OneActor
  <2>8. QED
    BY <1>2, <2>4, <2>5, <2>6, <2>7 DEF AttemptInv, OneActor, Acts, Asks
<1>5. QED
  BY <1>3, <1>4

LEMMA ClaimKeepsAttempts ==
  ASSUME IInv, AttemptInv, NEW i \in Calls,
         NEW decision \in {"executing", "denied"}, ClaimApprovalDecision(i, decision)
  PROVE  AttemptInv'
<1>1. call \in [Calls -> CallRecord] /\ call[i] \in CallRecord /\ call[i].approval \in Approvals
  BY AsksAreTyped DEF ClaimApprovalDecision, At, Asks
<1>2. did' = did /\ boot' = boot /\ Up /\ Up'
  BY DEF ClaimApprovalDecision, At, world, process, Up
<1>3. CASE ~(Asked(i).state = "pending" /\ control[Turn(i)] = "none")
  <2>1. Go(i, "failing") \/ Go(i, "ending")
    BY <1>3 DEF ClaimApprovalDecision
  <2>2. approval' = approval
    BY <1>3 DEF ClaimApprovalDecision
  <2>3. Hushed(i) /\ Withdrawn
    BY <2>1, <2>2, GoHushes DEF Withdrawn
  <2>4. QED
    BY <1>2, <2>3, QuietStep
<1>4. CASE Asked(i).state = "pending" /\ control[Turn(i)] = "none"
  <2> DEFINE a == call[i].approval
  <2>1. /\ a \in Approvals /\ approval[a].state = "pending"
        /\ Decided(i, decision)
        /\ IF decision = "executing" THEN Finish(i, "tool", "none") ELSE Finish(i, "receipt", "denied")
    BY <1>1, <1>4 DEF ClaimApprovalDecision, Asked
  <2>2. /\ approval'[a].state = decision
        /\ \A b \in Approvals : b # a => approval'[b] = approval[b]
    BY <2>1, ApprovalsAreRows DEF Decided, ApprovalRow
  <2>3. /\ Others(i) /\ call'[i].approval = a
        /\ call'[i].pc = IF decision = "executing" THEN "tool" ELSE "receipt"
        /\ decision = "denied" => call'[i].result = "denied"
    BY <1>1, <2>1 DEF Finish, Others, CallRecord
  <2>4. did[a] = 0 /\ \A j \in Calls : Acts(call[j]) => call[j].approval # a
    BY <2>1, UndecidedIsUntouched
  <2> HIDE DEF a
  <2>5. OneAttempt'
    BY <1>2, <2>1, <2>2, <2>4 DEF AttemptInv, OneAttempt
  <2>6. ClaimStands(call[i])'
    BY <1>2, <2>2, <2>3, <2>4 DEF ClaimStands
  <2>7. QED
    BY <1>2, <2>1, <2>2, <2>3, <2>4, <2>5, <2>6, ActingStep
<1>5. QED
  BY <1>3, <1>4

LEMMA CarryOutKeepsAttempts ==
  ASSUME IInv, AttemptInv, NEW i \in Calls, CarryOut(i)
  PROVE  AttemptInv'
<1> DEFINE a == call[i].approval
<1>1. /\ call \in [Calls -> CallRecord] /\ call[i] \in CallRecord /\ a \in Approvals
      /\ call[i].pc = "tool" /\ ~call[i].acted
      /\ \A j \in Calls : j # i /\ Acts(call[j]) => call[j].approval # a
  BY AsksAreTyped DEF CarryOut, At, Asks, Acts
<1>2. approval' = approval /\ Up /\ Up'
  BY DEF CarryOut, At, rows, process, Up
<1>3. approval[a].state = "executing" /\ did[a] = 0
  BY <1>1, AsksAreTyped DEF ClaimStands
<1>4. did'[a] = 1 /\ \A b \in Approvals : b # a => did'[b] = did[b]
  BY <1>1, <1>3, ApprovalsAreRows DEF CarryOut
<1>5. Others(i) /\ call'[i].approval = a /\ call'[i].pc = "tool" /\ call'[i].acted
  BY <1>1 DEF CarryOut, Others, CallRecord
<1> HIDE DEF a
<1>6. OneAttempt'
  BY <1>1, <1>2, <1>3, <1>4 DEF AttemptInv, OneAttempt
<1>7. ClaimStands(call[i])'
  BY <1>2, <1>3, <1>5 DEF ClaimStands
<1>8. QED
  BY <1>1, <1>2, <1>4, <1>5, <1>6, <1>7, ActingStep

LEMMA ToolReturnsKeepsAttempts ==
  ASSUME IInv, AttemptInv, NEW i \in Calls,
         NEW result \in {"executed", "failed", "uncertain"}, ToolReturns(i, result)
  PROVE  AttemptInv'
<1> DEFINE a == call[i].approval
<1>1. /\ call \in [Calls -> CallRecord] /\ call[i] \in CallRecord /\ a \in Approvals
      /\ approval[a].state = "executing"
      /\ \A j \in Calls : j # i /\ Acts(call[j]) => call[j].approval # a
  BY AsksAreTyped DEF ToolReturns, At, Asks, Acts, ClaimStands
<1>2. approval' = approval /\ did' = did /\ Up /\ Up'
  BY DEF ToolReturns, At, rows, world, process, Up
<1>3. Others(i) /\ call'[i].approval = a /\ call'[i].pc = "receipt" /\ call'[i].result = result
  BY <1>1 DEF ToolReturns, Finish, Others, CallRecord
<1> HIDE DEF a
<1>4. OneAttempt' /\ ClaimStands(call[i])'
  BY <1>1, <1>2, <1>3 DEF ClaimStands, AttemptInv, OneAttempt
<1>5. QED
  BY <1>1, <1>2, <1>3, <1>4, ActingStep

LEMMA PersistKeepsAttempts ==
  ASSUME IInv, AttemptInv, NEW i \in Calls, PersistApprovalReceipt(i)
  PROVE  AttemptInv'
<1> DEFINE a == call[i].approval
<1>1. /\ call \in [Calls -> CallRecord] /\ call[i] \in CallRecord /\ a \in Approvals
      /\ approval[a].state = IF call[i].result = "denied" THEN "denied" ELSE "executing"
      /\ call[i].result \in {"executed", "failed", "uncertain", "denied"}
      /\ \A j \in Calls : j # i /\ Acts(call[j]) => call[j].approval # a
  BY AsksAreTyped, CallIsTyped
  DEF PersistApprovalReceipt, At, Asks, Acts, ClaimStands, WellPlaced, Fits
<1>2. did' = did /\ Up /\ Up'
  BY DEF PersistApprovalReceipt, At, world, process, Up
<1>3. /\ approval'[a].state = call[i].result
      /\ \A b \in Approvals : b # a => approval'[b] = approval[b]
  BY <1>1, ApprovalsAreRows DEF PersistApprovalReceipt, Decided, ApprovalRow
<1>4. Others(i) /\ call'[i].pc \in {"loop", "resumed"}
  BY <1>1 DEF PersistApprovalReceipt, Others, CallRecord
<1>5. OneAttempt'
  BY <1>1, <1>2, <1>3 DEF AttemptInv, OneAttempt
<1> HIDE DEF a
<1>6. ~Asks(call'[i]) /\ ClaimStands(call[i])'
  BY <1>4 DEF Asks, ClaimStands
<1>7. QED
  BY <1>1, <1>2, <1>3, <1>4, <1>5, <1>6, ActingStep

\* Recovery looks at the file before it puts an approval back.
LEMMA RecoveryKeepsAttempts ==
  ASSUME IInv, AttemptInv, RecoverInterruptedApprovals
  PROVE  AttemptInv'
<1>1. PICK verdict \in [Interrupted -> {"executed", "pending", "uncertain"}] :
        /\ \A a \in Interrupted : verdict[a] \in Verdict(a)
        /\ approval' = [a \in Approvals |-> IF a \in Interrupted
                         THEN [approval[a] EXCEPT !.state = verdict[a]] ELSE approval[a]]
  BY DEF RecoverInterruptedApprovals
<1>2. did' = did /\ call' = call /\ ~Up
  BY DEF RecoverInterruptedApprovals, world, Up
<1>3. ASSUME NEW a \in Approvals
      PROVE  /\ did'[a] <= 1
             /\ approval'[a].state \in {"none", "pending", "denied", "cancelled"} => did'[a] = 0
  <2>1. CASE a \in Interrupted
    <3>1. approval'[a].state = verdict[a]
      BY <1>1, <2>1, ApprovalsAreRows DEF ApprovalRow
    <3>2. did[a] > 0 => verdict[a] \in {"executed", "uncertain"}
      BY <1>1, <2>1 DEF Verdict
    <3>3. verdict[a] \in {"executed", "pending", "uncertain"} /\ did[a] \in Nat /\ did[a] <= 1
      BY <2>1, ApprovalsAreRows DEF AttemptInv, OneAttempt
    <3>4. QED
      BY <1>2, <3>1, <3>2, <3>3
  <2>2. CASE a \notin Interrupted
    BY <1>1, <1>2, <2>2 DEF AttemptInv, OneAttempt
  <2>3. QED
    BY <2>1, <2>2
<1>4. \A j \in Calls : call'[j] = NoCall
  BY <1>2 DEF AttemptInv, OneActor
<1>5. OneActor'
  BY <1>4, NoCallIsQuiet
<1>6. QED
  BY <1>3, <1>5 DEF AttemptInv, OneAttempt

LEMMA WorldKeepsAttempts ==
  ASSUME IInv, AttemptInv,
         \/ Startup /\ ~RecoverInterruptedApprovals
         \/ \E i \in Calls : UsesCommands(i)
         \/ \E t \in Turns : CommandEnds(t)
         \/ \E m \in Messages : QueueMessage(m) \/ CancelQueuedMessage(m)
  PROVE  AttemptInv'
<1>1. call' = call /\ did' = did /\ Withdrawn /\ (Up' \/ ~Up)
  BY DEF Startup, RecoverMessageQueue, RecoverInterruptedTurns, RecoverTurnControls, UsesCommands, StartCommand, CancelCommand,
         CommandEnds, QueueMessage, CancelQueuedMessage, Withdrawn, rows, world, process, Up, At
<1>2. QED
  BY <1>1, StillStep

LEMMA CrashKeepsAttempts ==
  ASSUME IInv, AttemptInv, Crash
  PROVE  AttemptInv'
<1>1. approval' = approval /\ did' = did /\ \A j \in Calls : call'[j] = NoCall
  BY DEF Crash, rows
<1>2. OneActor'
  BY <1>1, NoCallIsQuiet
<1>3. QED
  BY <1>1, <1>2 DEF AttemptInv, OneAttempt

LEMMA AttemptsInductive == IInv /\ AttemptInv /\ [Next]_vars => AttemptInv'
<1> SUFFICES ASSUME IInv, AttemptInv, [Next]_vars PROVE AttemptInv'
  OBVIOUS
<1>1. ASSUME NEW i \in Calls,
             \/ \E t \in Turns : AcquireTurn(i, t)
             \/ RegisterTurn(i) \/ LoopPauses(i) \/ LoopFails(i) \/ CompleteTurn(i) \/ FailTurn(i)
             \/ EndExecution(i) \/ LeaveExecution(i)
             \/ PersistFails(i) \/ DecisionCancelled(i) \/ DecisionStands(i) \/ ContinueLoop(i)
             \/ BlockContinuation(i) \/ StopsTurn(i) \/ UsesQueue(i)
      PROVE  AttemptInv'
  <2>1. Withdrawn /\ UNCHANGED <<did, boot>>
    BY <1>1, HushedRows
  <2>2. Hushed(i) /\ Up
    BY <1>1, RunsTurnHushes, OthersHush
  <2>3. QED
    BY <2>1, <2>2, QuietStep
<1>2. ASSUME NEW i \in Calls, RunsTurn(i) PROVE AttemptInv'
  BY <1>1, <1>2, CreateKeepsAttempts, WorldKeepsAttempts DEF RunsTurn
<1>3. ASSUME NEW i \in Calls, DecidesApproval(i) PROVE AttemptInv'
  BY <1>1, <1>3, ReadKeepsAttempts, RegisterKeepsAttempts, ClaimKeepsAttempts, CarryOutKeepsAttempts,
     ToolReturnsKeepsAttempts, PersistKeepsAttempts DEF DecidesApproval
<1>4. ASSUME NEW i \in Calls, StopsTurn(i) \/ UsesQueue(i) PROVE AttemptInv'
  BY <1>1, <1>4
<1>5. ASSUME \/ \E t \in Turns : CommandEnds(t)
             \/ \E m \in Messages : QueueMessage(m) \/ CancelQueuedMessage(m)
             \/ Crash \/ Startup
      PROVE  AttemptInv'
  BY <1>5, WorldKeepsAttempts, RecoveryKeepsAttempts, CrashKeepsAttempts
<1>6. CASE UNCHANGED vars
  <2>1. call' = call /\ did' = did /\ Withdrawn /\ (Up' \/ ~Up)
    BY <1>6 DEF vars, Withdrawn, Up
  <2>2. QED
    BY <2>1, StillStep
<1>7. QED
  BY <1>2, <1>3, <1>4, <1>5, <1>6 DEF Next

\* The effect of an approval is carried out at most once, and never if its
\* row says that it was not, over any number of deciders and restarts.
THEOREM AttemptedOnce == Spec => []OneAttempt
<1>1. Init => AttemptInv
  BY DEF Init, AttemptInv, OneAttempt, OneActor, Asks, Acts, ClaimStands, NoCall, Up
<1>2. AttemptInv => OneAttempt
  BY DEF AttemptInv
<1>3. QED
  BY <1>1, <1>2, AttemptsInductive, Invariance, PTL DEF Spec
=============================================================================
