----------------------- MODULE TurnLeaseHolds_proofs -----------------------
(***************************************************************************)
(* Who holds a session and what a stop settles, for any number of turns,   *)
(* approvals, messages, goroutines and restarts.  The turn of a claimed    *)
(* effect keeps the session until the receipt is written, and a turn that  *)
(* was asked to stop keeps it until the stop is settled.  A stop that is   *)
(* in progress is looked after by a goroutine or by the next start.  What  *)
(* a confirmed stop says of the turn is so.  And so is what the queue says *)
(* of a message.  All this makes what the rows tell the history of a       *)
(* session: every step is a step of SessionHistory or changes none of it.  *)
(***************************************************************************)
EXTENDS TurnLease_proofs

-----------------------------------------------------------------------------
(* A claim holds the lease.                                                *)

Begun(t) == outcome[t] # "none"

\* Approval a is undecided or in progress, for the turn that has the session.
Current(a) == /\ approval[a].turn = session.turn
              /\ approval[a].state \in {"pending", "executing"}

(***************************************************************************)
(* A running turn has nothing undecided, and no turn two such approvals;   *)
(* startup leaves no claim behind once it has looked at them.              *)
(***************************************************************************)
OneHeld ==
  /\ \A a \in Approvals : Current(a) => session.state # "running"
  /\ \A a, b \in Approvals : Current(a) /\ Current(b) => a = b
  /\ boot \in {"turns", "controls"} => \A a \in Approvals : approval[a].state # "executing"
  /\ \A a \in Approvals : approval[a].state # "none" => Begun(approval[a].turn)

\* What a call on behalf of an approval relies on: it is its turn's, and while
\* it is undecided that turn has the session.
AskFits(c) ==
  Asks(c) => /\ approval[c.approval].state # "none"
             /\ approval[c.approval].turn = c.turn
             /\ approval[c.approval].state = "pending" => session.turn = c.turn

\* While a call acts for the turn that has the session, that turn has nothing
\* else undecided or in progress: its receipt may give the turn back its loop.
ActFits(c) ==
  Acts(c) /\ session.turn = c.turn =>
    /\ session.state # "running"
    /\ \A b \in Approvals : Current(b) => b = c.approval

HoldInv ==
  /\ ClaimHoldsLease
  /\ OneHeld
  /\ \A i \in Calls : AskFits(call[i]) /\ ActFits(call[i])
  /\ \A i, j \in Calls : /\ Acts(call[i]) /\ call[i].turn = session.turn
                         /\ Acts(call[j]) /\ call[j].turn = session.turn
                         => i = j

LEMMA WithdrawnKeeps ==
  ASSUME IInv, Withdrawn, NEW a \in Approvals
  PROVE  /\ approval'[a].turn = approval[a].turn
         /\ \/ approval'[a].state = approval[a].state
            \/ approval[a].state = "pending" /\ approval'[a].state = "cancelled"
<1>1. approval[a] \in ApprovalRow
  BY ApprovalsAreRows
<1>2. ASSUME NEW S, approval' = CancelPending(S)
      PROVE  approval'[a].turn = approval[a].turn
  BY <1>1, <1>2 DEF CancelPending, ApprovalRow
<1>3. QED
  BY <1>2, WithdrawnRows DEF Withdrawn

\* The turns of calls and approvals are turns, and None is not.
LEMMA TurnsOfCalls ==
  ASSUME IInv
  PROVE  /\ None \notin Turns
         /\ \A a \in Approvals : approval[a].state # "none" => approval[a].turn \in Turns
         /\ \A i \in Calls : Asks(call[i]) => call[i].turn \in Turns
<1>1. ASSUME NEW i \in Calls, Asks(call[i]) PROVE call[i].turn \in Turns
  BY <1>1, CallIsTyped DEF WellPlaced, Fits, Asks
<1>2. QED
  BY <1>1, NoneIsNoTurn DEF IInv, LeaseIsOpen

\* The session keeps its turn, and does not go on where it waited.
Waits == session'.turn = session.turn /\ (session'.state = "running" => session.state = "running")

\* A step that nobody makes on behalf of an approval, whatever it does to the
\* session: claims keep it, and a turn that gets it has nothing undecided.
LEMMA NobodyHolds ==
  ASSUME IInv, AttemptInv, HoldInv, Withdrawn,
         \A t \in Turns : Begun(t) => Begun(t)',
         \A j \in Calls : Asks(call'[j]) => call'[j] = call[j],
         \/ boot' \notin {"turns", "controls"} \/ boot' = boot
         \/ \A a \in Approvals : approval[a].state # "executing",
         \A a \in Approvals : approval[a].state = "executing" =>
           session'.turn = session.turn /\ session'.state \in {"awaiting_approval", "control_blocked"},
         \/ Waits
         \/ \A a \in Approvals : approval[a].turn = session'.turn
                                  => approval'[a].state \notin {"pending", "executing"},
         \A j \in Calls : Asks(call'[j]) /\ approval'[call'[j].approval].state = "pending"
                           => session'.turn = session.turn,
         Waits \/ \A j \in Calls : Asks(call'[j]) => call'[j].turn # session'.turn
  PROVE  HoldInv'
<1>1. ASSUME NEW a \in Approvals
      PROVE  /\ approval'[a].turn = approval[a].turn
             /\ approval'[a].state = "executing" => approval[a].state = "executing"
             /\ approval'[a].state = "pending" => approval[a].state = "pending"
             /\ approval'[a].state = "none" <=> approval[a].state = "none"
  BY WithdrawnKeeps
<1>2. ClaimHoldsLease'
  BY <1>1 DEF HoldInv, ClaimHoldsLease
<1>3. ASSUME NEW a \in Approvals, Current(a)' PROVE Waits /\ Current(a)
  BY <1>1, <1>3 DEF Current, Waits
<1>4. OneHeld'
  <2>1. \A a \in Approvals : Current(a)' => session'.state # "running"
    BY <1>3 DEF HoldInv, OneHeld, Waits
  <2>2. \A a, b \in Approvals : Current(a)' /\ Current(b)' => a = b
    BY <1>3 DEF HoldInv, OneHeld
  <2>3. boot' \in {"turns", "controls"} => \A a \in Approvals : approval'[a].state # "executing"
    BY <1>1 DEF HoldInv, OneHeld
  <2>4. \A a \in Approvals : approval'[a].state # "none" => outcome'[approval'[a].turn] # "none"
    <3> SUFFICES ASSUME NEW a \in Approvals, approval'[a].state # "none"
                 PROVE  outcome'[approval'[a].turn] # "none"
      OBVIOUS
    <3>1. approval[a].state # "none" /\ approval[a].turn \in Turns /\ Begun(approval[a].turn)
      BY <1>1, TurnsOfCalls DEF HoldInv, OneHeld
    <3>2. approval'[a].turn = approval[a].turn
      BY <1>1
    <3>3. QED
      BY <3>1, <3>2 DEF Begun
  <2>5. QED
    BY <2>1, <2>2, <2>3, <2>4 DEF OneHeld, Begun
<1>5. ASSUME NEW j \in Calls, Asks(call'[j])
      PROVE  /\ call'[j] = call[j] /\ Asks(call[j]) /\ call[j].approval \in Approvals
             /\ AskFits(call[j]) /\ ActFits(call[j])
  BY <1>5 DEF HoldInv, AttemptInv, OneActor
<1>6. ASSUME NEW j \in Calls PROVE AskFits(call[j])' /\ ActFits(call[j])'
  <2>1. CASE ~Asks(call'[j])
    BY <2>1 DEF AskFits, ActFits, Asks, Acts
  <2>2. CASE Asks(call'[j])
    <3>1. AskFits(call[j])'
      BY <1>1, <1>5, <2>2 DEF AskFits
    <3>2. ASSUME Acts(call'[j]), session'.turn = call'[j].turn
          PROVE  Waits /\ Acts(call[j]) /\ session.turn = call[j].turn
      BY <1>5, <2>2, <3>2 DEF Waits
    <3>3. ActFits(call[j])'
      BY <1>3, <1>5, <2>2, <3>2 DEF ActFits, Waits
    <3>4. QED
      BY <3>1, <3>3
  <2>3. QED
    BY <2>1, <2>2
<1>7. ASSUME NEW j \in Calls, Acts(call'[j]), call'[j].turn = session'.turn
      PROVE  Acts(call[j]) /\ call[j].turn = session.turn
  BY <1>5, <1>7 DEF Waits, Acts, Asks
<1>8. QED
  BY <1>2, <1>4, <1>6, <1>7 DEF HoldInv

\* A step that leaves the session alone.
LEMMA NobodyMovesTheSession ==
  ASSUME IInv, AttemptInv, HoldInv, Withdrawn, session' = session,
         \A t \in Turns : Begun(t) => Begun(t)',
         \A j \in Calls : Asks(call'[j]) => call'[j] = call[j],
         boot' \notin {"turns", "controls"} \/ boot' = boot
  PROVE  HoldInv'
<1>1. Waits
  BY DEF Waits
<1>2. \A a \in Approvals : approval[a].state = "executing" =>
        session'.turn = session.turn /\ session'.state \in {"awaiting_approval", "control_blocked"}
  BY DEF HoldInv, ClaimHoldsLease
<1>3. QED
  BY <1>1, <1>2, NobodyHolds

\* A turn that runs gives the session back.
LEMMA RunningTurnLeaves ==
  ASSUME IInv, AttemptInv, HoldInv, Withdrawn, session.state = "running", session' = Free,
         \A t \in Turns : Begun(t) => Begun(t)',
         \A j \in Calls : Asks(call'[j]) => call'[j] = call[j],
         boot' = boot \/ ~Up'
  PROVE  HoldInv'
<1>1. \A a \in Approvals : approval[a].state # "executing"
  BY DEF HoldInv, ClaimHoldsLease
<1>2. session'.turn = None /\ session'.state = "active"
  BY DEF Free
<1>3. ASSUME NEW a \in Approvals, approval[a].turn = None
      PROVE  approval'[a].state \notin {"pending", "executing"}
  <2>1. approval[a].state = "none"
    BY <1>3, TurnsOfCalls
  <2>2. QED
    BY <2>1, WithdrawnKeeps
<1>4. ASSUME NEW j \in Calls, Asks(call'[j])
      PROVE  /\ call'[j].turn # None
             /\ approval'[call'[j].approval].state = "pending" => FALSE
  <2>1. call'[j] = call[j] /\ Asks(call[j]) /\ call[j].approval \in Approvals /\ AskFits(call[j])
    BY <1>4 DEF HoldInv, AttemptInv, OneActor
  <2>2. call[j].turn \in Turns /\ None \notin Turns
    BY <2>1, TurnsOfCalls
  <2>3. ASSUME approval'[call[j].approval].state = "pending" PROVE FALSE
    <3>1. approval[call[j].approval].state = "pending"
      BY <2>1, <2>3, WithdrawnKeeps
    <3>2. Current(call[j].approval)
      BY <2>1, <3>1 DEF AskFits, Current
    <3>3. QED
      BY <2>1, <3>2 DEF HoldInv, OneHeld
  <2>4. QED
    BY <2>1, <2>2, <2>3
<1>5. QED
  BY <1>1, <1>2, <1>3, <1>4, NobodyHolds

LEMMA AcquireKeepsHolds ==
  ASSUME IInv, AttemptInv, HoldInv, NEW i \in Calls, NEW t \in Turns, AcquireTurn(i, t)
  PROVE  HoldInv'
<1>1. Hushed(i) /\ Withdrawn /\ boot' = boot
  BY RunsTurnHushes, HushedRows
<1>2. /\ session = Free /\ session'.turn = t /\ session.turn = None /\ outcome[t] = "none"
      /\ outcome' = [outcome EXCEPT ![t] = "open"]
  BY FreeFits DEF AcquireTurn, Held
<1>3. \A u \in Turns : Begun(u) => Begun(u)'
  BY <1>2 DEF Begun, IInv, TypeOK
<1>4. \A j \in Calls : Asks(call'[j]) => call'[j] = call[j]
  BY <1>1 DEF Hushed, Others
<1>5. None \notin Turns
  BY TurnsOfCalls
<1>6. \A a \in Approvals : approval[a].state # "executing"
  BY <1>2, <1>5, TurnsOfCalls DEF HoldInv, ClaimHoldsLease
<1>7. ASSUME NEW a \in Approvals, approval[a].turn = t
      PROVE  approval'[a].state \notin {"pending", "executing"}
  <2>1. approval[a].state = "none"
    BY <1>2, <1>7 DEF HoldInv, OneHeld, Begun
  <2>2. QED
    BY <1>1, <2>1, WithdrawnKeeps
<1>8. ASSUME NEW j \in Calls, Asks(call'[j])
      PROVE  call'[j].turn # t /\ approval'[call'[j].approval].state # "pending"
  <2>1. call'[j] = call[j] /\ Asks(call[j]) /\ call[j].approval \in Approvals /\ AskFits(call[j])
    BY <1>4, <1>8 DEF HoldInv, AttemptInv, OneActor
  <2>2. Begun(call[j].turn) /\ call[j].turn \in Turns
    BY <2>1, TurnsOfCalls DEF HoldInv, OneHeld, AskFits
  <2>3. approval[call[j].approval].state # "pending"
    BY <1>2, <1>5, <2>1, <2>2 DEF AskFits
  <2>4. QED
    BY <1>1, <1>2, <2>1, <2>2, <2>3, WithdrawnKeeps DEF Begun
<1>9. QED
  BY <1>1, <1>2, <1>3, <1>4, <1>6, <1>7, <1>8, NobodyHolds

\* A stop that is settled withdraws what the turn has pending before it gives
\* the session back, and keeps the session when a claim is left.
LEMMA SettleKeepsHolds ==
  ASSUME IInv, AttemptInv, HoldInv, NEW i \in Calls, Settle(i)
  PROVE  HoldInv'
<1> DEFINE t == Turn(i)
<1>1. Hushed(i) /\ Withdrawn /\ boot' = boot
  BY OthersHush, HushedRows DEF StopsTurn
<1>2. \A j \in Calls : Asks(call'[j]) => call'[j] = call[j]
  BY <1>1 DEF Hushed, Others
<1>3. CASE UNCHANGED rows
  BY <1>1, <1>2, <1>3, NobodyMovesTheSession DEF rows, Begun
<1>4. CASE ~UNCHANGED rows
  <2>1. SettleRows(t, call[i].sure /\ ~InDoubt(t))
    BY <1>4 DEF Settle
  <2>2. \A u \in Turns : Begun(u) => Begun(u)'
    BY <2>1 DEF SettleRows, Begun, IInv, TypeOK
  <2>3. CASE session.turn # t
    BY <1>1, <1>2, <2>1, <2>2, <2>3, NobodyMovesTheSession DEF SettleRows
  <2>4. CASE session.turn = t /\ ~(call[i].sure /\ ~InDoubt(t))
    <3>1. session' = [state |-> "control_blocked", turn |-> t]
      BY <2>1, <2>4 DEF SettleRows
    <3>2. session'.turn = session.turn /\ session'.state = "control_blocked" /\ Waits
      BY <2>4, <3>1 DEF Waits
    <3>3. \A a \in Approvals : approval[a].state = "executing" =>
            session'.turn = session.turn /\ session'.state \in {"awaiting_approval", "control_blocked"}
      BY <3>2
    <3>4. QED
      BY <1>1, <1>2, <2>2, <3>2, <3>3, NobodyHolds
  <2>5. CASE session.turn = t /\ call[i].sure /\ ~InDoubt(t)
    <3>1. session'.turn = None /\ approval' = CancelPending({t})
      BY <2>1, <2>5, FreeFits DEF SettleRows
    <3>2. \A a \in Approvals : approval[a].state # "executing"
      BY <2>5 DEF HoldInv, ClaimHoldsLease, InDoubt
    <3>3. ASSUME NEW a \in Approvals, approval'[a].state = "pending" PROVE approval[a].turn # t
      <4>1. approval[a] \in ApprovalRow
        BY ApprovalsAreRows
      <4>2. QED
        BY <3>1, <3>3, <4>1 DEF CancelPending, ApprovalRow
    <3>4. ASSUME NEW a \in Approvals, approval[a].turn = None
          PROVE  approval'[a].state \notin {"pending", "executing"}
      <4>1. approval[a].state = "none"
        BY <3>4, TurnsOfCalls
      <4>2. QED
        BY <1>1, <4>1, WithdrawnKeeps
    <3>5. ASSUME NEW j \in Calls, Asks(call'[j])
          PROVE  call'[j].turn # None /\ approval'[call'[j].approval].state # "pending"
      <4>1. call'[j] = call[j] /\ Asks(call[j]) /\ call[j].approval \in Approvals /\ AskFits(call[j])
        BY <1>2, <3>5 DEF HoldInv, AttemptInv, OneActor
      <4>2. call[j].turn \in Turns /\ None \notin Turns
        BY <4>1, TurnsOfCalls
      <4>3. ASSUME approval'[call[j].approval].state = "pending" PROVE FALSE
        <5>1. approval[call[j].approval].state = "pending"
          BY <1>1, <4>1, <4>3, WithdrawnKeeps
        <5>2. approval[call[j].approval].turn = t
          BY <2>5, <4>1, <5>1 DEF AskFits
        <5>3. QED
          BY <3>3, <4>1, <4>3, <5>2
      <4>4. QED
        BY <4>1, <4>2, <4>3
    <3>6. QED
      BY <1>1, <1>2, <2>2, <3>1, <3>2, <3>4, <3>5, NobodyHolds
  <2>6. QED
    BY <2>3, <2>4, <2>5
<1>5. QED
  BY <1>3, <1>4

\* The other steps that nobody makes on behalf of an approval.
LEMMA HushedKeepsHolds ==
  ASSUME IInv, AttemptInv, HoldInv, NEW i \in Calls,
         \/ \E t \in Turns : AcquireTurn(i, t)
         \/ RegisterTurn(i) \/ LoopPauses(i) \/ LoopFails(i) \/ CompleteTurn(i) \/ FailTurn(i)
         \/ EndExecution(i) \/ LeaveExecution(i)
         \/ PersistFails(i) \/ DecisionCancelled(i) \/ DecisionStands(i) \/ ContinueLoop(i)
         \/ BlockContinuation(i) \/ StopsTurn(i) \/ UsesQueue(i)
  PROVE  HoldInv'
<1>1. Hushed(i) /\ Withdrawn /\ boot' = boot
  BY RunsTurnHushes, OthersHush, HushedRows
<1>2. \A j \in Calls : Asks(call'[j]) => call'[j] = call[j]
  BY <1>1 DEF Hushed, Others
<1>3. CASE \E t \in Turns : AcquireTurn(i, t)
  BY <1>3, AcquireKeepsHolds
<1>4. CASE Settle(i)
  BY <1>4, SettleKeepsHolds
<1>5. CASE CompleteTurn(i) \/ FailTurn(i) \/ BlockContinuation(i)
  <2>1. CASE UNCHANGED rows
    BY <1>1, <1>2, <2>1, NobodyMovesTheSession DEF rows, Begun
  <2>2. CASE ~UNCHANGED rows
    <3>1. PICK how \in {"completed", "failed", "blocked"} :
            /\ Running(Turn(i)) /\ session' = Free
            /\ outcome' = [outcome EXCEPT ![Turn(i)] = how]
      BY <1>5, <2>2 DEF CompleteTurn, FailTurn, BlockContinuation
    <3>2. \A u \in Turns : Begun(u) => Begun(u)'
      BY <3>1 DEF Begun, IInv, TypeOK
    <3>3. session.state = "running"
      BY <3>1 DEF Running
    <3>4. QED
      BY <1>1, <1>2, <3>1, <3>2, <3>3, RunningTurnLeaves
  <2>3. QED
    BY <2>1, <2>2
<1>6. CASE \/ RegisterTurn(i) \/ LoopPauses(i) \/ LoopFails(i) \/ EndExecution(i) \/ LeaveExecution(i)
           \/ PersistFails(i) \/ DecisionCancelled(i) \/ DecisionStands(i) \/ ContinueLoop(i)
           \/ (StopsTurn(i) /\ ~Settle(i)) \/ UsesQueue(i)
  <2>1. UNCHANGED <<session, outcome>>
    BY <1>6 DEF RegisterTurn, LoopPauses, LoopFails, EndExecution, LeaveExecution, PersistFails,
                DecisionCancelled, DecisionStands, ContinueLoop, StopsTurn, StopTurn,
                ReconcileStoppedTurn, Observe, UsesQueue, QueueSteer, DrainOneQueued, SteerTooLate,
                DrainRefused, ReportRefusal, ReportTurn, rows
  <2>2. QED
    BY <1>1, <1>2, <2>1, NobodyMovesTheSession DEF Begun
<1>7. QED
  BY <1>3, <1>4, <1>5, <1>6

\* A call that goes on with the approval it asks about, or takes one up, while
\* no row changes.
LEMMA AskerMovesOn ==
  ASSUME IInv, AttemptInv, HoldInv, NEW i \in Calls, Others(i), UNCHANGED <<rows, boot>>,
         Asks(call'[i]) => AskFits(call[i])',
         Acts(call'[i]) => /\ Acts(call[i]) /\ call'[i].turn = call[i].turn
                           /\ call'[i].approval = call[i].approval
  PROVE  HoldInv'
<1>1. UNCHANGED <<session, approval, outcome, boot>> /\ \A j \in Calls : j # i => call'[j] = call[j]
  BY DEF rows, Others
<1>2. ClaimHoldsLease' /\ OneHeld'
  BY <1>1 DEF HoldInv, ClaimHoldsLease, OneHeld, Current, Begun
<1>3. ASSUME NEW j \in Calls, j # i PROVE AskFits(call[j])' /\ ActFits(call[j])'
  BY <1>1, <1>3 DEF HoldInv, AskFits, ActFits, Current
<1>4. AskFits(call[i])'
  BY DEF AskFits
<1>5. ActFits(call[i])'
  BY <1>1 DEF HoldInv, ActFits, Current
<1>6. ASSUME NEW j \in Calls, Acts(call'[j]) PROVE Acts(call[j]) /\ call'[j].turn = call[j].turn
  BY <1>1, <1>6
<1>7. QED
  BY <1>1, <1>2, <1>3, <1>4, <1>5, <1>6 DEF HoldInv

LEMMA AskersKeepHolds ==
  ASSUME IInv, AttemptInv, HoldInv, NEW i \in Calls,
         \/ \E a \in Approvals : ReadApproval(i, a)
         \/ RegisterDecision(i) \/ CarryOut(i)
         \/ \E result \in {"executed", "failed", "uncertain"} : ToolReturns(i, result)
  PROVE  HoldInv'
<1>1. call \in [Calls -> CallRecord] /\ call[i] \in CallRecord /\ AskFits(call[i])
  BY AsksAreTyped DEF HoldInv
<1>2. UNCHANGED <<rows, boot>> /\ UNCHANGED <<session, approval>>
  BY DEF ReadApproval, RegisterDecision, CarryOut, ToolReturns, rows, process
<1>3. ASSUME NEW a \in Approvals, ReadApproval(i, a) PROVE HoldInv'
  <2>1. /\ Others(i) /\ call'[i].pc = "read" /\ call'[i].approval = a
        /\ call'[i].turn = approval[a].turn
    BY <1>1, <1>3 DEF ReadApproval, CallRecord, Others
  <2>2. approval[a].state = "pending" /\ session.turn = approval[a].turn
    BY <1>3 DEF ReadApproval
  <2>3. AskFits(call[i])'
    BY <1>2, <2>1, <2>2 DEF AskFits
  <2>4. ~Acts(call'[i])
    BY <2>1 DEF Acts
  <2>5. QED
    BY <1>2, <2>1, <2>3, <2>4, AskerMovesOn
<1>4. CASE RegisterDecision(i) /\ Return(i)
  <2>1. Hushed(i)
    BY <1>4, ReturnHushes
  <2>2. QED
    BY <1>2, <2>1, AskerMovesOn DEF Hushed, Asks, Acts
<1>5. CASE RegisterDecision(i) /\ ~Return(i)
  <2>1. /\ Others(i) /\ call'[i].pc \in {"claim", "ending"} /\ call[i].pc = "read"
        /\ call'[i].approval = call[i].approval /\ call'[i].turn = call[i].turn
    BY <1>1, <1>5 DEF RegisterDecision, At, CallRecord, Others
  <2>2. AskFits(call[i])'
    BY <1>1, <1>2, <2>1 DEF AskFits, Asks
  <2>3. QED
    BY <1>2, <2>1, <2>2, AskerMovesOn DEF Acts
<1>6. ASSUME CarryOut(i) \/ \E result \in {"executed", "failed", "uncertain"} : ToolReturns(i, result)
      PROVE  HoldInv'
  <2>1. /\ Others(i) /\ call'[i].pc \in {"tool", "receipt"} /\ call[i].pc = "tool"
        /\ call'[i].approval = call[i].approval /\ call'[i].turn = call[i].turn
    BY <1>1, <1>6 DEF CarryOut, ToolReturns, Finish, At, CallRecord, Others
  <2>2. AskFits(call[i])'
    BY <1>1, <1>2, <2>1 DEF AskFits, Asks
  <2>3. QED
    BY <1>2, <2>1, <2>2, AskerMovesOn DEF Acts
<1>7. QED
  BY <1>3, <1>4, <1>5, <1>6

\* A running turn has nothing open, so that its new approval is the only one.
LEMMA CreateKeepsHolds ==
  ASSUME IInv, AttemptInv, HoldInv, NEW i \in Calls, NEW a \in Approvals, NEW authorized \in BOOLEAN,
         CreateToolApproval(i, a, authorized)
  PROVE  HoldInv'
<1> DEFINE t == Turn(i)
<1>1. call \in [Calls -> CallRecord] /\ call[i] \in CallRecord
  BY AsksAreTyped
<1>2. /\ call'[i].pc \in {"claim", "paused"} /\ call'[i].approval = a /\ call'[i].turn = t
      /\ \A j \in Calls : j # i => call'[j] = call[j]
  BY <1>1 DEF CreateToolApproval, CallRecord, Turn
<1>3. /\ approval'[a].state = "pending" /\ approval'[a].turn = t /\ approval[a].state = "none"
      /\ \A b \in Approvals : b # a => approval'[b] = approval[b]
  BY ApprovalsAreRows DEF CreateToolApproval
<1>4. /\ session.state = "running" /\ session.turn = t
      /\ session'.state = "awaiting_approval" /\ session'.turn = t
      /\ UNCHANGED <<outcome, boot>>
  BY DEF CreateToolApproval, Running, Held, process
<1>5. t \in Turns /\ Begun(t)
  BY <1>4, HoldersAreTurns DEF Unfinished, Begun
<1> HIDE DEF t
<1>6. ASSUME NEW b \in Approvals, b # a
      PROVE  approval[b].state # "executing" /\ ~Current(b)
  BY <1>4 DEF HoldInv, ClaimHoldsLease, OneHeld
<1>7. ASSUME NEW b \in Approvals, b # a PROVE ~Current(b)'
  BY <1>3, <1>4, <1>6, <1>7 DEF Current
<1>8. ClaimHoldsLease'
  BY <1>3, <1>6 DEF ClaimHoldsLease
<1>9. OneHeld'
  <2>1. \A b \in Approvals : approval'[b].state # "none" => outcome'[approval'[b].turn] # "none"
    BY <1>3, <1>4, <1>5 DEF HoldInv, OneHeld, Begun
  <2>2. \A b \in Approvals : approval'[b].state # "executing"
    BY <1>3, <1>6
  <2>3. QED
    BY <1>4, <1>7, <2>1, <2>2 DEF OneHeld, Begun
<1>10. ASSUME NEW j \in Calls, j # i, Asks(call[j])
       PROVE  call[j].approval \in Approvals /\ call[j].approval # a
  BY <1>3, <1>10 DEF HoldInv, AskFits, AttemptInv, OneActor
<1>11. ASSUME NEW j \in Calls, Acts(call'[j]), call'[j].turn = t PROVE FALSE
  <2>1. j # i /\ call'[j] = call[j]
    BY <1>2, <1>11 DEF Acts
  <2>2. QED
    BY <1>4, <1>11, <2>1 DEF HoldInv, ActFits
<1>12. ASSUME NEW j \in Calls PROVE AskFits(call[j])' /\ ActFits(call[j])'
  <2>1. ActFits(call[j])'
    BY <1>4, <1>11 DEF ActFits
  <2>2. CASE j = i
    BY <1>2, <1>3, <1>4, <2>1, <2>2 DEF AskFits
  <2>3. CASE j # i
    BY <1>2, <1>3, <1>4, <1>10, <2>1, <2>3 DEF HoldInv, AskFits
  <2>4. QED
    BY <2>1, <2>2, <2>3
<1>13. QED
  BY <1>4, <1>8, <1>9, <1>11, <1>12 DEF HoldInv

\* What a call decides is the only approval its turn has open.
LEMMA ClaimKeepsHolds ==
  ASSUME IInv, AttemptInv, HoldInv, NEW i \in Calls,
         NEW decision \in {"executing", "denied"}, ClaimApprovalDecision(i, decision)
  PROVE  HoldInv'
<1> DEFINE a == call[i].approval
           t == call[i].turn
<1>1. /\ call \in [Calls -> CallRecord] /\ call[i] \in CallRecord /\ a \in Approvals
      /\ call[i].pc = "claim" /\ AskFits(call[i]) /\ t \in Turns
  BY AsksAreTyped, TurnsOfCalls DEF ClaimApprovalDecision, At, Asks, HoldInv
<1>2. UNCHANGED <<session, outcome, boot>>
  BY DEF ClaimApprovalDecision, process
<1>3. CASE ~(Asked(i).state = "pending" /\ control[Turn(i)] = "none")
  <2>1. Go(i, "failing") \/ Go(i, "ending")
    BY <1>3 DEF ClaimApprovalDecision
  <2>2. approval' = approval
    BY <1>3 DEF ClaimApprovalDecision
  <2>3. Hushed(i) /\ Withdrawn
    BY <2>1, <2>2, GoHushes DEF Withdrawn
  <2>4. QED
    BY <1>2, <2>3, NobodyMovesTheSession DEF Hushed, Others, Begun
<1>4. CASE Asked(i).state = "pending" /\ control[Turn(i)] = "none"
  <2>1. /\ approval[a].state = "pending" /\ Decided(i, decision)
        /\ IF decision = "executing" THEN Finish(i, "tool", "none") ELSE Finish(i, "receipt", "denied")
    BY <1>4 DEF ClaimApprovalDecision, Asked
  <2>2. /\ approval'[a].state = decision /\ approval'[a].turn = approval[a].turn
        /\ \A b \in Approvals : b # a => approval'[b] = approval[b]
    BY <1>1, <2>1, ApprovalsAreRows DEF Decided, ApprovalRow
  <2>3. /\ \A j \in Calls : j # i => call'[j] = call[j]
        /\ call'[i].approval = a /\ call'[i].turn = t /\ call'[i].pc \in {"tool", "receipt"}
    BY <1>1, <2>1 DEF Finish, CallRecord
  <2>4. \A j \in Calls : Acts(call[j]) => call[j].approval # a
    BY <1>1, <2>1, UndecidedIsUntouched
  <2>5. approval[a].turn = t /\ session.turn = t /\ Current(a)
    BY <1>1, <2>1 DEF AskFits, Asks, Current
  <2> HIDE DEF a, t
  <2>6. session.state \in {"awaiting_approval", "control_blocked"}
    <3>1. session.state # "running" /\ session.state # "active"
      BY <1>1, <2>5, TurnsOfCalls DEF HoldInv, OneHeld, IInv, TypeOK
    <3>2. QED
      BY <3>1 DEF IInv, TypeOK, SessionRow, SessionStates
  <2>7. \A b \in Approvals : Current(b)' => b = a
    BY <1>1, <1>2, <2>2, <2>5 DEF HoldInv, OneHeld, Current
  <2>8. ClaimHoldsLease'
    BY <1>2, <2>2, <2>5, <2>6 DEF HoldInv, ClaimHoldsLease
  <2>9. OneHeld'
    <3>1. boot' \notin {"turns", "controls"}
      BY <1>2 DEF ClaimApprovalDecision, At, Up
    <3>2. \A b \in Approvals : approval'[b].state # "none" => outcome'[approval'[b].turn] # "none"
      BY <1>2, <2>1, <2>2 DEF HoldInv, OneHeld, Begun
    <3>3. QED
      BY <1>2, <2>6, <2>7, <3>1, <3>2 DEF OneHeld, Begun
  <2>10. ASSUME NEW j \in Calls, j # i, Acts(call'[j]) PROVE call'[j].turn # session'.turn
    <3>1. call'[j] = call[j] /\ Acts(call[j]) /\ ActFits(call[j])
      BY <2>3, <2>10 DEF HoldInv
    <3>2. QED
      BY <1>1, <1>2, <2>4, <2>5, <3>1 DEF ActFits
  <2>11. AskFits(call[i])' /\ ActFits(call[i])'
    BY <1>2, <2>1, <2>2, <2>3, <2>5, <2>6, <2>7 DEF AskFits, ActFits
  <2>12. ASSUME NEW j \in Calls, j # i PROVE AskFits(call[j])' /\ ActFits(call[j])'
    <3>1. ActFits(call[j])'
      BY <2>10, <2>12 DEF ActFits
    <3>2. AskFits(call[j]) /\ (Asks(call[j]) => call[j].approval \in Approvals)
      BY DEF HoldInv, AttemptInv, OneActor
    <3>3. AskFits(call[j])'
      BY <1>2, <2>1, <2>2, <2>3, <2>12, <3>2 DEF AskFits
    <3>4. QED
      BY <3>1, <3>3
  <2>13. QED
    BY <2>8, <2>9, <2>10, <2>11, <2>12 DEF HoldInv
<1>5. QED
  BY <1>3, <1>4

\* The receipt gives the turn its loop back, and nothing of it is left open.
LEMMA PersistKeepsHolds ==
  ASSUME IInv, AttemptInv, HoldInv, NEW i \in Calls, PersistApprovalReceipt(i)
  PROVE  HoldInv'
<1> DEFINE a == call[i].approval
           t == call[i].turn
<1>1. /\ call \in [Calls -> CallRecord] /\ call[i] \in CallRecord /\ a \in Approvals
      /\ call[i].result \in {"executed", "failed", "uncertain", "denied"}
      /\ approval[a].state \in {"executing", "denied"}
      /\ Acts(call[i]) /\ ActFits(call[i]) /\ AskFits(call[i])
  BY AsksAreTyped, CallIsTyped
  DEF PersistApprovalReceipt, At, Asks, Acts, ClaimStands, WellPlaced, Fits, HoldInv
<1>2. /\ UNCHANGED <<outcome, boot>> /\ session.turn = t /\ session'.turn = t
      /\ Up
  BY DEF PersistApprovalReceipt, Awaiting, Held, Turn, process, At
<1>3. /\ approval'[a].state = call[i].result /\ approval'[a].turn = approval[a].turn
      /\ \A b \in Approvals : b # a => approval'[b] = approval[b]
  BY <1>1, ApprovalsAreRows DEF PersistApprovalReceipt, Decided, ApprovalRow
<1>4. /\ \A j \in Calls : j # i => call'[j] = call[j]
      /\ call'[i].pc \in {"loop", "resumed"}
  BY <1>1 DEF PersistApprovalReceipt, CallRecord
<1>5. \A b \in Approvals : Current(b) => b = a
  BY <1>1, <1>2 DEF ActFits
<1> HIDE DEF a, t
<1>6. ASSUME NEW b \in Approvals
      PROVE  /\ ~Current(b)' /\ approval'[b].state # "executing"
  BY <1>1, <1>2, <1>3, <1>5 DEF HoldInv, ClaimHoldsLease, Current
<1>7. ClaimHoldsLease' /\ OneHeld'
  <2>1. \A b \in Approvals : approval'[b].state # "none" => outcome'[approval'[b].turn] # "none"
    BY <1>1, <1>2, <1>3 DEF HoldInv, OneHeld, Begun
  <2>2. QED
    BY <1>6, <2>1 DEF ClaimHoldsLease, OneHeld, Begun
<1>8. ASSUME NEW j \in Calls, Acts(call'[j]), call'[j].turn = session'.turn PROVE FALSE
  <2>1. j # i /\ call'[j] = call[j]
    BY <1>4, <1>8 DEF Acts
  <2>2. QED
    BY <1>1, <1>2, <1>8, <2>1 DEF HoldInv, t
<1>9. ASSUME NEW j \in Calls PROVE AskFits(call[j])' /\ ActFits(call[j])'
  <2>1. ActFits(call[j])'
    BY <1>8 DEF ActFits
  <2>2. CASE j = i
    BY <1>4, <2>1, <2>2 DEF AskFits, Asks
  <2>3. CASE j # i
    <3>1. AskFits(call[j]) /\ (Asks(call[j]) => call[j].approval \in Approvals)
      BY DEF HoldInv, AttemptInv, OneActor
    <3>2. AskFits(call[j])'
      BY <1>1, <1>2, <1>3, <1>4, <2>3, <3>1 DEF AskFits
    <3>3. QED
      BY <2>1, <3>2
  <2>4. QED
    BY <2>2, <2>3
<1>10. QED
  BY <1>7, <1>8, <1>9 DEF HoldInv

\* Recovery looks at the claims before it gives the session to anyone, and by
\* then no call is left.
LEMMA StartupKeepsHolds ==
  ASSUME IInv, AttemptInv, HoldInv, Startup
  PROVE  HoldInv'
<1>1. call' = call /\ ~Up /\ \A j \in Calls : call[j] = NoCall
  BY DEF Startup, RecoverMessageQueue, RecoverInterruptedApprovals, RecoverInterruptedTurns,
         RecoverTurnControls, Up, AttemptInv, OneActor
<1>2. \A j \in Calls : ~Asks(call'[j]) /\ ~Acts(call'[j])
  BY <1>1 DEF NoCall, Asks, Acts
<1>3. CASE RecoverMessageQueue
  BY <1>2, <1>3, NobodyMovesTheSession DEF RecoverMessageQueue, Withdrawn, Begun
<1>4. CASE RecoverInterruptedApprovals
  <2>1. PICK verdict \in [Interrupted -> {"executed", "pending", "uncertain"}] :
          approval' = [a \in Approvals |-> IF a \in Interrupted
                         THEN [approval[a] EXCEPT !.state = verdict[a]] ELSE approval[a]]
    BY <1>4 DEF RecoverInterruptedApprovals
  <2>2. ASSUME NEW a \in Approvals
        PROVE  /\ approval'[a].turn = approval[a].turn
               /\ approval'[a].state # "executing"
               /\ approval'[a].state # "none" => approval[a].state # "none"
    <3>1. CASE a \in Interrupted
      <4>1. approval'[a] = [approval[a] EXCEPT !.state = verdict[a]] /\ approval[a] \in ApprovalRow
        BY <2>1, <3>1, ApprovalsAreRows
      <4>2. QED
        BY <3>1, <4>1 DEF ApprovalRow, Interrupted
    <3>2. CASE a \notin Interrupted
      BY <2>1, <3>2 DEF Interrupted
    <3>3. QED
      BY <3>1, <3>2
  <2>3. CASE Interrupted = {}
    <3>1. approval' = approval
      BY <2>1, <2>3 DEF IInv, TypeOK
    <3>2. \A a \in Approvals : approval[a].state # "executing"
      BY <2>3 DEF Interrupted
    <3>3. session' = session /\ outcome' = outcome
      BY <1>4, <2>3 DEF RecoverInterruptedApprovals
    <3>4. QED
      BY <1>2, <3>1, <3>2, <3>3, NobodyHolds DEF Withdrawn, Waits, Begun
  <2>4. CASE Interrupted # {}
    <3>1. session'.turn = None /\ outcome' = outcome
      BY <1>4, <2>4, FreeFits DEF RecoverInterruptedApprovals
    <3>2. ASSUME NEW a \in Approvals PROVE ~Current(a)'
      BY <2>2, <3>1, TurnsOfCalls DEF Current
    <3>3. \A a \in Approvals : approval'[a].state # "none" => outcome'[approval'[a].turn] # "none"
      BY <2>2, <3>1 DEF HoldInv, OneHeld, Begun
    <3>4. ClaimHoldsLease' /\ OneHeld'
      BY <2>2, <3>2, <3>3 DEF ClaimHoldsLease, OneHeld, Begun
    <3>5. QED
      BY <1>2, <3>4 DEF HoldInv, AskFits, ActFits
  <2>5. QED
    BY <2>3, <2>4
<1>5. CASE RecoverInterruptedTurns
  <2>1. /\ approval' = approval /\ \A a \in Approvals : approval[a].state # "executing"
        /\ boot' = "controls" /\ ~Up'
    BY <1>5 DEF RecoverInterruptedTurns, HoldInv, OneHeld, Up
  <2>2. CASE session.state = "running"
    <3>1. session' = Free /\ outcome' = [outcome EXCEPT ![session.turn] = "interrupted"]
      BY <1>5, <2>2 DEF RecoverInterruptedTurns
    <3>2. \A t \in Turns : Begun(t) => Begun(t)'
      BY <3>1 DEF Begun, IInv, TypeOK
    <3>3. QED
      BY <1>2, <2>1, <2>2, <3>1, <3>2, RunningTurnLeaves DEF Withdrawn
  <2>3. CASE session.state # "running"
    <3>1. session' = session /\ outcome' = outcome
      BY <1>5, <2>3 DEF RecoverInterruptedTurns
    <3>2. QED
      BY <1>2, <2>1, <3>1, NobodyHolds DEF Withdrawn, Waits, Begun
  <2>4. QED
    BY <2>2, <2>3
<1>6. CASE RecoverTurnControls
  <2> DEFINE unsettled == {t \in Turns : control'[t] = "needs_review"}
             latest == CHOOSE t \in unsettled : \A u \in unsettled : u <= t
             asked == {t \in Turns : control[t] # "none"}
  <2>1. /\ approval' = CancelPending(asked) /\ outcome' = outcome /\ boot' = "up"
        /\ session' = IF unsettled = {} THEN session
                      ELSE [state |-> "control_blocked", turn |-> latest]
        /\ \A t \in unsettled : t \in asked
    BY <1>6 DEF RecoverTurnControls
  <2>2. Withdrawn
    BY <2>1 DEF Withdrawn
  <2>3. \A a \in Approvals : approval[a].state # "executing"
    BY <1>6 DEF RecoverTurnControls, HoldInv, OneHeld
  <2>4. CASE unsettled = {}
    <3>1. session' = session
      BY <2>1, <2>4
    <3>2. QED
      BY <1>2, <2>1, <2>2, <3>1, NobodyMovesTheSession DEF Begun
  <2>5. CASE unsettled # {}
    <3>1. latest \in unsettled
      BY <2>5, LatestTurn, Zenon
    <3>2. session'.turn = latest /\ latest \in asked
      BY <2>1, <2>5, <3>1
    <3> HIDE DEF latest
    <3>3. ASSUME NEW a \in Approvals, approval[a].turn = session'.turn
          PROVE  approval'[a].state \notin {"pending", "executing"}
      <4>1. approval[a] \in ApprovalRow /\ approval[a].turn \in asked
        BY <3>2, <3>3, ApprovalsAreRows
      <4> HIDE DEF asked
      <4>2. CASE approval[a].state = "pending"
        <5>1. approval'[a] = [approval[a] EXCEPT !.state = "cancelled"]
          BY <2>1, <4>1, <4>2 DEF CancelPending
        <5>2. QED
          BY <4>1, <5>1 DEF ApprovalRow
      <4>3. CASE approval[a].state # "pending"
        BY <2>2, <2>3, <4>3, WithdrawnKeeps
      <4>4. QED
        BY <4>2, <4>3
    <3>4. QED
      BY <1>2, <2>1, <2>2, <2>3, <3>3, NobodyHolds DEF Begun
  <2>6. QED
    BY <2>4, <2>5
<1>7. QED
  BY <1>3, <1>4, <1>5, <1>6 DEF Startup

LEMMA HoldsInductive == IInv /\ AttemptInv /\ HoldInv /\ [Next]_vars => HoldInv'
<1> SUFFICES ASSUME IInv, AttemptInv, HoldInv, [Next]_vars PROVE HoldInv'
  OBVIOUS
<1>1. ASSUME UNCHANGED <<session, approval, outcome, boot>> \/ (Crash /\ UNCHANGED rows),
             \A j \in Calls : call'[j] = call[j] \/ call'[j] = NoCall
      PROVE  HoldInv'
  <2>1. UNCHANGED <<session, approval, outcome>> /\ (boot' \notin {"turns", "controls"} \/ boot' = boot)
    BY <1>1 DEF Crash, rows
  <2>2. ~Asks(NoCall)
    BY DEF Asks, NoCall
  <2>3. QED
    BY <1>1, <2>1, <2>2, NobodyMovesTheSession DEF Withdrawn, Begun
<1>2. ASSUME NEW i \in Calls, UsesCommands(i) PROVE HoldInv'
  BY <1>1, <1>2 DEF UsesCommands, StartCommand, CancelCommand, rows, process
<1>3. ASSUME NEW i \in Calls, RunsTurn(i) PROVE HoldInv'
  BY <1>2, <1>3, HushedKeepsHolds, CreateKeepsHolds DEF RunsTurn
<1>4. ASSUME NEW i \in Calls, DecidesApproval(i) PROVE HoldInv'
  BY <1>4, HushedKeepsHolds, AskersKeepHolds, ClaimKeepsHolds, PersistKeepsHolds DEF DecidesApproval
<1>5. ASSUME NEW i \in Calls, StopsTurn(i) \/ UsesQueue(i) PROVE HoldInv'
  BY <1>5, HushedKeepsHolds
<1>6. ASSUME \/ \E t \in Turns : CommandEnds(t)
             \/ \E m \in Messages : QueueMessage(m) \/ CancelQueuedMessage(m)
      PROVE  HoldInv'
  BY <1>1, <1>6 DEF CommandEnds, QueueMessage, CancelQueuedMessage, rows, process
<1>7. CASE Crash
  BY <1>1, <1>7 DEF Crash
<1>8. CASE Startup
  BY <1>8, StartupKeepsHolds
<1>9. CASE UNCHANGED vars
  BY <1>1, <1>9 DEF vars
<1>10. QED
  BY <1>3, <1>4, <1>5, <1>6, <1>7, <1>8, <1>9 DEF Next

\* While an effect is claimed and has no receipt its turn keeps the session,
\* whatever stops, fails or restarts in between.
THEOREM ClaimsHoldTheLease == Spec => []ClaimHoldsLease
<1>1. Init => AttemptInv
  BY DEF Init, AttemptInv, OneAttempt, OneActor, Asks, Acts, ClaimStands, NoCall, Up
<1>2. Init => HoldInv
  BY DEF Init, HoldInv, ClaimHoldsLease, OneHeld, Current, AskFits, ActFits, Asks, Acts, NoCall
<1>3. HoldInv => ClaimHoldsLease
  BY DEF HoldInv
<1>4. QED
  BY <1>1, <1>2, <1>3, AttemptsInductive, HoldsInductive, Invariance, PTL DEF Spec

-----------------------------------------------------------------------------
(* A stop that is not confirmed keeps the lease.                           *)

\* Turn t is the latest that was begun.
Latest(t) == \A u \in Turns : u > t => outcome[u] = "none"

\* Turn t was asked to stop and the stop is not confirmed.
Unsettled(t) == control[t] \in {"stopping", "needs_review"} /\ outcome[t] # "blocked"

(***************************************************************************)
(* Turns begin in order, only the latest may run, and only the latest can  *)
(* have a stop to confirm: startup, which takes the session back for the   *)
(* latest turn with such a stop, takes it back for the right one.          *)
(***************************************************************************)
OrderInv ==
  /\ \A t \in Turns : outcome[t] = "none" => Latest(t)
  /\ session.state \in {"running", "awaiting_approval"} =>
       Latest(session.turn) /\ outcome[session.turn] # "blocked"
  /\ \A t \in Turns : Unsettled(t) => Latest(t)
  /\ UnconfirmedKeepsLease

\* A step that begins no turn, and adds no stop, moves the session at most from
\* one that has nothing to confirm.
LEMMA OrderKept ==
  ASSUME OrderInv,
         \A t \in Turns : outcome'[t] = "none" <=> outcome[t] = "none",
         \A t \in Turns : outcome'[t] = "blocked" => outcome[t] = "blocked" \/ session' = Free,
         \A t \in Turns : Unsettled(t)' => Unsettled(t) /\ (Up' => session'.turn = t),
         session'.state \in {"running", "awaiting_approval"} =>
           session'.turn = session.turn /\ session.state \in {"running", "awaiting_approval"}
             /\ session'.turn \in Turns
  PROVE  OrderInv'
<1>1. \A t \in Turns : Latest(t) => Latest(t)'
  BY DEF Latest
<1>2. Free.state = "active"
  BY DEF Free
<1>3. \A t \in Turns : (outcome[t] = "none" => Latest(t))'
  BY <1>1 DEF OrderInv
<1>4. (session.state \in {"running", "awaiting_approval"} =>
         Latest(session.turn) /\ outcome[session.turn] # "blocked")'
  BY <1>1, <1>2 DEF OrderInv, Latest
<1>5. \A t \in Turns : (Unsettled(t) => Latest(t))'
  BY <1>1 DEF OrderInv
<1>6. UnconfirmedKeepsLease'
  BY DEF UnconfirmedKeepsLease, Unsettled
<1>7. QED
  BY <1>3, <1>4, <1>5, <1>6 DEF OrderInv

\* No row of a turn changes.
LEMMA OrderUntouched ==
  ASSUME IInv, OrderInv, UNCHANGED <<session, control, outcome>>, Up' => Up
  PROVE  OrderInv'
  BY DEF OrderInv, Latest, Unsettled, UnconfirmedKeepsLease

\* The turn that runs ends, with nothing to confirm.
LEMMA OrderAtTheEnd ==
  ASSUME IInv, OrderInv, Up, NEW t, Running(t), NEW how \in {"completed", "failed", "blocked"},
         how # "blocked" => control[t] = "none",
         session' = Free, outcome' = [outcome EXCEPT ![t] = how], control' = control
  PROVE  OrderInv'
<1>1. t \in Turns /\ outcome[t] # "none" /\ session.turn = t
  BY HoldersAreTurns DEF Running, Unfinished
<1>2. outcome'[t] = how /\ \A u \in Turns : u # t => outcome'[u] = outcome[u]
  BY <1>1 DEF IInv, TypeOK
<1>3. ASSUME NEW u \in Turns, Unsettled(u)' PROVE FALSE
  <2>1. u # t
    BY <1>2, <1>3 DEF Unsettled
  <2>2. session.turn = u
    BY <1>2, <1>3, <2>1 DEF Unsettled, OrderInv, UnconfirmedKeepsLease
  <2>3. QED
    BY <1>1, <2>1, <2>2
<1>4. session'.state = "active"
  BY DEF Free
<1>5. QED
  BY <1>1, <1>2, <1>3, <1>4, OrderKept

LEMMA AcquireKeepsOrder ==
  ASSUME IInv, OrderInv, NEW i \in Calls, NEW t \in Turns, AcquireTurn(i, t)
  PROVE  OrderInv'
<1>1. /\ Up /\ session.turn = None /\ outcome[t] = "none" /\ control' = control
      /\ \A u \in 1..(t - 1) : outcome[u] # "none"
      /\ session'.turn = t /\ session'.state = "running"
  BY FreeFits DEF AcquireTurn, Held
<1>2. outcome'[t] = "open" /\ \A u \in Turns : u # t => outcome'[u] = outcome[u]
  BY DEF AcquireTurn, IInv, TypeOK
<1>3. control[t] = "none"
  BY <1>1 DEF IInv, LeaseIsOpen, Unfinished
<1>4. ASSUME NEW u \in Turns, Unsettled(u)' PROVE FALSE
  <2>1. u # t /\ session.turn = u
    BY <1>1, <1>2, <1>3, <1>4 DEF Unsettled, OrderInv, UnconfirmedKeepsLease
  <2>2. QED
    BY <1>1, <2>1, NoneIsNoTurn
<1>5. ASSUME NEW u \in Turns, outcome'[u] = "none" PROVE Latest(u)'
  <2>1. outcome[u] = "none" /\ u # t /\ Latest(u) /\ Latest(t)
    BY <1>1, <1>2, <1>5 DEF OrderInv
  <2>2. u > t
    BY <1>1, <2>1, TurnLeaseAssumption DEF Turns
  <2>3. QED
    BY <1>2, <2>1, <2>2, NoneIsNoTurn DEF Latest
<1>6. Latest(t)'
  BY <1>1, <1>2, NoneIsNoTurn DEF OrderInv, Latest
<1>7. UnconfirmedKeepsLease'
  BY <1>4 DEF UnconfirmedKeepsLease, Unsettled
<1>8. QED
  BY <1>1, <1>2, <1>4, <1>5, <1>6, <1>7 DEF OrderInv

LEMMA StopKeepsOrder ==
  ASSUME IInv, OrderInv, NEW i \in Calls, NEW t \in Turns, StopTurn(i, t)
  PROVE  OrderInv'
<1>1. /\ session.turn = t /\ session.state \in {"running", "awaiting_approval"}
      /\ UNCHANGED <<session, outcome, boot>>
      /\ \A u \in Turns : u # t => control'[u] = control[u]
  BY DEF StopTurn, process, IInv, TypeOK
<1>2. ASSUME NEW u \in Turns, Unsettled(u)' PROVE Latest(u) /\ (Up => session.turn = u)
  <2>1. CASE u = t
    BY <1>1, <2>1 DEF OrderInv
  <2>2. CASE u # t
    BY <1>1, <1>2, <2>2 DEF OrderInv, Unsettled, UnconfirmedKeepsLease
  <2>3. QED
    BY <2>1, <2>2
<1>3. QED
  BY <1>1, <1>2 DEF OrderInv, Latest, Unsettled, UnconfirmedKeepsLease, Up

LEMMA SettleKeepsOrder ==
  ASSUME IInv, OrderInv, NEW i \in Calls, Settle(i)
  PROVE  OrderInv'
<1> DEFINE t == Turn(i)
<1>1. t \in Turns /\ Up /\ boot' = boot
  BY CallIsTyped DEF Settle, At, WellPlaced, Fits, Turn, process
<1>2. CASE UNCHANGED rows
  BY <1>1, <1>2, OrderUntouched DEF rows, Up
<1>3. CASE ~UNCHANGED rows
  <2>1. /\ SettleRows(t, call[i].sure /\ ~InDoubt(t))
        /\ control[t] \in {"stopping", "needs_review"}
    BY <1>3 DEF Settle
  <2> DEFINE stopped == call[i].sure /\ ~InDoubt(t)
  <2>2. /\ control'[t] = IF stopped THEN "stopped" ELSE "needs_review"
        /\ \A u \in Turns : u # t => control'[u] = control[u]
        /\ outcome'[t] = IF outcome[t] = "open" THEN "stopped" ELSE outcome[t]
        /\ \A u \in Turns : u # t => outcome'[u] = outcome[u]
    BY <1>1, <2>1 DEF SettleRows, IInv, TypeOK
  <2>3. session' = IF session.turn # t THEN session
                   ELSE IF stopped THEN Free ELSE [state |-> "control_blocked", turn |-> t]
    BY <2>1 DEF SettleRows
  <2> HIDE DEF t, stopped
  <2>4. Free.turn = None /\ Free.state = "active"
    BY FreeFits
  <2>5. ASSUME NEW u \in Turns, Unsettled(u)' PROVE Unsettled(u) /\ session'.turn = u
    <3>1. Unsettled(u) /\ (u = t => ~stopped)
      BY <2>1, <2>2, <2>5 DEF Unsettled
    <3>2. session.turn = u
      BY <1>1, <3>1 DEF OrderInv, UnconfirmedKeepsLease, Unsettled
    <3>3. QED
      BY <2>3, <3>1, <3>2
  <2>6. session'.state \in {"running", "awaiting_approval"} => session' = session
    BY <2>3, <2>4
  <2>7. \A u \in Turns : outcome'[u] = "none" <=> outcome[u] = "none"
    BY <2>2
  <2>8. \A u \in Turns : outcome'[u] = "blocked" => outcome[u] = "blocked"
    BY <2>2
  <2>9. session.state # "active" => session.turn \in Turns
    BY HoldersAreTurns
  <2>10. QED
    BY <2>5, <2>6, <2>7, <2>8, <2>9, OrderKept
<1>4. QED
  BY <1>2, <1>3

\* Recovery ends what ran, and takes the session back for the one turn that
\* may have a stop to confirm.
LEMMA StartupKeepsOrder ==
  ASSUME IInv, OrderInv, Startup
  PROVE  OrderInv'
<1>1. CASE RecoverMessageQueue
  BY <1>1, OrderUntouched DEF RecoverMessageQueue, Up
<1>2. CASE RecoverInterruptedApprovals
  <2>1. /\ UNCHANGED <<control, outcome>> /\ ~Up' /\ (session' = session \/ session' = Free)
    BY <1>2 DEF RecoverInterruptedApprovals, Up
  <2>2. Free.state = "active"
    BY FreeFits
  <2>3. QED
    BY <2>1, <2>2, OrderKept, HoldersAreTurns DEF Unsettled
<1>3. CASE RecoverInterruptedTurns
  <2>1. UNCHANGED control /\ ~Up'
    BY <1>3 DEF RecoverInterruptedTurns, Up
  <2>2. CASE session.state = "running"
    <3>1. /\ session.turn \in Turns /\ outcome[session.turn] # "none" /\ session'.state = "active"
          /\ outcome[session.turn] # "blocked"
          /\ outcome' = [outcome EXCEPT ![session.turn] = "interrupted"]
      BY <1>3, <2>2, FreeFits, HoldersAreTurns DEF RecoverInterruptedTurns, Unfinished, OrderInv
    <3>2. \A u \in Turns : /\ outcome'[u] = "none" <=> outcome[u] = "none"
                           /\ outcome'[u] = "blocked" <=> outcome[u] = "blocked"
      BY <3>1 DEF IInv, TypeOK
    <3>3. QED
      BY <2>1, <3>1, <3>2, OrderKept DEF Unsettled
  <2>3. CASE session.state # "running"
    <3>1. UNCHANGED <<session, control, outcome>>
      BY <1>3, <2>1, <2>3 DEF RecoverInterruptedTurns
    <3>2. QED
      BY <2>1, <3>1, OrderUntouched
  <2>4. QED
    BY <2>2, <2>3
<1>4. CASE RecoverTurnControls
  <2> DEFINE unsettled == {t \in Turns : control'[t] = "needs_review"}
             latest == CHOOSE t \in unsettled : \A u \in unsettled : u <= t
  <2>1. /\ outcome' = outcome
        /\ session' = IF unsettled = {} THEN session
                      ELSE [state |-> "control_blocked", turn |-> latest]
        /\ \A t \in Turns : control'[t] = IF control[t] = "stopping" THEN "needs_review" ELSE control[t]
    BY <1>4 DEF RecoverTurnControls
  <2>2. ASSUME NEW t \in Turns, Unsettled(t)' PROVE Unsettled(t) /\ session'.turn = t
    <3>1. Unsettled(t) /\ t \in unsettled
      BY <2>1, <2>2 DEF Unsettled
    <3>2. ASSUME NEW u \in unsettled PROVE u <= t
      <4>1. outcome[u] # "none"
        BY <2>1 DEF IInv, LeaseIsOpen, Unfinished
      <4>2. QED
        BY <3>1, <4>1, NoneIsNoTurn DEF OrderInv, Latest
    <3>3. latest \in unsettled /\ t <= latest
      BY <3>1, LatestTurn, Zenon
    <3>4. latest = t
      BY <3>2, <3>3, NoneIsNoTurn
    <3>5. QED
      BY <2>1, <3>1, <3>4
  <2>3. session'.state \in {"running", "awaiting_approval"} => session' = session
    BY <2>1
  <2>4. QED
    BY <2>1, <2>2, <2>3, OrderKept, HoldersAreTurns
<1>5. QED
  BY <1>1, <1>2, <1>3, <1>4 DEF Startup

LEMMA OrderInductive == IInv /\ OrderInv /\ [Next]_vars => OrderInv'
<1> SUFFICES ASSUME IInv, OrderInv, [Next]_vars PROVE OrderInv'
  OBVIOUS
<1>1. ASSUME UNCHANGED <<session, control, outcome>>, UNCHANGED boot \/ ~Up' PROVE OrderInv'
  BY <1>1, OrderUntouched DEF Up
\* The turn that holds the session takes up or leaves an approval.
<1>2. ASSUME NEW i \in Calls,
             session.turn = Turn(i), session.state \in {"running", "awaiting_approval"},
             session'.turn = Turn(i), UNCHANGED <<control, outcome, boot>>
      PROVE  OrderInv'
  <2>1. Turn(i) \in Turns
    BY <1>2, HoldersAreTurns
  <2>2. \A t \in Turns : Unsettled(t)' => Unsettled(t) /\ (Up' => session'.turn = t)
    BY <1>2 DEF OrderInv, UnconfirmedKeepsLease, Unsettled, Up
  <2>3. QED
    BY <1>2, <2>1, <2>2, OrderKept
<1>3. ASSUME NEW i \in Calls, RunsTurn(i) PROVE OrderInv'
  <2>1. ASSUME NEW t \in Turns, AcquireTurn(i, t) PROVE OrderInv'
    BY <2>1, AcquireKeepsOrder
  <2>2. ASSUME NEW a \in Approvals, NEW authorized \in BOOLEAN, CreateToolApproval(i, a, authorized)
        PROVE  OrderInv'
    BY <1>2, <2>2 DEF CreateToolApproval, Running, Held, process
  <2>3. CASE CompleteTurn(i)
    BY <2>3, OrderAtTheEnd DEF CompleteTurn, At
  <2>4. CASE FailTurn(i)
    <3>1. CASE UNCHANGED rows
      BY <1>1, <2>4, <3>1 DEF FailTurn, rows, process
    <3>2. CASE ~UNCHANGED rows
      BY <2>4, <3>2, OrderAtTheEnd DEF FailTurn, At
    <3>3. QED
      BY <3>1, <3>2
  <2>5. CASE \/ RegisterTurn(i) \/ UsesCommands(i) \/ LoopPauses(i) \/ LoopFails(i)
             \/ EndExecution(i) \/ LeaveExecution(i)
    BY <1>1, <2>5 DEF RegisterTurn, UsesCommands, StartCommand, CancelCommand, LoopPauses, LoopFails, EndExecution, LeaveExecution,
                      rows, process
  <2>6. QED
    BY <1>3, <2>1, <2>2, <2>3, <2>4, <2>5 DEF RunsTurn
<1>4. ASSUME NEW i \in Calls, DecidesApproval(i) PROVE OrderInv'
  <2>1. CASE BlockContinuation(i)
    BY <2>1, OrderAtTheEnd DEF BlockContinuation, At
  <2>2. CASE PersistApprovalReceipt(i)
    BY <1>2, <2>2 DEF PersistApprovalReceipt, Awaiting, Held, process
  <2>3. CASE DecidesApproval(i) /\ ~BlockContinuation(i) /\ ~PersistApprovalReceipt(i)
    <3>1. UNCHANGED <<session, control, outcome, boot>>
      BY <2>3 DEF DecidesApproval, ReadApproval, RegisterDecision, ClaimApprovalDecision, CarryOut,
                  ToolReturns, PersistFails, DecisionCancelled, DecisionStands, ContinueLoop, rows, process
    <3>2. QED
      BY <1>1, <3>1
  <2>4. QED
    BY <1>4, <2>1, <2>2, <2>3
<1>5. ASSUME NEW i \in Calls, StopsTurn(i) PROVE OrderInv'
  BY <1>1, <1>5, StopKeepsOrder, SettleKeepsOrder
  DEF StopsTurn, ReconcileStoppedTurn, Observe, rows, process
<1>6. ASSUME NEW i \in Calls, UsesQueue(i) PROVE OrderInv'
  BY <1>1, <1>6 DEF UsesQueue, QueueSteer, DrainOneQueued, SteerTooLate, DrainRefused, ReportRefusal,
                    ReportTurn, rows, process
<1>7. ASSUME \/ \E t \in Turns : CommandEnds(t)
             \/ \E m \in Messages : QueueMessage(m) \/ CancelQueuedMessage(m)
             \/ Crash
      PROVE  OrderInv'
  BY <1>1, <1>7 DEF CommandEnds, QueueMessage, CancelQueuedMessage, Crash, rows, process, Up
<1>8. CASE Startup
  BY <1>8, StartupKeepsOrder
<1>9. CASE UNCHANGED vars
  BY <1>1, <1>9 DEF vars
<1>10. QED
  BY <1>3, <1>4, <1>5, <1>6, <1>7, <1>8, <1>9 DEF Next

\* A turn that was asked to stop keeps its session until the stop is settled,
\* over any number of restarts, unless its continuation was blocked.
THEOREM UnconfirmedStopKeepsLease == Spec => []UnconfirmedKeepsLease
<1>1. Init => OrderInv
  BY FreeFits DEF Init, OrderInv, Latest, Unsettled, UnconfirmedKeepsLease
<1>2. OrderInv => UnconfirmedKeepsLease
  BY DEF OrderInv
<1>3. QED
  BY <1>1, <1>2, OrderInductive, Invariance, PTL DEF Spec

-----------------------------------------------------------------------------
(* How one step moves the call that makes it.                              *)

\* The places between registration and its end.
Inside == {"loop", "paused", "failing", "claim", "tool", "receipt", "resumed", "resuming", "ending"}

\* From one place to another in the same call, under the same registration.
Paths ==
  ({"loop"} \X {"paused", "claim", "failing", "ending"})
    \cup ({"paused", "resuming"} \X {"failing", "ending", "loop"})
    \cup ({"claim", "tool", "receipt"} \X {"tool", "receipt", "loop", "resumed", "failing", "ending"})
    \cup ({"resumed"} \X {"failing", "resuming"})
    \cup ({"failing"} \X {"observe", "ending"})
    \cup {<<"ended", "observe">>, <<"observe", "settle">>, <<"draining", "refused">>}

\* d is call c, further on.
Further(c, d) == d.op = c.op /\ d.turn = c.turn /\ d.message = c.message

Goes(c, d) ==
  /\ Further(c, d)
  /\ \/ d.registered = c.registered /\ <<c.pc, d.pc>> \in Paths
     \/ c.registered /\ d.registered /\ c.pc = "settle" /\ d.pc = "ending"
     \/ d.registered /\ c.pc = "acquired" /\ d.pc = "loop"
     \/ ~d.registered /\ c.pc = "ending" /\ d.pc = "ended"

\* A goroutine is done with its call, or with the turn that was in the call.
Ends(c, d) ==
  /\ c.pc \in {"idle", "read", "ended", "settle", "steer", "refused", "report"}
  /\ c.pc = "settle" => ~c.registered
  /\ \/ d = NoCall
     \/ /\ c.op = "run" /\ Further(c, d) /\ d.registered = c.registered /\ d.result = c.result
        /\ d.pc = "report" /\ d.message # None

\* Call i goes on from here to there, as Go and Finish say.
LEMMA GoerGoes ==
  ASSUME IInv, NEW i \in Calls, NEW p, Go(i, p) \/ \E r : Finish(i, p, r)
  PROVE  /\ Others(i) /\ Further(call[i], call'[i]) /\ call'[i].pc = p
         /\ call'[i].registered = call[i].registered
         /\ <<call[i].pc, p>> \in Paths => Goes(call[i], call'[i])
<1>1. call[i] \in CallRecord /\ call \in [Calls -> CallRecord]
  BY DEF IInv, TypeOK
<1>2. /\ Others(i) /\ Further(call[i], call'[i]) /\ call'[i].pc = p
      /\ call'[i].registered = call[i].registered
  BY <1>1 DEF Go, Finish, CallRecord, Others, Further
<1>3. QED
  BY <1>2 DEF Goes

\* A call that returns.
LEMMA ReturnerEnds ==
  ASSUME IInv, NEW i \in Calls, Return(i) \/ call' = [call EXCEPT ![i] = NoCall],
         call[i].pc \in {"idle", "read", "ended", "settle", "steer", "refused", "report"},
         call[i].pc = "settle" => ~call[i].registered
  PROVE  Others(i) /\ Ends(call[i], call'[i])
<1>1. call[i] \in CallRecord /\ call \in [Calls -> CallRecord]
  BY DEF IInv, TypeOK
<1>2. QED
  BY <1>1 DEF Return, CallRecord, Others, Further, Ends

\* The steps of an executor, once it has the session.
LEMMA RunnerMoves ==
  ASSUME IInv, NEW i \in Calls, RunsTurn(i), ~UsesCommands(i), ~\E t \in Turns : AcquireTurn(i, t)
  PROVE  Others(i) /\ (Goes(call[i], call'[i]) \/ Ends(call[i], call'[i]))
<1>1. call[i] \in CallRecord /\ call \in [Calls -> CallRecord]
  BY DEF IInv, TypeOK
<1>2. CASE RegisterTurn(i) \/ EndExecution(i)
  BY <1>1, <1>2 DEF RegisterTurn, EndExecution, At, CallRecord, Others, Goes, Further
<1>3. ASSUME NEW a \in Approvals, NEW authorized \in BOOLEAN, CreateToolApproval(i, a, authorized)
      PROVE  Others(i) /\ Goes(call[i], call'[i])
  <2>1. /\ call[i].pc = "loop" /\ call'[i].pc \in {"claim", "paused"} /\ Others(i)
        /\ Further(call[i], call'[i]) /\ call'[i].registered = call[i].registered
    BY <1>1, <1>3 DEF CreateToolApproval, At, CallRecord, Others, Further
  <2>2. <<call[i].pc, call'[i].pc>> \in Paths
    BY <2>1 DEF Paths
  <2>3. QED
    BY <2>1, <2>2 DEF Goes
<1>4. CASE LoopPauses(i)
  <2>1. call[i].pc = "paused" /\ \E p \in {"failing", "ending"} : \E r : Finish(i, p, r)
    BY <1>4 DEF LoopPauses, At
  <2>2. QED
    BY <2>1, GoerGoes DEF Paths
<1>5. CASE LoopFails(i) \/ CompleteTurn(i)
  <2>1. call[i].pc = "loop" /\ \E p \in {"failing", "ending"} : Go(i, p) \/ \E r : Finish(i, p, r)
    BY <1>5 DEF LoopFails, CompleteTurn, At
  <2>2. QED
    BY <2>1, GoerGoes DEF Paths
<1>6. CASE FailTurn(i)
  <2>1. call[i].pc = "failing" /\ \E p \in {"observe", "ending"} : \E r : Finish(i, p, r)
    BY <1>6 DEF FailTurn, At
  <2>2. QED
    BY <2>1, GoerGoes DEF Paths
<1>7. CASE LeaveExecution(i)
  <2>1. call[i].pc = "ended" /\ (Go(i, "observe") \/ Return(i))
    BY <1>7 DEF LeaveExecution, At
  <2>2. QED
    BY <2>1, GoerGoes, ReturnerEnds DEF Paths
<1>8. QED
  BY <1>2, <1>3, <1>4, <1>5, <1>6, <1>7 DEF RunsTurn

\* The steps of a decision, once it is registered; CarryOut stays where it is.
LEMMA DeciderMoves ==
  ASSUME IInv, NEW i \in Calls, DecidesApproval(i), ~RegisterDecision(i), ~CarryOut(i),
         ~\E a \in Approvals : ReadApproval(i, a)
  PROVE  Others(i) /\ Goes(call[i], call'[i])
<1>1. call[i] \in CallRecord /\ call \in [Calls -> CallRecord]
  BY DEF IInv, TypeOK
<1>2. CASE \E decision \in {"executing", "denied"} : ClaimApprovalDecision(i, decision)
  <2>1. /\ call[i].pc = "claim"
        /\ \E p \in {"tool", "receipt", "failing", "ending"} : Go(i, p) \/ \E r : Finish(i, p, r)
    BY <1>2 DEF ClaimApprovalDecision, At
  <2>2. QED
    BY <2>1, GoerGoes DEF Paths
<1>3. CASE PersistFails(i) \/ \E result \in {"executed", "failed", "uncertain"} : ToolReturns(i, result)
  <2>1. /\ call[i].pc \in {"tool", "receipt"}
        /\ \E p \in {"receipt", "failing", "ending"} : \E r : Finish(i, p, r)
    BY <1>3 DEF PersistFails, ToolReturns, At
  <2>2. QED
    BY <2>1, GoerGoes DEF Paths
<1>4. CASE PersistApprovalReceipt(i)
  <2>1. /\ call[i].pc = "receipt" /\ call'[i].pc \in {"loop", "resumed"} /\ Others(i)
        /\ Further(call[i], call'[i]) /\ call'[i].registered = call[i].registered
    BY <1>1, <1>4 DEF PersistApprovalReceipt, At, CallRecord, Others, Further
  <2>2. QED
    BY <2>1 DEF Goes, Paths
<1>5. CASE DecisionCancelled(i) \/ DecisionStands(i)
  <2>1. call[i].pc = "resumed" /\ (Go(i, "failing") \/ Go(i, "resuming"))
    BY <1>5 DEF DecisionCancelled, DecisionStands, At
  <2>2. QED
    BY <2>1, GoerGoes DEF Paths
<1>6. CASE ContinueLoop(i) \/ BlockContinuation(i)
  <2>1. call[i].pc = "resuming" /\ (Go(i, "loop") \/ Go(i, "ending"))
    BY <1>6 DEF ContinueLoop, BlockContinuation, At
  <2>2. QED
    BY <2>1, GoerGoes DEF Paths
<1>7. QED
  BY <1>2, <1>3, <1>4, <1>5, <1>6 DEF DecidesApproval

\* The steps of whoever settles a stop, and those of the queue that do not
\* take up a call.
LEMMA SettlerMoves ==
  ASSUME IInv, NEW i \in Calls,
         Observe(i) \/ Settle(i) \/ SteerTooLate(i) \/ DrainRefused(i) \/ ReportRefusal(i) \/ ReportTurn(i)
  PROVE  Others(i) /\ (Goes(call[i], call'[i]) \/ Ends(call[i], call'[i]))
<1>1. call[i] \in CallRecord /\ call \in [Calls -> CallRecord]
  BY DEF IInv, TypeOK
<1>2. CASE Observe(i)
  <2>1. /\ call[i].pc = "observe" /\ call'[i].pc = "settle" /\ Others(i)
        /\ Further(call[i], call'[i]) /\ call'[i].registered = call[i].registered
    <3>1. PICK sure \in BOOLEAN : call' = [call EXCEPT ![i].pc = "settle", ![i].sure = sure]
      BY <1>2 DEF Observe
    <3>2. QED
      BY <1>1, <1>2, <3>1 DEF Observe, At, CallRecord, Others, Further
  <2>2. QED
    BY <2>1 DEF Goes, Paths
<1>3. CASE Settle(i)
  <2>1. call[i].pc = "settle"
    BY <1>3 DEF Settle, At
  <2>2. CASE call[i].registered
    <3>1. PICK r : call' = [call EXCEPT ![i] = [call[i] EXCEPT !.pc = "ending", !.result = r]]
      BY <1>3, <2>2 DEF Settle
    <3>2. /\ call'[i].pc = "ending" /\ Others(i)
          /\ Further(call[i], call'[i]) /\ call'[i].registered = call[i].registered
      BY <1>1, <3>1 DEF CallRecord, Others, Further
    <3>3. QED
      BY <2>1, <2>2, <3>2 DEF Goes
  <2>3. CASE ~call[i].registered
    BY <1>3, <2>1, <2>3, ReturnerEnds DEF Settle
  <2>4. QED
    BY <2>2, <2>3
<1>4. CASE SteerTooLate(i) \/ ReportRefusal(i) \/ ReportTurn(i)
  BY <1>4, ReturnerEnds DEF SteerTooLate, ReportRefusal, ReportTurn, At
<1>5. CASE DrainRefused(i)
  BY <1>5, GoerGoes DEF DrainRefused, At, Paths
<1>6. QED
  BY <1>2, <1>3, <1>4, <1>5

-----------------------------------------------------------------------------
(* Who is in executions.active.                                            *)

Shape(c) ==
  /\ c.registered => c.pc \in Inside \cup {"observe", "settle"}
  /\ c.pc \in Inside => c.registered
  /\ c.pc \in Inside \cup {"acquired", "ended"} \/ c.registered => c.op \in {"run", "decide"}
  /\ c.pc \in {"acquired", "draining", "refused"} => c.op = "run"
  /\ c.pc = "read" => c.op = "decide"
  /\ c.pc = "idle" => c = NoCall

\* Turn t has had an approval.
Suspended(t) == \E a \in Approvals : approval[a].turn = t

(***************************************************************************)
(* A turn has one executor: its RunTurn until that has left, and then one  *)
(* decision at a time.                                                     *)
(***************************************************************************)
Registry ==
  /\ \A i \in Calls : Shape(call[i])
  /\ \A i \in Calls : call[i].turn # None => Begun(call[i].turn)
  /\ \A i \in Calls : call[i].op = "decide" => call[i].turn \in Turns /\ Suspended(call[i].turn)
  /\ \A i \in Calls : call[i].pc = "acquired" => ~Suspended(call[i].turn)
  /\ \A i, j \in Calls : /\ call[i].op = "run" /\ call[j].op = "run"
                         /\ call[i].turn = call[j].turn /\ call[i].turn # None
                         => i = j
  /\ \A i, j \in Calls : /\ call[i].registered /\ call[j].registered
                         /\ call[i].turn = call[j].turn
                         => i = j
  /\ \A a \in Approvals : approval[a].turn # None => approval[a].state # "none" /\ Begun(approval[a].turn)

\* What a step does to the rows that the registry is about: turns stay begun,
\* and approvals stay with their turn; only the turn of call i may get one.
RegistryRows(i) ==
  /\ \A t \in Turns : Begun(t) => Begun(t)'
  /\ \A a \in Approvals :
       \/ approval'[a].turn = approval[a].turn /\ (approval[a].state # "none" => approval'[a].state # "none")
       \/ /\ approval[a].turn = None /\ call[i].registered /\ call[i].turn \in Turns
          /\ approval'[a].turn = call[i].turn /\ approval'[a].state # "none"

LEMMA SuspendedKept ==
  ASSUME IInv, IInv', Registry, NEW i \in Calls, RegistryRows(i)
  PROVE  /\ \A t \in Turns : Suspended(t) => Suspended(t)'
         /\ \A t \in Turns : Suspended(t)' => Suspended(t) \/ (call[i].registered /\ t = call[i].turn)
         /\ \A a \in Approvals : approval'[a].turn # None =>
              approval'[a].state # "none" /\ outcome'[approval'[a].turn] # "none"
<1>1. None \notin Turns /\ \A a \in Approvals : approval[a].turn \in Turns \cup {None}
  BY NoneIsNoTurn DEF IInv, TypeOK, ApprovalRow
<1>2. \A t \in Turns : Suspended(t) => Suspended(t)'
  BY <1>1 DEF RegistryRows, Suspended
<1>3. \A t \in Turns : Suspended(t)' => Suspended(t) \/ (call[i].registered /\ t = call[i].turn)
  BY DEF RegistryRows, Suspended
<1>4. ASSUME NEW a \in Approvals, approval'[a].turn # None
      PROVE  approval'[a].state # "none" /\ outcome'[approval'[a].turn] # "none"
  <2>1. PICK t \in Turns : t = approval'[a].turn
    BY <1>4, NoneIsNoTurn DEF IInv, TypeOK, ApprovalRow
  <2>2. Begun(t) /\ approval'[a].state # "none"
    BY <1>1, <2>1 DEF RegistryRows, Registry
  <2>3. QED
    BY <2>1, <2>2 DEF RegistryRows, Begun
<1>5. QED
  BY <1>2, <1>3, <1>4

LEMMA GoneIsShaped == Shape(NoCall) /\ NoCall.turn = None /\ NoCall.op = "none" /\ ~NoCall.registered
BY DEF Shape, NoCall, Inside, None

\* A call that goes on keeps its shape.
LEMMA ShapeKept ==
  ASSUME NEW c, NEW d, Shape(c), Goes(c, d) \/ Ends(c, d), c.registered \in BOOLEAN, d.registered \in BOOLEAN
  PROVE  /\ Shape(d)
         /\ \/ d = NoCall
            \/ /\ Further(c, d) /\ d.pc # "acquired"
               /\ d.registered => c.registered \/ c.pc = "acquired"
<1>1. CASE Ends(c, d)
  BY <1>1, GoneIsShaped DEF Ends, Shape, Inside
<1>2. CASE Goes(c, d)
  <2>1. CASE d.registered = c.registered /\ <<c.pc, d.pc>> \in Paths
    <3>1. /\ c.pc \in Inside \cup {"ended", "observe", "draining"}
          /\ c.pc \in Inside => d.pc \in Inside \cup {"observe"}
          /\ c.pc \in {"ended", "observe"} => d.pc \in {"observe", "settle"}
          /\ c.pc = "draining" => d.pc = "refused"
      BY <2>1 DEF Paths, Inside
    <3>2. QED
      BY <1>2, <2>1, <3>1 DEF Goes, Shape, Further, Inside
  <2>2. CASE ~(d.registered = c.registered /\ <<c.pc, d.pc>> \in Paths)
    BY <1>2, <2>2 DEF Goes, Shape, Further, Inside
  <2>3. QED
    BY <2>1, <2>2
<1>3. QED
  BY <1>1, <1>2

\* A turn that waits to be registered has had no executor and no approval.
LEMMA AcquiredIsAlone ==
  ASSUME IInv, Registry, NEW i \in Calls, NEW j \in Calls, i # j, call[i].pc = "acquired"
  PROVE  /\ call[i].turn \in Turns
         /\ call[j].registered \/ call[j].op \in {"run", "decide"} => call[j].turn # call[i].turn
<1>1. call[i].turn \in Turns /\ call[i].turn # None
  BY CallIsTyped, NoneIsNoTurn DEF WellPlaced, Fits
<1>2. ASSUME call[j].op \in {"run", "decide"} PROVE call[j].turn # call[i].turn
  BY <1>1, <1>2 DEF Registry, Shape
<1>3. call[j].registered => call[j].op \in {"run", "decide"}
  BY DEF Registry, Shape
<1>4. QED
  BY <1>1, <1>2, <1>3

\* A call that was taken up, goes on or ends as the registry requires.
LEMMA RegistryKept ==
  ASSUME IInv, IInv', Registry, NEW i \in Calls, Others(i), RegistryRows(i), Shape(call[i])',
         call'[i].turn # None => Begun(call[i].turn)',
         call'[i].op = "decide" => call'[i].turn \in Turns /\ Suspended(call[i].turn)',
         call'[i].pc = "acquired" => ~Suspended(call[i].turn)',
         \A j \in Calls \ {i} : call'[i].op = "run" /\ call'[i].turn # None /\ call[j].op = "run"
                                   => call[j].turn # call'[i].turn,
         \A j \in Calls \ {i} : call'[i].registered /\ call[j].registered => call[j].turn # call'[i].turn
  PROVE  Registry'
<1>1. \A j \in Calls : j # i => call'[j] = call[j] /\ call[j].turn \in Turns \cup {None}
  BY CallIsTyped DEF Others, CallRecord
<1>2. \A j \in Calls : Shape(call[j])'
  BY <1>1 DEF Registry
<1>3. ASSUME NEW j \in Calls, j # i
      PROVE  /\ call'[j].turn # None => Begun(call[j].turn)'
             /\ call'[j].op = "decide" => call'[j].turn \in Turns /\ Suspended(call[j].turn)'
             /\ call'[j].pc = "acquired" => ~Suspended(call[j].turn)'
  <2>1. PICK t \in Turns \cup {None} : t = call[j].turn /\ t = call'[j].turn
    BY <1>1, <1>3
  <2>2. t # None => Begun(t)
    BY <2>1 DEF Registry
  <2>3. call'[j].op = "decide" => t \in Turns /\ Suspended(t)
    BY <1>1, <1>3, <2>1 DEF Registry
  <2>4. call'[j].pc = "acquired" => t \in Turns /\ ~Suspended(t) /\ (call[i].registered => call[i].turn # t)
    BY <1>1, <1>3, <2>1, AcquiredIsAlone DEF Registry
  <2>5. (t # None => Begun(t)') /\ (t \in Turns /\ Suspended(t) => Suspended(t)')
    BY <2>2, SuspendedKept DEF RegistryRows
  <2>6. t \in Turns /\ ~Suspended(t) /\ (call[i].registered => call[i].turn # t) => ~Suspended(t)'
    BY SuspendedKept
  <2>7. QED
    BY <2>1, <2>3, <2>4, <2>5, <2>6 DEF Begun, Suspended
<1>4. ASSUME NEW j \in Calls, NEW k \in Calls, j # k
      PROVE  /\ ~(/\ call'[j].op = "run" /\ call'[k].op = "run"
                  /\ call'[j].turn = call'[k].turn /\ call'[j].turn # None)
             /\ ~(call'[j].registered /\ call'[k].registered /\ call'[j].turn = call'[k].turn)
  BY <1>1, <1>4 DEF Registry
<1>5. \A a \in Approvals : approval'[a].turn # None =>
        approval'[a].state # "none" /\ outcome'[approval'[a].turn] # "none"
  BY SuspendedKept
<1>6. QED
  BY <1>2, <1>3, <1>4, <1>5 DEF Registry, Begun

\* A call that goes on, or ends.
LEMMA MoversKeepRegistry ==
  ASSUME IInv, IInv', Registry, NEW i \in Calls, Others(i), RegistryRows(i),
         Goes(call[i], call'[i]) \/ Ends(call[i], call'[i])
  PROVE  Registry'
<1>1. /\ call[i] \in CallRecord /\ call'[i] \in CallRecord /\ Shape(call[i])
      /\ call[i].registered \in BOOLEAN /\ call'[i].registered \in BOOLEAN
  BY DEF IInv, TypeOK, Registry, CallRecord
<1>2. PICK c, d : c = call[i] /\ d = call'[i]
  OBVIOUS
<1>3. /\ Shape(d)
      /\ d = NoCall \/ (Further(c, d) /\ d.pc # "acquired" /\ (d.registered => c.registered \/ c.pc = "acquired"))
  BY <1>1, <1>2, ShapeKept
<1>4. Shape(call[i])'
  BY <1>2, <1>3
<1>5. CASE call'[i] = NoCall
  BY <1>4, <1>5, GoneIsShaped, RegistryKept DEF NoCall
<1>6. CASE Further(call[i], call'[i])
  <2>1. PICK t \in Turns \cup {None} : t = call[i].turn /\ t = call'[i].turn
    BY <1>1, <1>6 DEF Further, CallRecord
  <2>2. (t # None => Begun(t)) /\ (call'[i].op = "decide" => t \in Turns /\ Suspended(t))
    BY <1>6, <2>1 DEF Registry, Further
  <2>3. (t # None => Begun(t)') /\ (call'[i].op = "decide" => t \in Turns /\ Suspended(t)')
    BY <2>2, SuspendedKept DEF RegistryRows
  <2>4. /\ call'[i].turn # None => Begun(call[i].turn)'
        /\ call'[i].op = "decide" => call'[i].turn \in Turns /\ Suspended(call[i].turn)'
    BY <2>1, <2>3 DEF Begun, Suspended
  <2>5. \A j \in Calls \ {i} : call'[i].op = "run" /\ call'[i].turn # None /\ call[j].op = "run"
                                  => call[j].turn # call'[i].turn
    BY <1>6 DEF Further, Registry
  <2>6. \A j \in Calls \ {i} : call'[i].registered /\ call[j].registered => call[j].turn # call'[i].turn
    <3>1. CASE call[i].registered
      BY <1>6, <3>1 DEF Further, Registry
    <3>2. CASE call[i].pc = "acquired"
      BY <1>6, <3>2, AcquiredIsAlone DEF Further
    <3>3. CASE ~call'[i].registered
      BY <3>3
    <3>4. QED
      BY <1>2, <1>3, <3>1, <3>2, <3>3, GoneIsShaped
  <2>7. call'[i].pc # "acquired"
    BY <1>2, <1>3 DEF NoCall
  <2>8. QED
    BY <1>4, <2>4, <2>5, <2>6, <2>7, RegistryKept
<1>7. QED
  BY <1>2, <1>3, <1>5, <1>6

\* A turn that was begun stays begun.
LEMMA BegunStays ==
  ASSUME IInv, [Next]_vars, NEW t \in Turns, Begun(t)
  PROVE  Begun(t)'
<1>1. outcome \in [Turns -> Outcomes]
  BY DEF IInv, TypeOK
<1>2. ASSUME NEW u, NEW how, how # "none", outcome' = [outcome EXCEPT ![u] = how] PROVE Begun(t)'
  BY <1>1, <1>2 DEF Begun
<1>3. ASSUME NEW i \in Calls, RunsTurn(i) PROVE Begun(t)'
  <2>1. CASE \E u \in Turns : AcquireTurn(i, u)
    BY <1>2, <2>1 DEF AcquireTurn
  <2>2. CASE CompleteTurn(i) \/ FailTurn(i)
    BY <1>2, <2>2 DEF CompleteTurn, FailTurn, rows, Begun
  <2>3. CASE \/ RegisterTurn(i) \/ UsesCommands(i) \/ LoopPauses(i) \/ LoopFails(i)
             \/ EndExecution(i) \/ LeaveExecution(i)
             \/ \E a \in Approvals, authorized \in BOOLEAN : CreateToolApproval(i, a, authorized)
    BY <2>3 DEF RegisterTurn, UsesCommands, StartCommand, CancelCommand, CreateToolApproval, LoopPauses, LoopFails, EndExecution, LeaveExecution,
       rows, Begun
  <2>4. QED
    BY <1>3, <2>1, <2>2, <2>3 DEF RunsTurn
<1>4. ASSUME NEW i \in Calls, DecidesApproval(i) PROVE Begun(t)'
  BY <1>2, <1>4 DEF DecidesApproval, ReadApproval, RegisterDecision, ClaimApprovalDecision, CarryOut, ToolReturns,
     PersistApprovalReceipt, PersistFails, DecisionCancelled, DecisionStands, ContinueLoop, BlockContinuation, rows, Begun
<1>5. ASSUME NEW i \in Calls, StopsTurn(i) PROVE Begun(t)'
  <2>1. CASE Settle(i) /\ ~UNCHANGED rows
    <3>1. PICK u \in {Turn(i)} : outcome' = [outcome EXCEPT ![u] = IF @ = "open" THEN "stopped" ELSE @]
      BY <2>1 DEF Settle, SettleRows
    <3>2. QED
      BY <1>1, <3>1 DEF Begun
  <2>2. CASE StopsTurn(i) /\ (~Settle(i) \/ UNCHANGED rows)
    BY <2>2 DEF StopsTurn, StopTurn, ReconcileStoppedTurn, Observe, rows, Begun
  <2>3. QED
    BY <1>5, <2>1, <2>2 DEF StopsTurn
<1>6. ASSUME NEW i \in Calls, UsesQueue(i) PROVE Begun(t)'
  BY <1>6 DEF UsesQueue, QueueSteer, DrainOneQueued, SteerTooLate, DrainRefused, ReportRefusal, ReportTurn, rows, Begun
<1>7. CASE Startup
  <2>1. \/ outcome' = outcome
        \/ \E u : outcome' = [outcome EXCEPT ![u] = "interrupted"]
    BY <1>7 DEF Startup, RecoverMessageQueue, RecoverInterruptedApprovals, RecoverInterruptedTurns, RecoverTurnControls
  <2>2. QED
    BY <1>2, <2>1 DEF Begun
<1>8. CASE \/ \E u \in Turns : CommandEnds(u)
           \/ \E m \in Messages : QueueMessage(m) \/ CancelQueuedMessage(m)
           \/ Crash \/ UNCHANGED vars
  BY <1>8 DEF CommandEnds, QueueMessage, CancelQueuedMessage, Crash, rows, vars, Begun
<1>9. QED
  BY <1>3, <1>4, <1>5, <1>6, <1>7, <1>8 DEF Next

\* A step that takes up no approval, and records none but with a state.
LEMMA ApprovalsStay ==
  ASSUME IInv, [Next]_vars,
         \/ Withdrawn
         \/ \E a, state : state # "none" /\ approval' = [approval EXCEPT ![a].state = state]
         \/ RecoverInterruptedApprovals
  PROVE  /\ \A i \in Calls : RegistryRows(i)
         /\ \A a \in Approvals :
              approval'[a].turn = approval[a].turn /\ (approval[a].state # "none" => approval'[a].state # "none")
<1>1. approval \in [Approvals -> ApprovalRow]
  BY DEF IInv, TypeOK
<1>2. ASSUME NEW a \in Approvals
      PROVE  approval'[a].turn = approval[a].turn /\ (approval[a].state # "none" => approval'[a].state # "none")
  <2>1. CASE Withdrawn
    BY <2>1, WithdrawnKeeps
  <2>2. CASE \E b, state : state # "none" /\ approval' = [approval EXCEPT ![b].state = state]
    BY <1>1, <2>2 DEF ApprovalRow
  <2>3. CASE RecoverInterruptedApprovals
    <3>1. PICK verdict \in [Interrupted -> {"executed", "pending", "uncertain"}] :
            approval' = [b \in Approvals |-> IF b \in Interrupted
                           THEN [approval[b] EXCEPT !.state = verdict[b]] ELSE approval[b]]
      BY <2>3 DEF RecoverInterruptedApprovals
    <3>2. CASE a \in Interrupted
      <4>1. verdict[a] \in {"executed", "pending", "uncertain"} /\ approval'[a] = [approval[a] EXCEPT !.state = verdict[a]]
        BY <3>1, <3>2
      <4>2. QED
        BY <1>1, <4>1 DEF ApprovalRow
    <3>3. QED
      BY <3>1, <3>2
  <2>4. QED
    BY <2>1, <2>2, <2>3
<1>3. QED
  BY <1>2, BegunStays DEF RegistryRows

\* RunTurn takes the session for a turn that nobody has had.
LEMMA AcquireKeepsRegistry ==
  ASSUME IInv, IInv', Registry, [Next]_vars, NEW i \in Calls, NEW t \in Turns, AcquireTurn(i, t)
  PROVE  Registry'
<1>1. /\ call[i] \in CallRecord /\ call \in [Calls -> CallRecord] /\ outcome \in [Turns -> Outcomes]
      /\ None \notin Turns
  BY NoneIsNoTurn DEF IInv, TypeOK
<1>2. /\ call[i].pc \in {"idle", "draining"} /\ ~Begun(t)
      /\ Withdrawn /\ outcome' = [outcome EXCEPT ![t] = "open"]
      /\ call' = [call EXCEPT ![i].op = "run", ![i].pc = "acquired", ![i].turn = t]
  BY DEF AcquireTurn, Begun, Withdrawn
<1>3. /\ Others(i) /\ call'[i].op = "run" /\ call'[i].pc = "acquired" /\ call'[i].turn = t
      /\ call'[i].registered = call[i].registered
  BY <1>1, <1>2 DEF Others, CallRecord
<1>4. ~call'[i].registered /\ Shape(call[i])'
  BY <1>2, <1>3 DEF Registry, Shape, Inside
<1>5. RegistryRows(i)
  BY <1>2, ApprovalsStay
<1>6. ~Suspended(t)
  BY <1>1, <1>2 DEF Registry, Suspended
<1>7. ~Suspended(t)'
  BY <1>2, <1>3, <1>4, <1>5, <1>6, SuspendedKept
<1>8. Begun(t)' /\ \A j \in Calls : call[j].turn # t
  BY <1>1, <1>2 DEF Begun, Registry
<1>9. QED
  BY <1>3, <1>4, <1>5, <1>7, <1>8, RegistryKept DEF Begun, Suspended

\* A decision is read, and registered when nobody executes the turn.
LEMMA DecisionsKeepRegistry ==
  ASSUME IInv, IInv', HoldInv, Registry, [Next]_vars, NEW i \in Calls,
         RegisterDecision(i) \/ \E a \in Approvals : ReadApproval(i, a)
  PROVE  Registry'
<1>1. /\ call[i] \in CallRecord /\ call \in [Calls -> CallRecord] /\ None \notin Turns
      /\ call'[i] \in CallRecord /\ Shape(call[i])
  BY NoneIsNoTurn DEF IInv, TypeOK, Registry
<1>2. UNCHANGED rows /\ RegistryRows(i)
  BY ApprovalsStay DEF RegisterDecision, ReadApproval, Withdrawn, rows
<1>3. \A t : (Begun(t) => Begun(t)') /\ (Suspended(t) => Suspended(t)')
  BY <1>2 DEF rows, Begun, Suspended
<1>4. ASSUME NEW a \in Approvals, ReadApproval(i, a) PROVE Registry'
  <2>1. /\ call[i].pc = "idle" /\ approval[a].state # "none" /\ Others(i)
        /\ call'[i].op = "decide" /\ call'[i].pc = "read" /\ call'[i].turn = approval[a].turn
        /\ call'[i].registered = call[i].registered
    BY <1>1, <1>4 DEF ReadApproval, At, Others, CallRecord
  <2>2. ~call'[i].registered /\ Shape(call[i])'
    BY <1>1, <2>1 DEF Shape, Inside
  <2>3. PICK t \in Turns : t = approval[a].turn /\ t = call'[i].turn
    BY <2>1 DEF IInv, LeaseIsOpen
  <2>4. Begun(t) /\ Suspended(t)
    BY <1>1, <2>3 DEF Registry, Suspended
  <2>5. Begun(call[i].turn)' /\ Suspended(call[i].turn)'
    BY <1>3, <2>3, <2>4 DEF Begun, Suspended
  <2>6. QED
    BY <1>2, <2>1, <2>2, <2>3, <2>5, RegistryKept
<1>5. CASE RegisterDecision(i) /\ Executing(Turn(i))
  <2>1. call[i].pc = "read" /\ Return(i)
    BY <1>5 DEF RegisterDecision, At
  <2>2. QED
    BY <1>2, <2>1, ReturnerEnds, MoversKeepRegistry
<1>6. CASE RegisterDecision(i) /\ ~Executing(Turn(i))
  <2>1. PICK pc \in {"claim", "ending"} : call' = [call EXCEPT ![i].registered = TRUE, ![i].pc = pc]
    BY <1>6 DEF RegisterDecision
  <2>2. /\ call[i].pc = "read" /\ Others(i) /\ call'[i].pc = pc /\ call'[i].registered
        /\ Further(call[i], call'[i])
    BY <1>1, <1>6, <2>1 DEF RegisterDecision, At, Others, Further, CallRecord
  <2>3. call[i].op = "decide" /\ Shape(call[i])'
    BY <1>1, <2>2 DEF Shape, Further, Inside
  <2>4. PICK t \in Turns : t = call[i].turn /\ t = call'[i].turn
    BY <2>2, <2>3 DEF Registry, Further
  <2>5. Begun(t) /\ Suspended(t)
    BY <1>1, <2>3, <2>4 DEF Registry
  <2>6. Begun(call[i].turn)' /\ Suspended(call[i].turn)'
    BY <1>3, <2>4, <2>5 DEF Begun, Suspended
  <2>7. \A j \in Calls : call[j].registered => call[j].turn # t
    BY <1>6, <2>4 DEF Executing, Turn
  <2>8. QED
    BY <1>2, <2>2, <2>3, <2>4, <2>6, <2>7, RegistryKept DEF Further
<1>7. QED
  BY <1>4, <1>5, <1>6

\* A stop, a reconciliation or a message takes up a call that executes nothing.
LEMMA RequestsKeepRegistry ==
  ASSUME IInv, IInv', Registry, [Next]_vars, NEW i \in Calls,
         \/ \E t \in Turns : StopTurn(i, t) \/ ReconcileStoppedTurn(i, t)
         \/ \E m \in Messages : QueueSteer(i, m) \/ DrainOneQueued(i, m)
  PROVE  Registry'
<1>1. /\ call[i] \in CallRecord /\ call \in [Calls -> CallRecord] /\ None \notin Turns
      /\ call'[i] \in CallRecord /\ Shape(call[i])
  BY NoneIsNoTurn DEF IInv, TypeOK, Registry
<1>2. UNCHANGED <<outcome, approval>>
  BY DEF StopTurn, ReconcileStoppedTurn, QueueSteer, DrainOneQueued, rows
<1>3. RegistryRows(i)
  BY <1>2, ApprovalsStay DEF Withdrawn
<1>4. session.turn # None => Begun(session.turn)
  BY DEF IInv, LeaseIsOpen, Unfinished, Begun
<1>5. ASSUME Others(i), ~call'[i].registered, call'[i].op \in {"none", "stop", "steer", "reconcile"},
             call'[i].pc \in {"idle", "observe", "steer"},
             call'[i].pc = "idle" => call'[i] = NoCall,
             call'[i].turn \in {None, session.turn}
      PROVE  Registry'
  <2>1. Shape(call[i])'
    BY <1>5 DEF Shape, Inside
  <2>2. call'[i].turn # None => Begun(call[i].turn)'
    BY <1>2, <1>4, <1>5 DEF Begun
  <2>3. QED
    BY <1>3, <1>5, <2>1, <2>2, RegistryKept DEF Inside
<1>6. ASSUME NEW t \in Turns, StopTurn(i, t) PROVE Registry'
  BY <1>1, <1>5, <1>6 DEF StopTurn, NoCall, Others, Inside
<1>7. ASSUME NEW t \in Turns, ReconcileStoppedTurn(i, t) PROVE Registry'
  <2>1. /\ Others(i) /\ call[i].pc = "idle" /\ call'[i].registered = call[i].registered
        /\ call'[i].op = "reconcile" /\ call'[i].pc = "observe" /\ call'[i].turn = session.turn
    BY <1>1, <1>7 DEF ReconcileStoppedTurn, At, Others, CallRecord
  <2>2. QED
    BY <1>1, <1>5, <2>1 DEF Shape, Inside
<1>8. ASSUME NEW m \in Messages, QueueSteer(i, m) PROVE Registry'
  <2>1. /\ Others(i) /\ call[i].pc = "idle" /\ call'[i].registered = call[i].registered
        /\ call'[i].op = "steer" /\ call'[i].pc = "steer" /\ call'[i].turn = session.turn
    BY <1>1, <1>8 DEF QueueSteer, At, Others, CallRecord
  <2>2. QED
    BY <1>1, <1>5, <2>1 DEF Shape, Inside
<1>9. ASSUME NEW m \in Messages, DrainOneQueued(i, m) PROVE Registry'
  <2>1. /\ Others(i) /\ call[i].pc = "idle" /\ call'[i].registered = call[i].registered
        /\ call'[i].op = "run" /\ call'[i].pc = "draining" /\ call'[i].turn = call[i].turn
    BY <1>1, <1>9 DEF DrainOneQueued, At, Others, CallRecord
  <2>2. call[i].turn = None
    BY <1>1, <2>1 DEF Shape, NoCall
  <2>3. Shape(call[i])' /\ ~call'[i].registered
    BY <1>1, <2>1 DEF Shape, Inside
  <2>4. QED
    BY <1>3, <2>1, <2>2, <2>3, RegistryKept
<1>10. QED
  BY <1>6, <1>7, <1>8, <1>9

LEMMA RegistryInductive ==
  IInv /\ IInv' /\ AttemptInv /\ HoldInv /\ Registry /\ [Next]_vars => Registry'
<1> SUFFICES ASSUME IInv, IInv', AttemptInv, HoldInv, Registry, [Next]_vars PROVE Registry'
  OBVIOUS
\* Nobody's call changes, or all are gone.
<1>1. ASSUME \/ call' = call \/ call' = [i \in Calls |-> NoCall],
             \/ Withdrawn \/ RecoverInterruptedApprovals
      PROVE  Registry'
  <2>1. \A a \in Approvals :
          approval'[a].turn = approval[a].turn /\ (approval[a].state # "none" => approval'[a].state # "none")
    BY <1>1, ApprovalsStay
  <2>2. \A i \in Calls : call'[i] = call[i] \/ call'[i] = NoCall
    BY <1>1
  <2>3. ASSUME NEW t PROVE Suspended(t)' <=> Suspended(t)
    BY <2>1 DEF Suspended
  <2>4. \A t \in Turns : Begun(t) => Begun(t)'
    BY BegunStays
  <2>5. ASSUME NEW i \in Calls, call'[i] = call[i]
        PROVE  /\ Shape(call[i])' /\ call'[i].turn \in Turns \cup {None}
               /\ call'[i].turn # None => Begun(call[i].turn)'
               /\ call'[i].op = "decide" => call'[i].turn \in Turns /\ Suspended(call[i].turn)'
               /\ call'[i].pc = "acquired" => ~Suspended(call[i].turn)'
    <3>1. PICK t \in Turns \cup {None} : t = call[i].turn /\ t = call'[i].turn
      BY <2>5, CallIsTyped DEF CallRecord
    <3>2. /\ t # None => Begun(t)'
          /\ call'[i].op = "decide" => t \in Turns /\ Suspended(t)'
          /\ call'[i].pc = "acquired" => ~Suspended(t)'
      BY <2>3, <2>4, <2>5, <3>1 DEF Registry
    <3>3. QED
      BY <2>5, <3>1, <3>2 DEF Registry, Begun, Suspended
  <2>6. \A i \in Calls : call'[i] = NoCall => Shape(call[i])'
    BY GoneIsShaped
  <2>7. NoCall.turn = None /\ NoCall.op = "none" /\ ~NoCall.registered /\ NoCall.pc = "idle"
    BY DEF NoCall
  <2>8. ASSUME NEW a \in Approvals, approval'[a].turn # None
        PROVE  approval'[a].state # "none" /\ outcome'[approval'[a].turn] # "none"
    <3>1. PICK t \in Turns : t = approval[a].turn /\ t = approval'[a].turn
      BY <2>1, <2>8, NoneIsNoTurn DEF IInv, TypeOK, ApprovalRow
    <3>2. Begun(t)' /\ approval'[a].state # "none"
      BY <2>1, <2>4, <2>8, <3>1 DEF Registry
    <3>3. QED
      BY <3>1, <3>2 DEF Begun
  <2>9. ASSUME NEW i \in Calls, NEW j \in Calls, i # j
        PROVE  /\ ~(/\ call'[i].op = "run" /\ call'[j].op = "run"
                    /\ call'[i].turn = call'[j].turn /\ call'[i].turn # None)
               /\ ~(call'[i].registered /\ call'[j].registered /\ call'[i].turn = call'[j].turn)
    BY <2>2, <2>7, <2>9 DEF Registry
  <2>10. QED
    BY <2>2, <2>5, <2>6, <2>7, <2>8, <2>9 DEF Registry, Begun, Suspended
<1>2. ASSUME NEW i \in Calls, RunsTurn(i) PROVE Registry'
  <2>1. ASSUME NEW t \in Turns, AcquireTurn(i, t) PROVE Registry'
    BY <2>1, AcquireKeepsRegistry
  <2>2. CASE UsesCommands(i)
    BY <1>1, <2>2 DEF UsesCommands, StartCommand, CancelCommand, rows, Withdrawn
  <2>3. ASSUME NEW a \in Approvals, NEW authorized \in BOOLEAN, CreateToolApproval(i, a, authorized)
        PROVE  RegistryRows(i)
    <3>1. /\ call[i].pc = "loop" /\ call[i].registered /\ call[i].turn \in Turns
          /\ approval[a].state = "none" /\ approval' = [approval EXCEPT ![a] = [state |-> "pending", turn |-> Turn(i)]]
          /\ approval[a].turn = None /\ approval \in [Approvals -> ApprovalRow]
      BY <2>3, CallIsTyped DEF CreateToolApproval, At, Registry, Shape, Inside, WellPlaced, Fits, IInv, TypeOK
    <3>2. QED
      BY <3>1, BegunStays DEF RegistryRows, Turn
  <2>4. CASE RunsTurn(i) /\ ~UsesCommands(i) /\ ~\E t \in Turns : AcquireTurn(i, t)
    <3>1. RegistryRows(i)
      BY <2>3, <2>4, HushedRows, ApprovalsStay DEF RunsTurn
    <3>2. QED
      BY <2>4, <3>1, RunnerMoves, MoversKeepRegistry
  <2>5. QED
    BY <1>2, <2>1, <2>2, <2>4
<1>3. ASSUME NEW i \in Calls, DecidesApproval(i) PROVE Registry'
  <2>1. CASE RegisterDecision(i) \/ \E a \in Approvals : ReadApproval(i, a)
    BY <2>1, DecisionsKeepRegistry
  <2>2. CASE CarryOut(i)
    <3>1. /\ call[i] \in CallRecord /\ call \in [Calls -> CallRecord] /\ UNCHANGED <<approval, outcome>>
      BY <2>2 DEF IInv, TypeOK, CarryOut, rows
    <3>2. /\ Others(i) /\ Further(call[i], call'[i]) /\ call[i].pc = "tool"
          /\ call'[i].pc = "tool" /\ call'[i].registered = call[i].registered
      BY <2>2, <3>1 DEF CarryOut, At, Others, Further, CallRecord
    <3>3. RegistryRows(i)
      BY <3>1, ApprovalsStay DEF Withdrawn
    <3>4. Shape(call[i])'
      BY <3>2 DEF Registry, Shape, Further, Inside
    <3>5. PICK t \in Turns \cup {None} : t = call[i].turn /\ t = call'[i].turn
      BY <3>1, <3>2 DEF Further, CallRecord
    <3>6. /\ t # None => Begun(t)'
          /\ call'[i].op = "decide" => t \in Turns /\ Suspended(t)'
      BY <3>1, <3>2, <3>5 DEF Registry, Further, Begun, Suspended
    <3>7. QED
      BY <3>2, <3>3, <3>4, <3>5, <3>6, RegistryKept DEF Further, Registry, Begun, Suspended
  <2>3. CASE DecidesApproval(i) /\ ~RegisterDecision(i) /\ ~CarryOut(i) /\ ~\E a \in Approvals : ReadApproval(i, a)
    <3>1. ASSUME NEW decision \in {"executing", "denied"}, ClaimApprovalDecision(i, decision)
          PROVE  RegistryRows(i)
      BY <3>1, ApprovalsStay DEF ClaimApprovalDecision, Decided, Withdrawn
    <3>2. ASSUME NEW result \in {"executed", "failed", "uncertain"}, ToolReturns(i, result)
          PROVE  RegistryRows(i)
      BY <3>2, ApprovalsStay DEF ToolReturns, Withdrawn, rows
    <3>3. ASSUME PersistApprovalReceipt(i) PROVE RegistryRows(i)
      <4>1. call[i].result # "none"
        BY <3>3, CallIsTyped DEF PersistApprovalReceipt, At, WellPlaced, Fits
      <4>2. QED
        BY <3>3, <4>1, ApprovalsStay DEF PersistApprovalReceipt, Decided
    <3>4. RegistryRows(i)
      BY <2>3, <3>1, <3>2, <3>3, HushedRows, ApprovalsStay DEF DecidesApproval
    <3>5. QED
      BY <2>3, <3>4, DeciderMoves, MoversKeepRegistry
  <2>4. QED
    BY <1>3, <2>1, <2>2, <2>3
<1>4. ASSUME NEW i \in Calls, StopsTurn(i) \/ UsesQueue(i) PROVE Registry'
  <2>1. RegistryRows(i)
    BY <1>4, HushedRows, ApprovalsStay
  <2>2. QED
    BY <1>4, <2>1, SettlerMoves, MoversKeepRegistry, RequestsKeepRegistry DEF StopsTurn, UsesQueue
<1>5. ASSUME \/ \E t \in Turns : CommandEnds(t)
             \/ \E m \in Messages : QueueMessage(m) \/ CancelQueuedMessage(m)
             \/ Crash \/ UNCHANGED vars
      PROVE  Registry'
  BY <1>1, <1>5 DEF CommandEnds, QueueMessage, CancelQueuedMessage, Crash, vars, rows, Withdrawn
<1>6. CASE Startup
  BY <1>1, <1>6 DEF Startup, RecoverMessageQueue, RecoverInterruptedApprovals, RecoverInterruptedTurns,
     RecoverTurnControls, Withdrawn
<1>7. QED
  BY <1>2, <1>3, <1>4, <1>5, <1>6 DEF Next

-----------------------------------------------------------------------------
(* Who settles a stop.                                                     *)

\* Places of an executor whose turn does not run, unless it was asked to stop.
Away == {"paused", "claim", "tool", "receipt", "ending"}
Looked == {"observe", "settle"}

\* The call executes its turn, or is about to.
Attends(c) == c.registered \/ c.pc = "acquired"
Owns(c) == c.registered \/ c.pc \in {"acquired", "observe", "settle", "ended"}

(***************************************************************************)
(* A turn that runs has an executor until it is asked to stop, so that the *)
(* stop finds somebody; an executor that leaves unasked has given up the   *)
(* session, so that nobody asks it after that.                             *)
(***************************************************************************)
OwnerInv ==
  /\ Up /\ session.state = "running" /\ control[session.turn] = "none" =>
       \E i \in Calls : Turn(i) = session.turn /\ Attends(call[i])
  /\ \A i \in Calls : call[i].pc \in Away /\ control[Turn(i)] = "none" => ~Running(Turn(i))
  /\ \A i \in Calls : call[i].pc \in Looked => control[Turn(i)] # "none"
  /\ boot = "controls" => session.state # "running"
  /\ StopHasAnOwner

LEMMA OwnersOfStops ==
  StopHasAnOwner <=> \A t \in Turns : Up /\ control[t] = "stopping" => \E i \in Calls : Turn(i) = t /\ Owns(call[i])
BY DEF StopHasAnOwner, Owns

\* A step that asks no turn to stop and lets none run; call i leaves its turn
\* only when there is nothing left to look for.
LEMMA OwnersKept ==
  ASSUME IInv, IInv', OwnerInv, NEW i \in Calls, Others(i), boot' = boot,
         \A t \in Turns : control'[t] = "none" => control[t] = "none",
         \A t \in Turns : control'[t] = "stopping" => control[t] = "stopping",
         session' = session \/ session'.state # "running",
         NEW c, NEW d, c = call[i], d = call'[i],
         Attends(c) => \/ d.turn = c.turn /\ Attends(d)
                       \/ ~(Running(c.turn) /\ control[c.turn] = "none"),
         Owns(c) /\ c.turn \in Turns => (d.turn = c.turn /\ Owns(d)) \/ control'[c.turn] # "stopping",
         d.pc \in Away /\ control'[d.turn] = "none" => session' # [state |-> "running", turn |-> d.turn],
         d.pc \in Looked => control'[d.turn] # "none"
  PROVE  OwnerInv'
<1>1. \A j \in Calls : j # i => call'[j] = call[j]
  BY DEF Others
<1>2. \A j \in Calls : call[j].pc \in Away \cup Looked => call[j].turn \in Turns
  BY CallIsTyped DEF WellPlaced, Fits, Away, Looked
<1>3. ASSUME Up', session'.state = "running", control'[session'.turn] = "none"
      PROVE  \E j \in Calls : call'[j].turn = session'.turn /\ Attends(call[j])'
  <2>1. session' = session /\ session.turn \in Turns /\ session.state = "running" /\ Running(session.turn)
    BY <1>3, HoldersAreTurns DEF IInv, TypeOK, SessionRow, Running
  <2>2. PICK j \in Calls : call[j].turn = session.turn /\ Attends(call[j])
    BY <1>3, <2>1 DEF OwnerInv, Up, Turn
  <2>3. CASE j # i
    BY <1>1, <2>1, <2>2, <2>3 DEF Attends
  <2>4. CASE j = i
    BY <1>3, <2>1, <2>2, <2>4 DEF Attends
  <2>5. QED
    BY <2>3, <2>4
<1>4. ASSUME NEW j \in Calls, call'[j].pc \in Away, control'[call'[j].turn] = "none"
      PROVE  session' # [state |-> "running", turn |-> call'[j].turn]
  BY <1>1, <1>2, <1>4 DEF OwnerInv, Running, Turn
<1>5. ASSUME NEW j \in Calls, call'[j].pc \in Looked PROVE control'[call'[j].turn] # "none"
  BY <1>1, <1>2, <1>5 DEF OwnerInv, Turn
<1>6. boot' = "controls" => session'.state # "running"
  BY DEF OwnerInv
<1>7. ASSUME NEW t \in Turns, Up', control'[t] = "stopping"
      PROVE  \E j \in Calls : call'[j].turn = t /\ Owns(call[j])'
  <2>1. PICK j \in Calls : call[j].turn = t /\ Owns(call[j])
    BY <1>7, OwnersOfStops DEF OwnerInv, Up, Turn
  <2>2. QED
    BY <1>1, <1>7, <2>1 DEF Owns
<1>8. QED
  BY <1>3, <1>4, <1>5, <1>6, <1>7 DEF OwnerInv, StopHasAnOwner, Owns, Running, Turn, Attends

\* A call that goes on, or ends.
LEMMA MoversKeepOwners ==
  ASSUME IInv, IInv', Registry, OwnerInv, NEW i \in Calls, Others(i), boot' = boot,
         \A t \in Turns : control'[t] = "none" => control[t] = "none",
         \A t \in Turns : control'[t] = "stopping" => control[t] = "stopping",
         session' = session \/ session'.state # "running",
         NEW c, NEW d, c = call[i], d = call'[i],
         Goes(c, d) \/ Ends(c, d),
         Ends(c, d) /\ c.pc \in {"ended", "settle"} => control'[c.turn] # "stopping",
         d.pc \in Away => c.pc \in Away \cup Looked \/ session' # [state |-> "running", turn |-> c.turn],
         d.pc \in Looked => c.pc \in Looked \/ control'[c.turn] # "none"
  PROVE  OwnerInv'
<1>1. Shape(c)
  BY DEF Registry
<1>2. CASE Ends(c, d)
  <2>1. ~Attends(c) /\ (Owns(c) => c.pc \in {"ended", "settle"})
    BY <1>1, <1>2 DEF Ends, Shape, Attends, Owns, Inside
  <2>2. d.pc \notin Away \cup Looked
    BY <1>2 DEF Ends, NoCall, Away, Looked
  <2>3. QED
    BY <1>2, <2>1, <2>2, OwnersKept
<1>3. CASE Goes(c, d)
  <2>1. d.turn = c.turn
    BY <1>3 DEF Goes, Further
  <2>2. /\ Attends(c) => Attends(d) \/ c.pc = "ending"
        /\ Owns(c) => Owns(d)
    <3>1. CASE d.registered = c.registered /\ <<c.pc, d.pc>> \in Paths
      <4>1. /\ c.pc \in Inside \cup {"ended", "observe", "draining"}
            /\ c.pc \in {"ended", "observe"} => d.pc \in {"observe", "settle"}
        BY <3>1 DEF Paths, Inside
      <4>2. QED
        BY <1>1, <3>1, <4>1 DEF Attends, Owns, Shape, Inside
    <3>2. CASE ~(d.registered = c.registered /\ <<c.pc, d.pc>> \in Paths)
      BY <1>3, <3>2 DEF Goes, Attends, Owns
    <3>3. QED
      BY <3>1, <3>2
  <2>3. c.pc \in Away \cup Looked => c.turn \in Turns
    BY CallIsTyped DEF WellPlaced, Fits, Away, Looked
  <2>4. c.pc \in Away /\ control[c.turn] = "none" => ~Running(c.turn)
    BY DEF OwnerInv, Turn
  <2>5. c.pc \in Looked => control[c.turn] # "none"
    BY DEF OwnerInv, Turn
  <2>6. d.pc \in Away /\ control'[d.turn] = "none" => session' # [state |-> "running", turn |-> d.turn]
    BY <2>1, <2>3, <2>4, <2>5 DEF Running
  <2>7. d.pc \in Looked => control'[d.turn] # "none"
    BY <2>1, <2>3, <2>5
  <2>8. c.pc = "ending" => ~(Running(c.turn) /\ control[c.turn] = "none")
    BY <2>4 DEF Away
  <2>9. QED
    BY <2>1, <2>2, <2>6, <2>7, <2>8, OwnersKept
<1>4. QED
  BY <1>2, <1>3

\* The steps of an executor, once it has the session.
LEMMA RunnersKeepOwners ==
  ASSUME IInv, IInv', Registry, OwnerInv, NEW i \in Calls, RunsTurn(i), ~UsesCommands(i),
         ~\E t \in Turns : AcquireTurn(i, t)
  PROVE  OwnerInv'
<1>1. PICK c, d : c = call[i] /\ d = call'[i]
  OBVIOUS
<1>2. /\ call[i] \in CallRecord /\ call \in [Calls -> CallRecord]
      /\ Others(i) /\ (Goes(c, d) \/ Ends(c, d))
  BY <1>1, RunnerMoves DEF IInv, TypeOK
<1>3. UNCHANGED <<control, boot>>
  BY DEF RunsTurn, RegisterTurn, CreateToolApproval, LoopPauses, LoopFails, CompleteTurn, FailTurn,
     EndExecution, LeaveExecution, rows, process
<1>4. ASSUME session' = session \/ session'.state # "running",
             Ends(c, d) /\ c.pc \in {"ended", "settle"} => control'[c.turn] # "stopping",
             d.pc \in Away => c.pc \in Away \cup Looked \/ session' # [state |-> "running", turn |-> c.turn],
             d.pc \in Looked => c.pc \in Looked \/ control'[c.turn] # "none"
      PROVE  OwnerInv'
  BY <1>1, <1>2, <1>3, <1>4, MoversKeepOwners
<1>5. CASE RegisterTurn(i) \/ EndExecution(i) \/ LoopFails(i)
  <2>1. UNCHANGED session /\ c.pc \in {"acquired", "ending", "loop"} /\ d.pc \in {"loop", "ended", "failing"}
    BY <1>1, <1>2, <1>5 DEF RegisterTurn, EndExecution, LoopFails, Go, At, rows, CallRecord
  <2>2. QED
    BY <1>4, <2>1 DEF Away, Looked
<1>6. CASE \E a \in Approvals, authorized \in BOOLEAN : CreateToolApproval(i, a, authorized)
  <2>1. session'.state # "running" /\ c.pc = "loop" /\ d.pc \in {"claim", "paused"}
    BY <1>1, <1>2, <1>6 DEF CreateToolApproval, Held, At, CallRecord
  <2>2. QED
    BY <1>4, <2>1 DEF Looked
<1>7. CASE LoopPauses(i)
  <2>1. UNCHANGED session /\ c.pc = "paused" /\ d.pc \in {"failing", "ending"}
    BY <1>1, <1>2, <1>7 DEF LoopPauses, Finish, At, rows, CallRecord
  <2>2. QED
    BY <1>4, <2>1 DEF Away, Looked
<1>8. CASE CompleteTurn(i)
  <2>1. session'.state # "running" /\ c.pc = "loop" /\ d.pc = "ending"
    BY <1>1, <1>2, <1>8, FreeFits DEF CompleteTurn, Finish, At, CallRecord
  <2>2. QED
    BY <1>4, <2>1 DEF Looked
<1>9. CASE FailTurn(i)
  <2>1. /\ c.pc = "failing"
        /\ \/ control[c.turn] # "none" /\ d.pc = "observe" /\ UNCHANGED session
           \/ d.pc = "ending" /\ session' = session /\ ~Running(c.turn)
           \/ d.pc = "ending" /\ session'.state # "running"
    BY <1>1, <1>2, <1>9, FreeFits DEF FailTurn, Finish, At, CallRecord, Turn, rows
  <2>2. QED
    BY <1>3, <1>4, <2>1 DEF Away, Looked, Running
<1>10. CASE LeaveExecution(i)
  <2>1. /\ UNCHANGED session /\ c.pc = "ended"
        /\ \/ control[c.turn] = "stopping" /\ d.pc = "observe"
           \/ control[c.turn] # "stopping" /\ d.pc \in {"idle", "report"}
    BY <1>1, <1>2, <1>10 DEF LeaveExecution, Go, Return, NoCall, At, CallRecord, Turn, rows
  <2>2. d.pc = "observe" => ~Ends(c, d)
    BY <2>1 DEF Ends, NoCall
  <2>3. QED
    BY <1>3, <1>4, <2>1, <2>2 DEF Away, Looked
<1>11. QED
  BY <1>5, <1>6, <1>7, <1>8, <1>9, <1>10 DEF RunsTurn

\* The steps of a decision, once it is registered, but for its receipt.
LEMMA DecidersKeepOwners ==
  ASSUME IInv, IInv', Registry, OwnerInv, NEW i \in Calls, DecidesApproval(i),
         ~RegisterDecision(i), ~CarryOut(i), ~PersistApprovalReceipt(i),
         ~\E a \in Approvals : ReadApproval(i, a)
  PROVE  OwnerInv'
<1>1. PICK c, d : c = call[i] /\ d = call'[i]
  OBVIOUS
<1>2. /\ call[i] \in CallRecord /\ call \in [Calls -> CallRecord]
      /\ Others(i) /\ (Goes(c, d) \/ Ends(c, d))
  BY <1>1, DeciderMoves DEF IInv, TypeOK
<1>3. UNCHANGED <<control, boot>>
  BY DEF DecidesApproval, ClaimApprovalDecision, ToolReturns, PersistFails, DecisionCancelled,
     DecisionStands, ContinueLoop, BlockContinuation, rows, process
<1>4. ASSUME session' = session \/ session'.state # "running", c.pc \notin {"ended", "settle"},
             d.pc \in Away => c.pc \in Away \/ session'.state # "running", d.pc \notin Looked
      PROVE  OwnerInv'
  BY <1>1, <1>2, <1>3, <1>4, MoversKeepOwners
<1>5. CASE \/ \E decision \in {"executing", "denied"} : ClaimApprovalDecision(i, decision)
           \/ \E result \in {"executed", "failed", "uncertain"} : ToolReturns(i, result)
           \/ PersistFails(i)
  <2>1. /\ UNCHANGED session /\ c.pc \in {"claim", "tool", "receipt"}
        /\ d.pc \in {"tool", "receipt", "failing", "ending"}
    BY <1>1, <1>2, <1>5 DEF ClaimApprovalDecision, ToolReturns, PersistFails, Go, Finish, At, rows, CallRecord
  <2>2. QED
    BY <1>4, <2>1 DEF Away, Looked
<1>6. CASE DecisionCancelled(i) \/ DecisionStands(i) \/ ContinueLoop(i)
  <2>1. UNCHANGED session /\ c.pc \in {"resumed", "resuming"} /\ d.pc \in {"failing", "resuming", "loop"}
    BY <1>1, <1>2, <1>6 DEF DecisionCancelled, DecisionStands, ContinueLoop, Go, At, rows, CallRecord
  <2>2. QED
    BY <1>4, <2>1 DEF Away, Looked
<1>7. CASE BlockContinuation(i)
  <2>1. session'.state # "running" /\ c.pc = "resuming" /\ d.pc = "ending"
    BY <1>1, <1>2, <1>7, FreeFits DEF BlockContinuation, Go, At, CallRecord
  <2>2. QED
    BY <1>4, <2>1 DEF Looked
<1>8. QED
  BY <1>5, <1>6, <1>7 DEF DecidesApproval

\* The steps of whoever settles a stop, and those of the queue that do not
\* take up a call.
LEMMA SettlersKeepOwners ==
  ASSUME IInv, IInv', Registry, OwnerInv, NEW i \in Calls,
         Observe(i) \/ Settle(i) \/ SteerTooLate(i) \/ DrainRefused(i) \/ ReportRefusal(i) \/ ReportTurn(i)
  PROVE  OwnerInv'
<1>1. PICK c, d : c = call[i] /\ d = call'[i]
  OBVIOUS
<1>2. /\ call[i] \in CallRecord /\ call \in [Calls -> CallRecord]
      /\ control \in [Turns -> {"none", "stopping", "needs_review", "stopped"}]
      /\ Others(i) /\ (Goes(c, d) \/ Ends(c, d))
  BY <1>1, SettlerMoves DEF IInv, TypeOK
<1>3. boot' = boot
  BY DEF Observe, Settle, SteerTooLate, DrainRefused, ReportRefusal, ReportTurn, process
<1>4. CASE Observe(i) \/ SteerTooLate(i) \/ DrainRefused(i) \/ ReportRefusal(i) \/ ReportTurn(i)
  <2>1. /\ UNCHANGED <<session, control>> /\ c.pc \in {"observe", "steer", "draining", "refused", "report"}
        /\ d.pc \in Looked => c.pc \in Looked
        /\ d.pc \notin Away
    BY <1>1, <1>2, <1>4 DEF Observe, SteerTooLate, DrainRefused, ReportRefusal, ReportTurn, Go, Return, NoCall,
       At, rows, CallRecord, Away, Looked
  <2>2. QED
    BY <1>1, <1>2, <1>3, <2>1, MoversKeepOwners
<1>5. CASE Settle(i)
  <2>1. c.pc = "settle" /\ c.turn \in Turns /\ d.pc \in {"ending", "idle", "report"}
    <3>1. c.pc = "settle" /\ c.turn \in Turns
      BY <1>1, <1>5, CallIsTyped DEF Settle, At, WellPlaced, Fits
    <3>2. PICK r : \/ call' = [call EXCEPT ![i] = [call[i] EXCEPT !.pc = "ending", !.result = r]]
                   \/ Return(i)
      BY <1>5 DEF Settle
    <3>3. CASE call' = [call EXCEPT ![i] = [call[i] EXCEPT !.pc = "ending", !.result = r]]
      BY <1>1, <1>2, <3>1, <3>3 DEF CallRecord
    <3>4. CASE Return(i)
      BY <1>1, <1>2, <3>1, <3>4 DEF Return, NoCall, CallRecord
    <3>5. QED
      BY <3>2, <3>3, <3>4
  <2>2. /\ control'[c.turn] # "stopping"
        /\ \A t \in Turns : control'[t] = "none" => control[t] = "none"
        /\ \A t \in Turns : control'[t] = "stopping" => control[t] = "stopping"
        /\ session' = session \/ session'.state # "running"
    BY <1>1, <1>2, <1>5, <2>1, FreeFits DEF Settle, SettleRows, rows, Turn
  <2>3. d.pc \notin Looked
    BY <2>1 DEF Looked
  <2>4. QED
    BY <1>1, <1>2, <1>3, <2>1, <2>2, <2>3, MoversKeepOwners DEF Looked
<1>6. QED
  BY <1>4, <1>5

\* A goroutine that takes up a call leaves nobody.
LEMMA TakersKeepOwners ==
  ASSUME IInv, IInv', Registry, OwnerInv, NEW i \in Calls,
         \/ \E a \in Approvals : ReadApproval(i, a)
         \/ \E t \in Turns : ReconcileStoppedTurn(i, t)
         \/ \E m \in Messages : QueueSteer(i, m) \/ DrainOneQueued(i, m)
         \/ CarryOut(i)
  PROVE  OwnerInv'
<1>1. PICK c, d : c = call[i] /\ d = call'[i]
  OBVIOUS
<1>2. call[i] \in CallRecord /\ call \in [Calls -> CallRecord] /\ Shape(c)
  BY <1>1 DEF IInv, TypeOK, Registry
<1>3. Others(i) /\ UNCHANGED <<session, control, boot>>
  BY <1>2 DEF ReadApproval, ReconcileStoppedTurn, QueueSteer, DrainOneQueued, CarryOut, Others, rows, process
<1>4. CASE CarryOut(i)
  <2>1. c.pc = "tool" /\ d.pc = "tool" /\ d.turn = c.turn /\ d.registered = c.registered /\ c.turn \in Turns
    BY <1>1, <1>2, <1>4, CallIsTyped DEF CarryOut, At, CallRecord, WellPlaced, Fits
  <2>2. control[c.turn] = "none" => ~Running(c.turn)
    BY <1>1, <2>1 DEF OwnerInv, Away, Turn
  <2>3. QED
    BY <1>1, <1>3, <2>1, <2>2, OwnersKept DEF Attends, Owns, Away, Looked, Running
<1>5. CASE ~CarryOut(i)
  <2>1. /\ c.pc = "idle" /\ d.pc \in {"read", "observe", "steer", "draining"}
        /\ d.pc = "observe" => control[d.turn] # "none"
    <3>1. ASSUME NEW t \in Turns, ReconcileStoppedTurn(i, t)
          PROVE  c.pc = "idle" /\ d.pc = "observe" /\ control[d.turn] # "none"
      <4>1. c.pc = "idle" /\ d.pc = "observe" /\ d.turn = t /\ control[t] = "needs_review"
        BY <1>1, <1>2, <3>1 DEF ReconcileStoppedTurn, At, CallRecord
      <4>2. QED
        BY <4>1
    <3>2. ASSUME NEW a \in Approvals, ReadApproval(i, a) PROVE c.pc = "idle" /\ d.pc = "read"
      BY <1>1, <1>2, <3>2 DEF ReadApproval, At, CallRecord
    <3>3. ASSUME NEW m \in Messages, QueueSteer(i, m) PROVE c.pc = "idle" /\ d.pc = "steer"
      BY <1>1, <1>2, <3>3 DEF QueueSteer, At, CallRecord
    <3>4. ASSUME NEW m \in Messages, DrainOneQueued(i, m) PROVE c.pc = "idle" /\ d.pc = "draining"
      BY <1>1, <1>2, <3>4 DEF DrainOneQueued, At, CallRecord
    <3>5. QED
      BY <1>5, <3>1, <3>2, <3>3, <3>4
  <2>2. ~Attends(c) /\ ~Owns(c)
    BY <1>2, <2>1 DEF Shape, Attends, Owns, Inside
  <2>3. QED
    BY <1>1, <1>3, <2>1, <2>2, OwnersKept DEF Away, Looked
<1>6. QED
  BY <1>4, <1>5

\* The turn that has just got the session is executed by the call that got
\* it for it, and nobody else has had that turn.
LEMMA AcquireKeepsOwners ==
  ASSUME IInv, IInv', Registry, OwnerInv, NEW i \in Calls, NEW t \in Turns, AcquireTurn(i, t)
  PROVE  OwnerInv'
<1>1. /\ call[i] \in CallRecord /\ call \in [Calls -> CallRecord] /\ Shape(call[i])
      /\ ~Begun(t) /\ control[t] = "none"
  BY DEF IInv, TypeOK, Registry, AcquireTurn, Begun, LeaseIsOpen, Unfinished
<1>2. /\ call[i].pc \in {"idle", "draining"} /\ Others(i)
      /\ call'[i].pc = "acquired" /\ call'[i].turn = t
      /\ session' = [state |-> "running", turn |-> t] /\ Up /\ UNCHANGED <<control, boot>>
  BY <1>1 DEF AcquireTurn, Others, CallRecord, Held, process
<1>3. ~Attends(call[i]) /\ ~Owns(call[i])
  BY <1>1, <1>2 DEF Shape, Attends, Owns, Inside
<1>4. \A j \in Calls : j # i => call'[j] = call[j] /\ call[j].turn # t
  BY <1>1, <1>2, NoneIsNoTurn DEF Others, Registry
<1>5. ASSUME NEW j \in Calls, call'[j].pc \in Away, control'[call'[j].turn] = "none"
      PROVE  session' # [state |-> "running", turn |-> call'[j].turn]
  BY <1>2, <1>4, <1>5 DEF Away
<1>6. ASSUME NEW j \in Calls, call'[j].pc \in Looked PROVE control'[call'[j].turn] # "none"
  BY <1>2, <1>4, <1>6 DEF OwnerInv, Looked, Turn
<1>7. ASSUME NEW u \in Turns, control'[u] = "stopping"
      PROVE  \E j \in Calls : call'[j].turn = u /\ Owns(call[j])'
  <2>1. PICK j \in Calls : call[j].turn = u /\ Owns(call[j])
    BY <1>2, <1>7, OwnersOfStops DEF OwnerInv, Turn
  <2>2. QED
    BY <1>3, <1>4, <2>1 DEF Owns
<1>8. QED
  BY <1>2, <1>5, <1>6, <1>7 DEF OwnerInv, StopHasAnOwner, Owns, Running, Turn, Attends, Up

\* The receipt gives the turn back to the one that executes it.
LEMMA ReceiptKeepsOwners ==
  ASSUME IInv, IInv', Registry, OwnerInv, NEW i \in Calls, PersistApprovalReceipt(i)
  PROVE  OwnerInv'
<1>1. call[i] \in CallRecord /\ call \in [Calls -> CallRecord] /\ Shape(call[i]) /\ call[i].turn \in Turns
  BY CallIsTyped DEF IInv, TypeOK, Registry, PersistApprovalReceipt, At, WellPlaced, Fits
<1>2. /\ Up /\ call[i].pc = "receipt" /\ Others(i) /\ call'[i].pc \in {"loop", "resumed"}
      /\ call'[i].turn = call[i].turn /\ call'[i].registered = call[i].registered
      /\ session' = [state |-> "running", turn |-> call[i].turn] /\ UNCHANGED <<control, boot>>
  BY <1>1 DEF PersistApprovalReceipt, At, Others, CallRecord, Held, Turn, process
<1>3. call[i].registered
  BY <1>1, <1>2 DEF Shape, Inside
<1>4. \A j \in Calls : j # i => call'[j] = call[j]
  BY <1>2 DEF Others
\* Whoever waits, acts or ends is registered, and only one is for a turn.
<1>5. ASSUME NEW j \in Calls, call'[j].pc \in Away, control'[call'[j].turn] = "none"
      PROVE  session' # [state |-> "running", turn |-> call'[j].turn]
  <2>1. j # i /\ call[j].registered
    BY <1>2, <1>4, <1>5 DEF Away, Registry, Shape, Inside
  <2>2. call[j].turn # call[i].turn
    BY <1>3, <2>1 DEF Registry
  <2>3. QED
    BY <1>2, <1>4, <2>1, <2>2
<1>6. ASSUME NEW j \in Calls, call'[j].pc \in Looked PROVE control'[call'[j].turn] # "none"
  BY <1>2, <1>4, <1>6 DEF OwnerInv, Looked, Turn
<1>7. ASSUME NEW u \in Turns, Up', control'[u] = "stopping"
      PROVE  \E j \in Calls : call'[j].turn = u /\ Owns(call[j])'
  <2>1. PICK j \in Calls : call[j].turn = u /\ Owns(call[j])
    BY <1>2, <1>7, OwnersOfStops DEF OwnerInv, Turn, Up
  <2>2. QED
    BY <1>2, <1>3, <1>4, <2>1 DEF Owns
<1>8. QED
  BY <1>2, <1>3, <1>5, <1>6, <1>7 DEF OwnerInv, StopHasAnOwner, Owns, Running, Turn, Attends, Up

\* A decision that finds nobody executing the turn takes it over; the turn
\* waits, for if it ran unasked somebody would execute it.
LEMMA RegisterKeepsOwners ==
  ASSUME IInv, IInv', Registry, OwnerInv, NEW i \in Calls, RegisterDecision(i)
  PROVE  OwnerInv'
<1>1. PICK c, d : c = call[i] /\ d = call'[i]
  OBVIOUS
<1>2. /\ call[i] \in CallRecord /\ call \in [Calls -> CallRecord] /\ Shape(c) /\ c.pc = "read"
      /\ UNCHANGED <<session, control, boot>> /\ Up
  BY <1>1 DEF IInv, TypeOK, Registry, RegisterDecision, At, rows, process
<1>3. c.op = "decide" /\ c.turn \in Turns /\ ~Attends(c) /\ ~Owns(c)
  BY <1>1, <1>2 DEF Registry, Shape, Attends, Owns, Inside
<1>4. CASE Executing(Turn(i))
  <2>1. Return(i)
    BY <1>4 DEF RegisterDecision
  <2>2. Others(i) /\ Ends(c, d)
    BY <1>1, <1>2, <2>1, ReturnerEnds
  <2>3. d.pc \notin Away \cup Looked
    BY <2>2 DEF Ends, NoCall, Away, Looked
  <2>4. QED
    BY <1>1, <1>2, <1>3, <2>2, <2>3, OwnersKept
<1>5. CASE ~Executing(Turn(i))
  <2>1. /\ Others(i) /\ d.turn = c.turn
        /\ d.pc = IF control[c.turn] = "none" THEN "claim" ELSE "ending"
    BY <1>1, <1>2, <1>5 DEF RegisterDecision, Others, CallRecord, Turn
  <2>2. ASSUME control[c.turn] = "none", Running(c.turn) PROVE FALSE
    <3>1. session.turn = c.turn /\ session.state = "running"
      BY <2>2 DEF Running
    <3>2. PICK j \in Calls : call[j].turn = c.turn /\ Attends(call[j])
      BY <1>2, <2>2, <3>1 DEF OwnerInv, Turn
    <3>3. j # i /\ ~call[j].registered
      BY <1>1, <1>3, <1>5, <3>2 DEF Executing, Turn
    <3>4. call[j].pc = "acquired"
      BY <3>2, <3>3 DEF Attends
    <3>5. QED
      BY <1>1, <1>3, <3>2, <3>3, <3>4, AcquiredIsAlone
  <2>3. d.pc \notin Looked
    BY <2>1 DEF Looked
  <2>4. QED
    BY <1>1, <1>2, <1>3, <2>1, <2>2, <2>3, OwnersKept DEF Running
<1>6. QED
  BY <1>4, <1>5

\* Whoever asks a turn to stop finds its executor, or, when it waits for the
\* owner and nobody executes it, settles the stop.
LEMMA StopKeepsOwners ==
  ASSUME IInv, IInv', Registry, OwnerInv, NEW i \in Calls, NEW t \in Turns, StopTurn(i, t)
  PROVE  OwnerInv'
<1>1. /\ call[i] \in CallRecord /\ call \in [Calls -> CallRecord] /\ Shape(call[i])
      /\ control \in [Turns -> {"none", "stopping", "needs_review", "stopped"}]
      /\ session \in SessionRow /\ None \notin Turns
  BY NoneIsNoTurn DEF IInv, TypeOK, Registry
<1>2. /\ call[i].pc \in {"idle", "steer"} /\ Others(i) /\ Up
      /\ UNCHANGED <<session, boot>> /\ control[t] = "none"
      /\ session.turn = t /\ session.state \in {"running", "awaiting_approval"}
      /\ control' = [control EXCEPT ![t] = "stopping"]
      /\ call'[i].pc \in {"idle", "observe"}
      /\ call'[i].pc = "observe" => call'[i].turn = t
      /\ Awaiting(t) /\ ~Executing(t) => call'[i].pc = "observe"
  BY <1>1 DEF StopTurn, At, Others, NoCall, process
<1>3. ~Attends(call[i]) /\ ~Owns(call[i])
  BY <1>1, <1>2 DEF Shape, Attends, Owns, Inside
<1>4. /\ \A j \in Calls : j # i => call'[j] = call[j]
      /\ \A u \in Turns : u # t => control'[u] = control[u]
      /\ control'[t] = "stopping"
  BY <1>1, <1>2 DEF Others
<1>5. \E j \in Calls : call'[j].turn = t /\ Owns(call[j])'
  <2>1. CASE Awaiting(t) /\ ~Executing(t)
    BY <1>2, <2>1 DEF Owns
  <2>2. CASE Executing(t)
    <3>1. PICK j \in Calls : call[j].registered /\ call[j].turn = t
      BY <2>2 DEF Executing, Turn
    <3>2. QED
      BY <1>3, <1>4, <3>1 DEF Owns, Attends
  <2>3. CASE session.state = "running"
    <3>1. PICK j \in Calls : call[j].turn = t /\ Attends(call[j])
      BY <1>2, <2>3 DEF OwnerInv, Turn
    <3>2. QED
      BY <1>3, <1>4, <3>1 DEF Owns, Attends
  <2>4. QED
    BY <1>1, <1>2, <2>1, <2>2, <2>3 DEF Awaiting, SessionRow
<1>6. ASSUME NEW j \in Calls, call'[j].pc \in Away, control'[call'[j].turn] = "none"
      PROVE  session' # [state |-> "running", turn |-> call'[j].turn]
  BY <1>2, <1>4, <1>6
<1>7. ASSUME NEW j \in Calls, call'[j].pc \in Looked PROVE control'[call'[j].turn] # "none"
  <2>1. CASE j = i
    BY <1>2, <1>4, <1>7, <2>1 DEF Looked
  <2>2. CASE j # i
    <3>1. call[j].turn \in Turns /\ control[call[j].turn] # "none" /\ call'[j].turn = call[j].turn
      BY <1>4, <1>7, <2>2, CallIsTyped DEF OwnerInv, Turn, WellPlaced, Fits, Looked
    <3>2. QED
      BY <1>4, <3>1
  <2>3. QED
    BY <2>1, <2>2
<1>8. ASSUME NEW u \in Turns, u # t, control'[u] = "stopping"
      PROVE  \E j \in Calls : call'[j].turn = u /\ Owns(call[j])'
  <2>1. PICK j \in Calls : call[j].turn = u /\ Owns(call[j])
    BY <1>2, <1>4, <1>8, OwnersOfStops DEF OwnerInv, Turn
  <2>2. QED
    BY <1>3, <1>4, <2>1 DEF Owns
<1>9. QED
  BY <1>2, <1>4, <1>5, <1>6, <1>7, <1>8 DEF OwnerInv, StopHasAnOwner, Owns, Running, Turn, Attends

\* A crash leaves no call, and startup no stop that is not settled or put up
\* for review, nor a turn that runs.
LEMMA RestartsKeepOwners ==
  ASSUME IInv, AttemptInv, OwnerInv, Crash \/ Startup
  PROVE  OwnerInv'
<1>1. control \in [Turns -> {"none", "stopping", "needs_review", "stopped"}] /\ session \in SessionRow
  BY DEF IInv, TypeOK
<1>2. NoCall.pc \notin Away \cup Looked
  BY DEF NoCall, Away, Looked
<1>3. CASE Crash
  BY <1>2, <1>3 DEF Crash, OwnerInv, StopHasAnOwner, Up
<1>4. CASE Startup
  <2>1. ~Up /\ call' = call /\ \A i \in Calls : call[i] = NoCall
    BY <1>4 DEF Startup, RecoverMessageQueue, RecoverInterruptedApprovals, RecoverInterruptedTurns,
       RecoverTurnControls, Up, AttemptInv, OneActor
  <2>2. ASSUME ~Up', boot' = "controls" => session'.state # "running" PROVE OwnerInv'
    BY <1>2, <2>1, <2>2 DEF OwnerInv, StopHasAnOwner, Up
  <2>3. CASE RecoverMessageQueue \/ RecoverInterruptedApprovals
    BY <2>2, <2>3 DEF RecoverMessageQueue, RecoverInterruptedApprovals, Up
  <2>4. CASE RecoverInterruptedTurns
    BY <2>2, <2>4, FreeFits DEF RecoverInterruptedTurns, Up
  <2>5. CASE RecoverTurnControls
    <3>1. session'.state # "running" /\ boot' = "up" /\ \A t \in Turns : control'[t] # "stopping"
      BY <1>1, <2>5 DEF RecoverTurnControls, OwnerInv
    <3>2. QED
      BY <1>2, <2>1, <3>1 DEF OwnerInv, StopHasAnOwner
  <2>6. QED
    BY <1>4, <2>3, <2>4, <2>5 DEF Startup
<1>5. QED
  BY <1>3, <1>4

LEMMA OwnersInductive ==
  IInv /\ IInv' /\ AttemptInv /\ Registry /\ OwnerInv /\ [Next]_vars => OwnerInv'
<1> SUFFICES ASSUME IInv, IInv', AttemptInv, Registry, OwnerInv, [Next]_vars PROVE OwnerInv'
  OBVIOUS
<1>1. ASSUME UNCHANGED <<session, control, call, boot>> PROVE OwnerInv'
  BY <1>1 DEF OwnerInv, StopHasAnOwner, Up, Turn, Attends, Owns, Running
<1>2. ASSUME NEW i \in Calls, RunsTurn(i) PROVE OwnerInv'
  BY <1>1, <1>2, RunnersKeepOwners, AcquireKeepsOwners DEF UsesCommands, StartCommand, CancelCommand, rows, process
<1>3. ASSUME NEW i \in Calls, DecidesApproval(i) PROVE OwnerInv'
  BY <1>3, DecidersKeepOwners, TakersKeepOwners, ReceiptKeepsOwners, RegisterKeepsOwners
<1>4. ASSUME NEW i \in Calls, StopsTurn(i) \/ UsesQueue(i) PROVE OwnerInv'
  BY <1>4, StopKeepsOwners, TakersKeepOwners, SettlersKeepOwners DEF StopsTurn, UsesQueue
<1>5. ASSUME \/ \E t \in Turns : CommandEnds(t)
             \/ \E m \in Messages : QueueMessage(m) \/ CancelQueuedMessage(m)
             \/ UNCHANGED vars
      PROVE  OwnerInv'
  BY <1>1, <1>5 DEF CommandEnds, QueueMessage, CancelQueuedMessage, vars, rows, process
<1>6. CASE Crash \/ Startup
  BY <1>6, RestartsKeepOwners
<1>7. QED
  BY <1>2, <1>3, <1>4, <1>5, <1>6 DEF Next

LEMMA StopsStart == Init => AttemptInv /\ HoldInv /\ Registry /\ OwnerInv
<1> SUFFICES ASSUME Init PROVE AttemptInv /\ HoldInv /\ Registry /\ OwnerInv
  OBVIOUS
<1>1. /\ \A i \in Calls : call[i] = NoCall
      /\ \A a \in Approvals : approval[a].state = "none" /\ approval[a].turn = None /\ did[a] = 0
      /\ session = Free /\ boot = "up" /\ \A t \in Turns : control[t] = "none"
  BY DEF Init
<1>2. /\ NoCall.pc = "idle" /\ NoCall.turn = None /\ NoCall.op = "none" /\ ~NoCall.registered
      /\ Shape(NoCall)
  BY GoneIsShaped DEF NoCall
<1>3. AttemptInv
  BY <1>1, <1>2 DEF AttemptInv, OneActor, OneAttempt, ClaimStands, Asks, Acts, Up
<1>4. HoldInv
  BY <1>1, <1>2, FreeFits DEF HoldInv, ClaimHoldsLease, OneHeld, Current, AskFits, ActFits, Asks, Acts
<1>5. Registry
  BY <1>1, <1>2 DEF Registry
<1>6. OwnerInv
  BY <1>1, <1>2, FreeFits DEF OwnerInv, StopHasAnOwner, Away, Looked
<1>7. QED
  BY <1>3, <1>4, <1>5, <1>6

\* A stop that was accepted is never orphaned: until it is settled a call is
\* under way that settles it, or that has still to look for it, whoever
\* executes, decides, stops or restarts in between.
THEOREM StopIsNeverOrphaned == Spec => []StopHasAnOwner
<1>1. OwnerInv => StopHasAnOwner
  BY DEF OwnerInv
<1>2. QED
  BY <1>1, StopsStart, AttemptsInductive, HoldsInductive, RegistryInductive, OwnersInductive, Invariance, PTL
  DEF Spec

-----------------------------------------------------------------------------
(* What a confirmed stop is proof of.                                      *)

Working == {"acquired", "loop", "tool", "receipt", "resumed", "resuming"}
Resumed == {"loop", "paused", "failing", "resumed", "resuming"}

\* No decision on an approval of turn t was carried out.
Undecided(t) == \A a \in Approvals : approval[a].turn = t => approval[a].state \in {"pending", "cancelled"}
Still(t) == \A i \in Calls : ~Works(i, t)

\* A decision that has brought its turn back to work, or was given consent there.
Carried(c) == c.op = "decide" /\ (c.pc \in Resumed \/ c.authorized)

\* What the rows say of a turn that was stopped.
StoppedRows ==
  \A t \in Turns : control[t] = "stopped" =>
     /\ session.turn # t
     /\ \A a \in Approvals : approval[a].turn = t =>
          approval[a].state \notin {"pending", "executing", "uncertain"}

(***************************************************************************)
(* As long as no decision on a turn was carried out, its RunTurn is the    *)
(* only call that can act for it, and only until it asks for an approval.  *)
(* So whoever looks after its commands then does so when nobody is left to *)
(* start another one.                                                      *)
(***************************************************************************)
QuietInv ==
  /\ StoppedRows
  /\ session.state = "awaiting_approval" => Suspended(session.turn)
  /\ \A i \in Calls : Carried(call[i]) => ~Undecided(Turn(i))
  /\ \A i \in Calls : call[i].pc = "loop" /\ Suspended(Turn(i)) => ~Undecided(Turn(i))
  /\ \A i \in Calls : call[i].pc \in Looked /\ Undecided(Turn(i)) => Still(Turn(i))
  /\ \A t \in Turns : control[t] \in {"needs_review", "stopped"} /\ Undecided(t) => Still(t)
  /\ \A i \in Calls : call[i].pc = "settle" /\ call[i].sure /\ Undecided(Turn(i)) => Turn(i) \notin Counted
  /\ \A t \in Turns : control[t] = "stopped" /\ Undecided(t) => t \notin Counted
  /\ ~Up => Counted = {}

\* Who can act for a turn on which no decision was carried out.
LEMMA SoleWorker ==
  ASSUME IInv, AttemptInv, HoldInv, Registry, QuietInv, NEW j \in Calls, NEW t \in Turns, Works(j, t), Undecided(t)
  PROVE  call[j].op = "run" /\ call[j].pc \in {"acquired", "loop"} /\ ~Suspended(t)
<1>1. call[j].turn = t /\ call[j].pc \in Working
  BY DEF Works, Working, Turn
<1>2. CASE Acts(call[j])
  <2>1. /\ call[j].approval \in Approvals /\ approval[call[j].approval].turn = t
        /\ approval[call[j].approval].state \in {"executing", "denied"}
    BY <1>1, <1>2 DEF AttemptInv, OneActor, ClaimStands, HoldInv, AskFits, Asks, Acts
  <2>2. QED
    BY <2>1 DEF Undecided
<1>3. CASE ~Acts(call[j])
  <2>1. call[j].pc \in {"acquired", "loop", "resumed", "resuming"}
    BY <1>1, <1>3 DEF Acts, Working
  <2>2. call[j].op \in {"run", "decide"} /\ ~Carried(call[j])
    BY <1>1, <2>1 DEF Registry, Shape, Inside, QuietInv, Turn
  <2>3. call[j].op = "run"
    BY <2>1, <2>2 DEF Carried, Resumed, Registry, Shape
  <2>4. call[j].pc \in {"acquired", "loop"}
    BY <2>1, <2>3, CallIsTyped DEF WellPlaced, Fits
  <2>5. ~Suspended(t)
    BY <1>1, <2>4 DEF Registry, QuietInv, Turn
  <2>6. QED
    BY <2>3, <2>4, <2>5
<1>4. QED
  BY <1>2, <1>3

\* Whoever is done with its work on such a turn was the last one.
LEMMA LastWorker ==
  ASSUME IInv, AttemptInv, HoldInv, Registry, QuietInv, NEW i \in Calls, NEW t \in Turns, call[i].turn = t,
         call[i].op \in {"run", "decide"}, call[i].pc \notin Working, Undecided(t)
  PROVE  Still(t)
<1> SUFFICES ASSUME NEW j \in Calls, Works(j, t) PROVE FALSE
  BY DEF Still
<1>1. call[j].op = "run" /\ ~Suspended(t) /\ call[j].turn = t /\ call[j].pc \in Working
  BY SoleWorker DEF Works, Turn, Working
<1>2. call[i].op = "run"
  BY <1>1 DEF Registry
<1>3. i = j
  BY <1>1, <1>2, NoneIsNoTurn DEF Registry
<1>4. QED
  BY <1>1, <1>3

\* What a step of call i may do to an approval.
ApprovalMoves(i, a) ==
  \/ approval'[a].turn = approval[a].turn /\ approval'[a].state = approval[a].state
  \/ /\ approval'[a].turn = approval[a].turn /\ approval[a].state = "pending"
     /\ approval'[a].state \in {"cancelled", "executing", "denied"}
  \/ /\ approval'[a].turn = approval[a].turn /\ approval[a].state = "executing"
     /\ approval'[a].state \in {"executed", "failed", "uncertain"}
  \/ /\ approval[a].turn = None /\ approval'[a].state = "pending"
     /\ call[i].pc = "loop" /\ approval'[a].turn = call[i].turn /\ call[i].turn \in Turns
     /\ session.turn = call[i].turn /\ call'[i].pc # "loop"

\* Call i takes up no work, looks after nobody else's work, and brings back no
\* turn; an exception is a turn that is new or has been decided on.
MoveIsQuiet(i) ==
  /\ call'[i].pc \in Working => \/ call[i].pc \in Working /\ call'[i].turn = call[i].turn
                                \/ ~Begun(call'[i].turn)
                                \/ ~Undecided(call[i].turn)'
  /\ call'[i].pc \in Looked => \/ call[i].pc \in Looked /\ call'[i].turn = call[i].turn
                               \/ call[i].pc \in {"failing", "ended"} /\ call'[i].turn = call[i].turn
                               \/ control[call'[i].turn] = "needs_review"
                               \/ session.state = "awaiting_approval" /\ session.turn = call'[i].turn
  /\ call'[i].pc = "settle" /\ call'[i].sure => Counted' = {}
  /\ Carried(call'[i]) => \/ Carried(call[i]) /\ call'[i].turn = call[i].turn
                          \/ ~Undecided(call[i].turn)'
  /\ call'[i].pc = "loop" => \/ /\ call[i].pc \in {"acquired", "loop", "resuming"}
                                /\ call'[i].turn = call[i].turn
                             \/ ~Undecided(call[i].turn)'

LEMMA QuietKept ==
  ASSUME IInv, IInv', AttemptInv, HoldInv, Registry, Registry', QuietInv, NEW i \in Calls, Others(i), Up, Up',
         \A a \in Approvals : ApprovalMoves(i, a),
         \A t \in Turns : control'[t] = "stopped" =>
            \/ control[t] = "stopped"
            \/ /\ t = call[i].turn /\ call[i].pc = "settle" /\ call[i].sure /\ session'.turn # t
               /\ \A a \in Approvals : approval[a].turn = t =>
                    approval'[a].state \notin {"pending", "executing", "uncertain"},
         \A t \in Turns : control'[t] = "needs_review" =>
            control[t] = "needs_review" \/ (t = call[i].turn /\ call[i].pc = "settle"),
         session'.turn \in {session.turn, None} \/ ~Begun(session'.turn),
         session'.state = "awaiting_approval" =>
            \/ session.state = "awaiting_approval" /\ session'.turn = session.turn
            \/ Suspended(session.turn)',
         \A t \in Counted' : t \in Counted \/ (call[i].pc = "loop" /\ t = call[i].turn),
         MoveIsQuiet(i)
  PROVE  QuietInv'
<1> DEFINE Shut(t) == \A a \in Approvals : approval[a].turn = t =>
                        approval[a].state \notin {"pending", "executing", "uncertain"}
<1>1. \A j \in Calls : j # i => call'[j] = call[j]
  BY DEF Others
<1>2. None \notin Turns /\ \A a \in Approvals : approval[a].turn \in Turns \cup {None}
  BY NoneIsNoTurn DEF IInv, TypeOK, ApprovalRow
<1>3. ASSUME NEW t \in Turns PROVE (Undecided(t)' => Undecided(t)) /\ (Suspended(t) => Suspended(t)')
  BY <1>2 DEF ApprovalMoves, Undecided, Suspended
<1>4. ASSUME NEW t \in Turns, Suspended(t)'
      PROVE  Suspended(t) \/ (call[i].pc = "loop" /\ t = call[i].turn /\ call'[i].pc # "loop")
  BY <1>2, <1>4 DEF ApprovalMoves, Suspended
<1>5. \A t \in Turns : control[t] # "none" => Begun(t)
  BY DEF IInv, LeaseIsOpen, Unfinished, Begun
<1>6. StoppedRows'
  <2> SUFFICES ASSUME NEW t \in Turns, control'[t] = "stopped" PROVE session'.turn # t /\ Shut(t)'
    BY DEF StoppedRows
  <2>1. CASE control[t] = "stopped"
    <3>1. session.turn # t /\ Shut(t) /\ Begun(t)
      BY <1>5, <2>1 DEF QuietInv, StoppedRows
    <3>2. session'.turn # t
      BY <1>2, <3>1
    <3>3. Shut(t)'
      BY <1>2, <3>1 DEF ApprovalMoves
    <3>4. QED
      BY <3>2, <3>3
  <2>2. CASE control[t] # "stopped"
    <3>1. Shut(t)'
      BY <1>2, <2>2 DEF ApprovalMoves
    <3>2. QED
      BY <2>2, <3>1
  <2>3. QED
    BY <2>1, <2>2
<1>7. session'.state = "awaiting_approval" => Suspended(session.turn)'
  <2>1. ASSUME session'.state = "awaiting_approval", session.state = "awaiting_approval", session'.turn = session.turn
        PROVE  Suspended(session.turn)'
    <3>1. PICK t \in Turns : t = session.turn /\ t = session'.turn
      BY <2>1, HoldersAreTurns
    <3>2. Suspended(t)
      BY <2>1, <3>1 DEF QuietInv
    <3>3. QED
      BY <1>3, <3>1, <3>2 DEF Suspended
  <2>2. QED
    BY <2>1
\* The turn of a call that is under way.
<1>8. ASSUME NEW j \in Calls, call'[j].pc \notin {"idle", "draining", "refused"} PROVE call'[j].turn \in Turns
  BY <1>8 DEF IInv, CallsFit, WellPlaced, Fits
<1>9. ASSUME NEW j \in Calls, Carried(call'[j]) PROVE ~Undecided(call[j].turn)'
  <2>1. call'[j].turn \in Turns
    BY <1>9 DEF Carried, Registry
  <2>2. PICK t \in Turns : t = call'[j].turn
    BY <2>1
  <2>3. Carried(call[j]) /\ call[j].turn = t => ~Undecided(t)
    BY DEF QuietInv, Turn
  <2>4. ~Undecided(t)'
    BY <1>1, <1>3, <1>9, <2>2, <2>3 DEF MoveIsQuiet, Undecided
  <2>5. QED
    BY <2>2, <2>4 DEF Undecided
<1>10. ASSUME NEW j \in Calls, call'[j].pc = "loop", Suspended(call[j].turn)' PROVE ~Undecided(call[j].turn)'
  <2>1. PICK t \in Turns : t = call'[j].turn
    BY <1>8, <1>10
  <2>2. Suspended(t)'
    BY <1>10, <2>1 DEF Suspended
  <2>3. CASE j # i
    <3>1. call[j].pc = "loop" /\ call[j].turn = t /\ call[j].registered
      BY <1>1, <1>10, <2>1, <2>3 DEF Registry, Shape, Inside
    <3>2. ~(call[i].pc = "loop" /\ call[i].turn = t)
      BY <2>3, <3>1 DEF Registry, Shape, Inside
    <3>3. Suspended(t)
      BY <1>4, <2>2, <3>2
    <3>4. ~Undecided(t)'
      BY <1>3, <3>1, <3>3 DEF QuietInv, Turn
    <3>5. QED
      BY <2>1, <3>4 DEF Undecided
  <2>4. CASE j = i
    <3>1. Suspended(t)
      BY <1>4, <1>10, <2>2, <2>4
    <3>2. ~Undecided(t)'
      <4>1. CASE call[i].pc = "acquired" /\ call[i].turn = t
        BY <3>1, <4>1 DEF Registry
      <4>2. CASE call[i].pc = "loop" /\ call[i].turn = t
        BY <1>3, <3>1, <4>2 DEF QuietInv, Turn
      <4>3. CASE call[i].pc = "resuming" /\ call[i].turn = t
        <5>1. Carried(call[i])
          BY <4>3, CallIsTyped DEF Carried, Resumed, WellPlaced, Fits, Registry, Shape, Inside
        <5>2. QED
          BY <1>3, <4>3, <5>1 DEF QuietInv, Turn
      <4>4. CASE ~Undecided(call[i].turn)'
        BY <2>1, <2>4, <4>4 DEF Undecided
      <4>5. QED
        BY <1>10, <2>1, <2>4, <4>1, <4>2, <4>3, <4>4 DEF MoveIsQuiet, Undecided
    <3>3. QED
      BY <2>1, <3>2 DEF Undecided
  <2>5. QED
    BY <2>3, <2>4
\* Who works was at work, or has a new turn.
<1>11. ASSUME NEW t \in Turns, Undecided(t)', Begun(t), Still(t) PROVE Still(t)'
  <2> SUFFICES ASSUME NEW j \in Calls, Works(j, t)' PROVE FALSE
    BY DEF Still
  <2>1. call'[j].turn = t /\ call'[j].pc \in Working
    BY DEF Works, Working, Turn
  <2>2. ~(call[j].turn = t /\ call[j].pc \in Working)
    BY <1>11 DEF Still, Works, Working, Turn
  <2>3. j = i
    BY <1>1, <2>1, <2>2
  <2>4. QED
    BY <1>11, <2>1, <2>2, <2>3 DEF MoveIsQuiet, Undecided
<1>12. ASSUME NEW j \in Calls, NEW t \in Turns, call'[j].turn = t, call'[j].pc \in Looked, Undecided(t)'
       PROVE  Still(t) /\ Begun(t)
  <2>1. Begun(t)
    <3>1. call[j].turn = t => Begun(t)
      BY <1>2 DEF Registry
    <3>2. session.turn = t => Begun(t)
      BY <1>2 DEF IInv, LeaseIsOpen, Unfinished, Begun
    <3>3. control[t] = "needs_review" => Begun(t)
      BY <1>5
    <3>4. QED
      BY <1>1, <1>12, <3>1, <3>2, <3>3 DEF MoveIsQuiet
  <2>2. Undecided(t)
    BY <1>3, <1>12
  <2>3. CASE call[j].pc \in Looked /\ call[j].turn = t
    BY <2>1, <2>2, <2>3 DEF QuietInv, Turn
  <2>4. CASE call[j].pc \in {"failing", "ended"} /\ call[j].turn = t
    BY <2>1, <2>2, <2>4, LastWorker DEF Registry, Shape, Inside, Working
  <2>5. CASE control[t] = "needs_review"
    BY <2>1, <2>2, <2>5 DEF QuietInv
  <2>6. CASE session.state = "awaiting_approval" /\ session.turn = t
    <3>1. Suspended(t)
      BY <2>6 DEF QuietInv
    <3>2. QED
      BY <2>1, <2>2, <3>1, SoleWorker DEF Still
  <2>7. QED
    BY <1>1, <1>12, <2>1, <2>3, <2>4, <2>5, <2>6 DEF MoveIsQuiet
<1>13. ASSUME NEW t \in Turns, control'[t] \in {"needs_review", "stopped"}, Undecided(t)'
       PROVE  Still(t) /\ Begun(t) /\ (t \notin Counted \/ control'[t] # "stopped")
  <2>1. Undecided(t)
    BY <1>3, <1>13
  <2>2. CASE control[t] \in {"needs_review", "stopped"} /\ control'[t] = control[t]
    BY <1>5, <2>1, <2>2 DEF QuietInv
  <2>3. CASE t = call[i].turn /\ call[i].pc = "settle" /\ (control'[t] = "stopped" => call[i].sure)
    BY <1>2, <2>1, <2>3 DEF QuietInv, Registry, Looked, Turn
  <2>4. QED
    BY <1>13, <2>2, <2>3
<1>14. ASSUME NEW t \in Turns, Undecided(t)', Still(t), t \notin Counted PROVE t \notin Counted'
  BY <1>14 DEF Still, Works, Turn
<1>15. ASSUME NEW j \in Calls, call'[j].pc \in Looked, Undecided(call[j].turn)'
       PROVE  Still(call[j].turn)' /\ (call'[j].pc = "settle" /\ call'[j].sure => call'[j].turn \notin Counted')
  <2>1. PICK t \in Turns : t = call'[j].turn
    BY <1>8, <1>15 DEF Looked
  <2>2. Undecided(t)'
    BY <1>15, <2>1 DEF Undecided
  <2>3. Still(t) /\ Begun(t)
    BY <1>12, <1>15, <2>1, <2>2
  <2>4. Still(t)'
    BY <1>11, <2>2, <2>3
  <2>5. ASSUME call'[j].pc = "settle", call'[j].sure PROVE t \notin Counted'
    <3>1. CASE j = i
      BY <2>5, <3>1 DEF MoveIsQuiet
    <3>2. CASE j # i
      <4>1. call[j].pc = "settle" /\ call[j].sure /\ call[j].turn = t /\ Undecided(t)
        BY <1>1, <1>3, <2>1, <2>2, <2>5, <3>2
      <4>2. t \notin Counted
        BY <4>1 DEF QuietInv, Turn
      <4>3. QED
        BY <1>14, <2>2, <2>3, <4>2
    <3>3. QED
      BY <3>1, <3>2
  <2>6. QED
    BY <2>1, <2>4, <2>5 DEF Still, Works, Turn
<1>16. \A t \in Turns : control'[t] \in {"needs_review", "stopped"} /\ Undecided(t)' => Still(t)'
  BY <1>11, <1>13
<1>17. \A t \in Turns : control'[t] = "stopped" /\ Undecided(t)' => t \notin Counted'
  BY <1>13, <1>14
<1>18. QED
  BY <1>6, <1>7, <1>9, <1>10, <1>15, <1>16, <1>17 DEF QuietInv, Turn, Looked, Still, Works, Undecided, Suspended

\* A step that leaves approvals, controls and commands alone.
LEMMA QuietCalls ==
  ASSUME IInv, IInv', AttemptInv, HoldInv, Registry, Registry', QuietInv, NEW i \in Calls, Others(i), Up,
         UNCHANGED <<approval, control, boot>>, Counted' = Counted, MoveIsQuiet(i),
         session' = session \/ session' = Free
  PROVE  QuietInv'
<1>1. \A a \in Approvals : ApprovalMoves(i, a)
  BY DEF ApprovalMoves
<1>2. QED
  BY <1>1, QuietKept, FreeFits DEF Up

\* A call that goes from one place to another.
LEMMA PathIsQuiet ==
  ASSUME NEW i \in Calls, call'[i].op = call[i].op, call'[i].turn = call[i].turn,
         call'[i].authorized = call[i].authorized,
         call'[i].pc \in Working => call[i].pc \in Working,
         call'[i].pc # "settle", call'[i].pc \in Looked => call[i].pc \in {"failing", "ended"},
         call'[i].pc \in Resumed => call[i].pc \in Resumed \/ call[i].authorized \/ call[i].op # "decide",
         call'[i].pc = "loop" => call[i].pc \in {"acquired", "resuming"}
  PROVE  MoveIsQuiet(i)
BY DEF MoveIsQuiet, Carried, Looked

LEMMA GoerIsQuiet ==
  ASSUME IInv, NEW i \in Calls, NEW p, Go(i, p) \/ \E r : Finish(i, p, r),
         p \in Working => call[i].pc \in Working,
         p # "settle", p \in Looked => call[i].pc \in {"failing", "ended"},
         p \in Resumed => call[i].pc \in Resumed \/ call[i].authorized \/ call[i].op # "decide",
         p = "loop" => call[i].pc \in {"acquired", "resuming"}
  PROVE  Others(i) /\ MoveIsQuiet(i)
<1>1. call[i] \in CallRecord /\ call \in [Calls -> CallRecord]
  BY DEF IInv, TypeOK
<1>2. /\ Others(i) /\ call'[i].pc = p /\ call'[i].op = call[i].op
      /\ call'[i].turn = call[i].turn /\ call'[i].authorized = call[i].authorized
  BY <1>1 DEF Go, Finish, CallRecord, Others
<1>3. QED
  BY <1>2, PathIsQuiet

LEMMA ReturnerIsQuiet ==
  ASSUME IInv, NEW i \in Calls, Return(i) \/ call' = [call EXCEPT ![i] = NoCall]
  PROVE  Others(i) /\ MoveIsQuiet(i)
<1>1. call[i] \in CallRecord /\ call \in [Calls -> CallRecord]
  BY DEF IInv, TypeOK
<1>2. Others(i) /\ (call'[i] = NoCall \/ (call'[i].op = "run" /\ call'[i].pc = "report"))
  BY <1>1 DEF Return, CallRecord, Others
<1>3. QED
  BY <1>2 DEF MoveIsQuiet, Carried, Looked, Working, Resumed, NoCall

LEMMA RunnersKeepQuiet ==
  ASSUME IInv, IInv', AttemptInv, HoldInv, Registry, Registry', QuietInv, NEW i \in Calls,
         \/ RegisterTurn(i) \/ LoopPauses(i) \/ LoopFails(i) \/ CompleteTurn(i) \/ FailTurn(i)
         \/ EndExecution(i) \/ LeaveExecution(i)
  PROVE  QuietInv'
<1>1. call[i] \in CallRecord /\ call \in [Calls -> CallRecord]
  BY DEF IInv, TypeOK
<1>2. /\ Up /\ UNCHANGED <<approval, control, boot, Counted>> /\ (session' = session \/ session' = Free)
  BY DEF RegisterTurn, LoopPauses, LoopFails, CompleteTurn, FailTurn, EndExecution, LeaveExecution,
     At, rows, world, commands, Counted, process
<1>3. Others(i) /\ MoveIsQuiet(i)
  <2>1. CASE RegisterTurn(i) \/ EndExecution(i)
    <3>1. /\ Others(i) /\ call'[i].op = call[i].op /\ call'[i].turn = call[i].turn
          /\ call'[i].authorized = call[i].authorized
          /\ \/ call[i].pc = "acquired" /\ call'[i].pc = "loop"
             \/ call[i].pc = "ending" /\ call'[i].pc = "ended"
      BY <1>1, <2>1 DEF RegisterTurn, EndExecution, At, Others, CallRecord
    <3>2. call[i].pc = "acquired" => call[i].op = "run"
      BY DEF Registry, Shape
    <3>3. QED
      BY <3>1, <3>2, PathIsQuiet DEF Working, Looked, Resumed
  <2>2. CASE LoopPauses(i) \/ LoopFails(i) \/ CompleteTurn(i)
    <3>1. /\ call[i].pc \in Resumed
          /\ \E p \in {"failing", "ending"} : Go(i, p) \/ \E r : Finish(i, p, r)
      BY <2>2 DEF LoopPauses, LoopFails, CompleteTurn, At, Resumed
    <3>2. QED
      BY <3>1, GoerIsQuiet DEF Working, Looked
  <2>3. CASE FailTurn(i)
    <3>1. call[i].pc = "failing" /\ \E p \in {"observe", "ending"} : \E r : Finish(i, p, r)
      BY <2>3 DEF FailTurn, At
    <3>2. QED
      BY <3>1, GoerIsQuiet DEF Working, Looked, Resumed
  <2>4. CASE LeaveExecution(i)
    <3>1. call[i].pc = "ended" /\ (Go(i, "observe") \/ Return(i))
      BY <2>4 DEF LeaveExecution, At
    <3>2. QED
      BY <3>1, GoerIsQuiet, ReturnerIsQuiet DEF Working, Looked, Resumed
  <2>5. QED
    BY <2>1, <2>2, <2>3, <2>4
<1>4. QED
  BY <1>2, <1>3, QuietCalls

LEMMA DecidersKeepQuiet ==
  ASSUME IInv, IInv', AttemptInv, HoldInv, Registry, Registry', QuietInv, NEW i \in Calls, DecidesApproval(i),
         ~PersistApprovalReceipt(i), ~\E decision \in {"executing", "denied"} : ClaimApprovalDecision(i, decision)
  PROVE  QuietInv'
<1>1. call[i] \in CallRecord /\ call \in [Calls -> CallRecord] /\ Shape(call[i])
  BY DEF IInv, TypeOK, Registry
<1>2. /\ Up /\ UNCHANGED <<approval, control, boot, Counted>> /\ (session' = session \/ session' = Free)
  BY DEF DecidesApproval, ReadApproval, RegisterDecision, CarryOut, ToolReturns, PersistFails, DecisionCancelled,
     DecisionStands, ContinueLoop, BlockContinuation, At, rows, world, commands, Counted, process
<1>3. Others(i) /\ MoveIsQuiet(i)
  <2>1. ASSUME NEW a \in Approvals, ReadApproval(i, a) PROVE Others(i) /\ MoveIsQuiet(i)
    <3>1. call[i].pc = "idle" /\ Others(i) /\ call'[i].pc = "read" /\ call'[i].authorized = call[i].authorized
      BY <1>1, <2>1 DEF ReadApproval, At, Others, CallRecord
    <3>2. ~call'[i].authorized
      BY <1>1, <3>1 DEF Shape, NoCall
    <3>3. QED
      BY <3>1, <3>2 DEF MoveIsQuiet, Carried, Looked, Working, Resumed
  <2>2. CASE RegisterDecision(i)
    <3>1. CASE Return(i)
      BY <3>1, ReturnerIsQuiet
    <3>2. CASE ~Return(i)
      <4>1. PICK p \in {"claim", "ending"} : call' = [call EXCEPT ![i].registered = TRUE, ![i].pc = p]
        BY <2>2, <3>2 DEF RegisterDecision
      <4>2. /\ Others(i) /\ call'[i].pc = p /\ call'[i].op = call[i].op
            /\ call'[i].turn = call[i].turn /\ call'[i].authorized = call[i].authorized
        BY <1>1, <4>1 DEF Others, CallRecord
      <4>3. QED
        BY <4>2, PathIsQuiet DEF Working, Looked, Resumed
    <3>3. QED
      BY <3>1, <3>2
  <2>3. CASE CarryOut(i)
    <3>1. /\ Others(i) /\ call[i].pc = "tool" /\ call'[i].pc = "tool" /\ call'[i].op = call[i].op
          /\ call'[i].turn = call[i].turn /\ call'[i].authorized = call[i].authorized
      BY <1>1, <2>3 DEF CarryOut, At, Others, CallRecord
    <3>2. QED
      BY <3>1, PathIsQuiet DEF Working, Looked, Resumed
  <2>4. CASE \E result \in {"executed", "failed", "uncertain"} : ToolReturns(i, result)
    <3>1. call[i].pc = "tool" /\ \E r : Finish(i, "receipt", r)
      BY <2>4 DEF ToolReturns, At
    <3>2. QED
      BY <3>1, GoerIsQuiet DEF Working, Looked, Resumed
  <2>5. CASE PersistFails(i)
    <3>1. \/ call[i].authorized /\ \E r : Finish(i, "failing", r)
          \/ \E r : Finish(i, "ending", r)
      BY <2>5 DEF PersistFails
    <3>2. QED
      BY <3>1, GoerIsQuiet DEF Working, Looked, Resumed
  <2>6. CASE DecisionCancelled(i) \/ DecisionStands(i) \/ ContinueLoop(i) \/ BlockContinuation(i)
    <3>1. \/ call[i].pc = "resumed" /\ (Go(i, "failing") \/ Go(i, "resuming"))
          \/ call[i].pc = "resuming" /\ (Go(i, "loop") \/ Go(i, "ending"))
      BY <2>6 DEF DecisionCancelled, DecisionStands, ContinueLoop, BlockContinuation, At
    <3>2. QED
      BY <3>1, GoerIsQuiet DEF Working, Looked, Resumed
  <2>7. QED
    BY <2>1, <2>2, <2>3, <2>4, <2>5, <2>6 DEF DecidesApproval
<1>4. QED
  BY <1>2, <1>3, QuietCalls

LEMMA QueuersKeepQuiet ==
  ASSUME IInv, IInv', AttemptInv, HoldInv, Registry, Registry', QuietInv, NEW i \in Calls,
         UsesQueue(i) \/ \E t \in Turns : ReconcileStoppedTurn(i, t)
  PROVE  QuietInv'
<1>1. call[i] \in CallRecord /\ call \in [Calls -> CallRecord] /\ Shape(call[i])
  BY DEF IInv, TypeOK, Registry
<1>2. /\ Up /\ UNCHANGED <<approval, control, boot, Counted>> /\ session' = session
  BY DEF UsesQueue, QueueSteer, DrainOneQueued, SteerTooLate, DrainRefused, ReportRefusal, ReportTurn,
     ReconcileStoppedTurn, At, rows, world, commands, Counted, process
<1>3. ASSUME NEW m \in Messages, QueueSteer(i, m) \/ DrainOneQueued(i, m) PROVE Others(i) /\ MoveIsQuiet(i)
  <2>1. Others(i) /\ call'[i].pc \in {"steer", "draining"} /\ call'[i].op # "decide"
    BY <1>1, <1>3 DEF QueueSteer, DrainOneQueued, Others, CallRecord
  <2>2. QED
    BY <2>1 DEF MoveIsQuiet, Carried, Looked, Working, Resumed
<1>4. ASSUME NEW t \in Turns, ReconcileStoppedTurn(i, t) PROVE Others(i) /\ MoveIsQuiet(i)
  <2>1. /\ Others(i) /\ call'[i].pc = "observe" /\ call'[i].op = "reconcile" /\ call'[i].turn = t
        /\ control[t] = "needs_review"
    BY <1>1, <1>4 DEF ReconcileStoppedTurn, Others, CallRecord
  <2>2. QED
    BY <2>1 DEF MoveIsQuiet, Carried, Looked, Working, Resumed
<1>5. CASE SteerTooLate(i) \/ ReportRefusal(i) \/ ReportTurn(i)
  <2>1. Others(i) /\ MoveIsQuiet(i)
    BY <1>5, ReturnerIsQuiet DEF SteerTooLate, ReportRefusal, ReportTurn
  <2>2. QED
    BY <1>2, <2>1, QuietCalls
<1>6. CASE DrainRefused(i)
  <2>1. Others(i) /\ MoveIsQuiet(i)
    BY <1>6, GoerIsQuiet DEF DrainRefused, Working, Looked, Resumed
  <2>2. QED
    BY <1>2, <2>1, QuietCalls
<1>7. QED
  BY <1>2, <1>3, <1>4, <1>5, <1>6, QuietCalls DEF UsesQueue

\* The turn that has just got the session is a new one.
LEMMA AcquireKeepsQuiet ==
  ASSUME IInv, IInv', AttemptInv, HoldInv, Registry, Registry', QuietInv, NEW i \in Calls, NEW t \in Turns,
         AcquireTurn(i, t)
  PROVE  QuietInv'
<1>1. call[i] \in CallRecord /\ call \in [Calls -> CallRecord] /\ Shape(call[i]) /\ ~Begun(t)
  BY DEF IInv, TypeOK, Registry, AcquireTurn, Begun
<1>2. /\ Others(i) /\ call'[i].op = "run" /\ call'[i].pc = "acquired" /\ call'[i].turn = t
      /\ session' = [state |-> "running", turn |-> t]
      /\ Up /\ UNCHANGED <<approval, control, Counted, boot>>
  BY <1>1 DEF AcquireTurn, Others, CallRecord, Held, world, commands, Counted, process
<1>3. MoveIsQuiet(i)
  BY <1>1, <1>2 DEF MoveIsQuiet, Carried, Looked
<1>4. \A a \in Approvals : ApprovalMoves(i, a)
  BY <1>2 DEF ApprovalMoves
<1>5. QED
  BY <1>1, <1>2, <1>3, <1>4, QuietKept DEF Up

\* A command is started by a turn at work, and cancelled by one.
LEMMA StartKeepsQuiet ==
  ASSUME IInv, IInv', AttemptInv, HoldInv, Registry, Registry', QuietInv, NEW i \in Calls, UsesCommands(i)
  PROVE  QuietInv'
<1>1. /\ Up /\ call[i].pc = "loop" /\ \A t \in Counted' : t \in Counted \cup {call[i].turn}
      /\ UNCHANGED <<session, approval, control, boot, call>>
  <2>1. CASE StartCommand(i)
    BY <2>1 DEF StartCommand, At, Turn, rows, process, Counted
  <2>2. ASSUME NEW u \in Turns, CancelCommand(i, u)
        PROVE  /\ Up /\ call[i].pc = "loop" /\ \A t \in Counted' : t \in Counted \cup {call[i].turn}
               /\ UNCHANGED <<session, approval, control, boot, call>>
    BY <2>2 DEF CancelCommand, At, rows, process, Counted
  <2>3. QED
    BY <2>1, <2>2 DEF UsesCommands
<1>2. MoveIsQuiet(i) /\ Others(i)
  BY <1>1 DEF MoveIsQuiet, Others
<1>3. \A a \in Approvals : ApprovalMoves(i, a)
  BY <1>1 DEF ApprovalMoves
<1>4. QED
  BY <1>1, <1>2, <1>3, QuietKept DEF Up

\* A turn that asks for an approval waits, or acts on the consent it has.
LEMMA CreateKeepsQuiet ==
  ASSUME IInv, IInv', AttemptInv, HoldInv, Registry, Registry', QuietInv, NEW i \in Calls,
         NEW a \in Approvals, NEW authorized \in BOOLEAN, CreateToolApproval(i, a, authorized)
  PROVE  QuietInv'
<1>1. /\ call[i] \in CallRecord /\ call \in [Calls -> CallRecord] /\ approval \in [Approvals -> ApprovalRow]
      /\ call[i].pc = "loop" /\ call[i].turn \in Turns
  BY CallIsTyped DEF IInv, TypeOK, CreateToolApproval, At, WellPlaced, Fits
<1>2. /\ Others(i) /\ call'[i].op = call[i].op /\ call'[i].turn = call[i].turn
      /\ call'[i].pc \in {"claim", "paused"}
      /\ session.turn = call[i].turn /\ session.state = "running"
      /\ session' = [state |-> "awaiting_approval", turn |-> call[i].turn]
      /\ approval[a].state = "none"
      /\ approval' = [approval EXCEPT ![a] = [state |-> "pending", turn |-> call[i].turn]]
      /\ Up /\ UNCHANGED <<control, Counted, boot>>
  BY <1>1 DEF CreateToolApproval, At, Others, CallRecord, Held, Running, Turn, world, commands, Counted, process
<1>3. approval[a].turn = None
  BY <1>2 DEF Registry
<1>4. \A b \in Approvals : ApprovalMoves(i, b)
  BY <1>1, <1>2, <1>3 DEF ApprovalMoves
<1>5. Suspended(session.turn)'
  BY <1>1, <1>2 DEF Suspended
<1>6. MoveIsQuiet(i)
  BY <1>1, <1>2 DEF MoveIsQuiet, Carried, Looked, Working, Resumed
<1>7. QED
  BY <1>2, <1>4, <1>5, <1>6, QuietKept DEF Up

\* A decision that is claimed has been carried out, for this proof.
LEMMA ClaimKeepsQuiet ==
  ASSUME IInv, IInv', AttemptInv, HoldInv, Registry, Registry', QuietInv, NEW i \in Calls,
         NEW decision \in {"executing", "denied"}, ClaimApprovalDecision(i, decision)
  PROVE  QuietInv'
<1>1. /\ call[i] \in CallRecord /\ call \in [Calls -> CallRecord] /\ approval \in [Approvals -> ApprovalRow]
      /\ call[i].pc = "claim" /\ Asks(call[i]) /\ Up /\ UNCHANGED <<session, control, Counted, boot>>
  BY DEF IInv, TypeOK, ClaimApprovalDecision, At, Asks, world, commands, Counted, process
<1>2. PICK x \in Approvals : x = call[i].approval
  BY <1>1 DEF AttemptInv, OneActor
<1>3. approval[x].turn = call[i].turn
  BY <1>1, <1>2 DEF HoldInv, AskFits
<1>4. CASE approval[x].state = "pending" /\ control[Turn(i)] = "none"
  <2>1. /\ approval' = [approval EXCEPT ![x].state = decision]
        /\ \E p \in {"tool", "receipt"} : \E r : Finish(i, p, r)
    BY <1>2, <1>4 DEF ClaimApprovalDecision, Decided, Asked
  <2>2. /\ Others(i) /\ call'[i].op = call[i].op /\ call'[i].turn = call[i].turn
        /\ call'[i].pc \in {"tool", "receipt"} /\ call'[i].authorized = call[i].authorized
    BY <1>1, <2>1 DEF Finish, Others, CallRecord
  <2>3. \A b \in Approvals : ApprovalMoves(i, b)
    BY <1>1, <1>4, <2>1 DEF ApprovalMoves, ApprovalRow
  <2>4. approval'[x].turn = call'[i].turn /\ approval'[x].state = decision
    BY <1>1, <1>3, <2>1, <2>2 DEF ApprovalRow
  <2>5. ~Undecided(call[i].turn)'
    BY <2>4 DEF Undecided
  <2>6. MoveIsQuiet(i)
    BY <2>2, <2>5 DEF MoveIsQuiet, Looked
  <2>7. QED
    BY <1>1, <2>2, <2>3, <2>6, QuietKept DEF Up
<1>5. CASE ~(approval[x].state = "pending" /\ control[Turn(i)] = "none")
  <2>1. /\ approval' = approval
        /\ (call[i].authorized /\ Go(i, "failing")) \/ Go(i, "ending")
    BY <1>2, <1>5 DEF ClaimApprovalDecision, Asked
  <2>2. Others(i) /\ MoveIsQuiet(i)
    BY <2>1, GoerIsQuiet DEF Working, Looked, Resumed
  <2>3. QED
    BY <1>1, <2>1, <2>2, QuietCalls
<1>6. QED
  BY <1>4, <1>5

\* The receipt brings the turn back: a decision was carried out.
LEMMA ReceiptKeepsQuiet ==
  ASSUME IInv, IInv', AttemptInv, HoldInv, Registry, Registry', QuietInv, NEW i \in Calls,
         PersistApprovalReceipt(i)
  PROVE  QuietInv'
<1>1. /\ call[i] \in CallRecord /\ call \in [Calls -> CallRecord] /\ approval \in [Approvals -> ApprovalRow]
      /\ call[i].pc = "receipt" /\ Asks(call[i]) /\ Up /\ UNCHANGED <<control, Counted, boot>>
      /\ call[i].result \in {"executed", "failed", "uncertain", "denied"}
  BY CallIsTyped DEF IInv, TypeOK, PersistApprovalReceipt, At, Asks, world, commands, Counted, process, WellPlaced, Fits
<1>2. PICK x \in Approvals : x = call[i].approval
  BY <1>1 DEF AttemptInv, OneActor
<1>3. approval[x].turn = call[i].turn
  BY <1>1, <1>2 DEF HoldInv, AskFits
<1>4. /\ approval[x].state = IF call[i].result = "denied" THEN "denied" ELSE "executing"
      /\ approval' = [approval EXCEPT ![x].state = call[i].result]
      /\ session.turn = call[i].turn /\ session' = [state |-> "running", turn |-> call[i].turn]
  BY <1>2 DEF PersistApprovalReceipt, Asked, Decided, Awaiting, Held, Turn
<1>5. /\ Others(i) /\ call'[i].turn = call[i].turn /\ call'[i].pc \in {"loop", "resumed"}
  BY <1>1 DEF PersistApprovalReceipt, Others, CallRecord
<1>6. \A b \in Approvals : ApprovalMoves(i, b)
  BY <1>1, <1>4 DEF ApprovalMoves, ApprovalRow
<1>7. approval'[x].turn = call'[i].turn /\ approval'[x].state = call[i].result
  BY <1>1, <1>3, <1>4, <1>5 DEF ApprovalRow
<1>8. ~Undecided(call[i].turn)'
  BY <1>1, <1>7 DEF Undecided
<1>9. MoveIsQuiet(i)
  BY <1>5, <1>8 DEF MoveIsQuiet, Looked
<1>10. QED
  BY <1>1, <1>4, <1>5, <1>6, <1>9, QuietKept DEF Up

\* A stop takes up no work; whoever settles it has looked after the commands
\* when nobody was left to start one.
LEMMA StoppersKeepQuiet ==
  ASSUME IInv, IInv', AttemptInv, HoldInv, Registry, Registry', QuietInv, NEW i \in Calls,
         (\E t \in Turns : StopTurn(i, t)) \/ Observe(i) \/ Settle(i)
  PROVE  QuietInv'
<1>1. /\ call[i] \in CallRecord /\ call \in [Calls -> CallRecord] /\ approval \in [Approvals -> ApprovalRow]
      /\ control \in [Turns -> {"none", "stopping", "needs_review", "stopped"}]
  BY DEF IInv, TypeOK
<1>2. ASSUME NEW t \in Turns, StopTurn(i, t) PROVE QuietInv'
  <2>1. /\ Others(i) /\ call'[i].op \in {"none", "stop"} /\ call'[i].pc \in {"idle", "observe"}
        /\ call'[i].pc = "observe" => session = [state |-> "awaiting_approval", turn |-> call'[i].turn]
        /\ control' = [control EXCEPT ![t] = "stopping"] /\ control[t] = "none"
        /\ Up /\ UNCHANGED <<session, approval, boot, Counted>>
    BY <1>1, <1>2 DEF StopTurn, At, Others, NoCall, Awaiting, world, commands, Counted, process
  <2>2. MoveIsQuiet(i)
    BY <2>1 DEF MoveIsQuiet, Carried, Working, Looked
  <2>3. \A a \in Approvals : ApprovalMoves(i, a)
    BY <2>1 DEF ApprovalMoves
  <2>4. QED
    BY <1>1, <2>1, <2>2, <2>3, QuietKept DEF Up
<1>3. CASE Observe(i)
  <2>1. PICK sure \in BOOLEAN :
          /\ IF sure THEN EndCommands(Owned(Turn(i))) ELSE UNCHANGED <<live, loose>>
          /\ call' = [call EXCEPT ![i].pc = "settle", ![i].sure = sure]
    BY <1>3 DEF Observe
  <2>2. Counted' \subseteq Counted /\ (sure => Counted' = {})
    BY <2>1 DEF EndCommands, Owned, Counted
  <2>3. /\ Others(i) /\ call[i].pc = "observe" /\ call'[i].pc = "settle" /\ call'[i].op = call[i].op
        /\ call'[i].turn = call[i].turn /\ call'[i].authorized = call[i].authorized
        /\ call'[i].sure => Counted' = {}
        /\ \A t \in Counted' : t \in Counted
        /\ Up /\ UNCHANGED <<session, approval, control, boot>>
    BY <1>1, <1>3, <2>1, <2>2 DEF Observe, At, Others, CallRecord, rows, process
  <2>4. MoveIsQuiet(i)
    BY <2>3 DEF MoveIsQuiet, Carried, Working, Looked, Resumed
  <2>5. \A a \in Approvals : ApprovalMoves(i, a)
    BY <2>3 DEF ApprovalMoves
  <2>6. QED
    BY <2>1, <2>3, <2>4, <2>5, QuietKept DEF Up
<1>4. CASE Settle(i)
  <2>1. call[i].pc = "settle" /\ Up /\ UNCHANGED <<boot, Counted>>
    BY <1>4 DEF Settle, At, world, commands, Counted, process
  <2>2. Others(i) /\ MoveIsQuiet(i)
    <3>1. CASE call[i].registered
      <4>1. PICK r : call' = [call EXCEPT ![i] = [call[i] EXCEPT !.pc = "ending", !.result = r]]
        BY <1>4, <3>1 DEF Settle
      <4>2. /\ Others(i) /\ call'[i].pc = "ending" /\ call'[i].op = call[i].op
            /\ call'[i].turn = call[i].turn /\ call'[i].authorized = call[i].authorized
        BY <1>1, <4>1 DEF Others, CallRecord
      <4>3. QED
        BY <4>2, PathIsQuiet DEF Working, Looked, Resumed
    <3>2. CASE ~call[i].registered
      BY <1>4, <3>2, ReturnerIsQuiet DEF Settle
    <3>3. QED
      BY <3>1, <3>2
  <2>3. CASE UNCHANGED rows
    BY <2>1, <2>2, <2>3, QuietCalls DEF rows
  <2>4. CASE ~UNCHANGED rows
    <3>1. PICK t \in Turns : t = call[i].turn
      BY <2>1, CallIsTyped DEF WellPlaced, Fits
    <3>2. SettleRows(t, call[i].sure /\ ~InDoubt(t))
      BY <1>4, <2>4, <3>1 DEF Settle, Turn
    <3>3. PICK stopped \in BOOLEAN : /\ stopped = (call[i].sure /\ ~InDoubt(t))
                                     /\ SettleRows(t, stopped)
      BY <3>2
    <3>4. /\ control' = [control EXCEPT ![t] = IF stopped THEN "stopped" ELSE "needs_review"]
          /\ approval' = CancelPending({t})
          /\ session' = IF session.turn # t THEN session
                        ELSE IF stopped THEN Free ELSE [state |-> "control_blocked", turn |-> t]
      BY <3>3 DEF SettleRows
    <3>5. ASSUME NEW a \in Approvals
          PROVE  /\ ApprovalMoves(i, a)
                 /\ approval[a].turn = t => approval'[a].state # "pending"
                 /\ approval'[a].state \in {"executing", "uncertain"} => approval'[a].state = approval[a].state
      BY <1>1, <3>4 DEF ApprovalMoves, CancelPending, ApprovalRow
    <3>6. stopped => /\ call[i].sure /\ session'.turn # t
                     /\ \A a \in Approvals : approval[a].turn = t =>
                          approval'[a].state \notin {"pending", "executing", "uncertain"}
      BY <3>1, <3>3, <3>4, <3>5, FreeFits, NoneIsNoTurn DEF InDoubt
    <3>7. /\ session'.turn \in {session.turn, None}
          /\ session'.state = "awaiting_approval" => session' = session
      BY <3>4, FreeFits
    <3>8. \A u \in Turns : control'[u] = IF u = t THEN IF stopped THEN "stopped" ELSE "needs_review" ELSE control[u]
      BY <1>1, <3>4
    <3>9. QED
      BY <2>1, <2>2, <3>1, <3>5, <3>6, <3>7, <3>8, QuietKept DEF Up
  <2>5. QED
    BY <2>3, <2>4
<1>5. QED
  BY <1>2, <1>3, <1>4

\* Steps of nobody's call leave the rows, or only end commands.
LEMMA BystandersKeepQuiet ==
  ASSUME IInv, IInv', AttemptInv, HoldInv, Registry, Registry', QuietInv,
         UNCHANGED <<session, approval, control, call, boot>>, Counted' \subseteq Counted
  PROVE  QuietInv'
BY DEF QuietInv, StoppedRows, Suspended, Carried, Undecided, Still, Works, Turn, Up

\* After a crash nobody works and no command runs.
LEMMA RestartsKeepQuiet ==
  ASSUME IInv, IInv', AttemptInv, HoldInv, QuietInv, Crash \/ Startup
  PROVE  QuietInv'
<1>1. /\ approval \in [Approvals -> ApprovalRow] /\ None \notin Turns
      /\ control \in [Turns -> {"none", "stopping", "needs_review", "stopped"}]
      /\ \A t \in Turns : control[t] # "none" => Begun(t)
  BY NoneIsNoTurn DEF IInv, TypeOK, LeaseIsOpen, Unfinished, Begun
<1>2. NoCall.pc = "idle" /\ NoCall.op = "none"
  BY DEF NoCall
<1>3. \A i \in Calls : call'[i] = NoCall
  BY DEF Crash, Startup, RecoverMessageQueue, RecoverInterruptedApprovals, RecoverInterruptedTurns,
     RecoverTurnControls, AttemptInv, OneActor, Up
<1>4. Counted' = {}
  <2>1. CASE Crash
    BY <2>1 DEF Crash, Counted
  <2>2. CASE Startup
    <3>1. Counted = {} /\ UNCHANGED <<live, loose>>
      BY <2>2 DEF Startup, RecoverMessageQueue, RecoverInterruptedApprovals, RecoverInterruptedTurns,
         RecoverTurnControls, QuietInv, Up, world, commands
    <3>2. QED
      BY <3>1 DEF Counted
  <2>3. QED
    BY <2>1, <2>2
<1>5. ASSUME StoppedRows', session'.state = "awaiting_approval" => Suspended(session.turn)' PROVE QuietInv'
  BY <1>2, <1>3, <1>4, <1>5 DEF QuietInv, Carried, Looked, Still, Works, Turn
<1>6. CASE Crash \/ RecoverMessageQueue
  <2>1. UNCHANGED <<session, approval, control>>
    BY <1>6 DEF Crash, RecoverMessageQueue, rows
  <2>2. QED
    BY <1>5, <2>1 DEF QuietInv, StoppedRows, Suspended
<1>7. CASE RecoverInterruptedApprovals
  <2>1. ASSUME NEW t \in Turns, control'[t] = "stopped", NEW a \in Approvals, approval'[a].turn = t
        PROVE  approval'[a].state \notin {"pending", "executing", "uncertain"}
    <3>1. PICK verdict \in [Interrupted -> {"executed", "pending", "uncertain"}] :
            approval' = [b \in Approvals |-> IF b \in Interrupted
                           THEN [approval[b] EXCEPT !.state = verdict[b]] ELSE approval[b]]
      BY <1>7 DEF RecoverInterruptedApprovals
    <3>2. control[t] = "stopped" /\ approval[a].turn = t
      BY <1>1, <1>7, <2>1, <3>1 DEF RecoverInterruptedApprovals, ApprovalRow
    <3>3. a \notin Interrupted
      BY <3>2 DEF QuietInv, StoppedRows, Interrupted
    <3>4. QED
      BY <2>1, <3>1, <3>2, <3>3 DEF QuietInv, StoppedRows
  <2>2. session' = Free \/ (session' = session /\ approval' = [a \in Approvals |-> approval[a]])
    BY <1>7 DEF RecoverInterruptedApprovals
  <2>3. session'.state = "awaiting_approval" => Suspended(session.turn)'
    BY <1>1, <2>2, FreeFits DEF QuietInv, Suspended
  <2>4. \A t \in Turns : control'[t] = "stopped" => session'.turn # t
    BY <1>1, <1>7, <2>2, FreeFits DEF RecoverInterruptedApprovals, QuietInv, StoppedRows
  <2>5. QED
    BY <1>5, <2>1, <2>3, <2>4 DEF StoppedRows
<1>8. CASE RecoverInterruptedTurns
  <2>1. UNCHANGED <<approval, control>> /\ (session' = session \/ session' = Free)
    BY <1>8 DEF RecoverInterruptedTurns
  <2>2. QED
    BY <1>1, <1>5, <2>1, FreeFits DEF QuietInv, StoppedRows, Suspended
<1>9. CASE RecoverTurnControls
  <2> DEFINE unsettled == {t \in Turns : control'[t] = "needs_review"}
             latest == CHOOSE t \in unsettled : \A u \in unsettled : u <= t
  <2>1. /\ session' = IF unsettled = {} THEN session ELSE [state |-> "control_blocked", turn |-> latest]
        /\ \A t \in Turns : control'[t] = IF control[t] = "stopping" THEN "needs_review" ELSE control[t]
        /\ Withdrawn
    BY <1>9 DEF RecoverTurnControls, Withdrawn
  <2>2. unsettled # {} => latest \in unsettled
    <3>1. ASSUME NEW t \in unsettled PROVE latest \in unsettled
      BY LatestTurn, Zenon
    <3>2. QED
      BY <3>1
  <2>3. \A a \in Approvals : /\ approval'[a].turn = approval[a].turn
                             /\ approval'[a].state \in {approval[a].state, "cancelled"}
    BY <2>1, WithdrawnKeeps
  <2>4. StoppedRows'
    BY <2>1, <2>2, <2>3 DEF QuietInv, StoppedRows
  <2>5. session'.state = "awaiting_approval" => Suspended(session.turn)'
    BY <2>1, <2>3 DEF QuietInv, Suspended
  <2>6. QED
    BY <1>5, <2>4, <2>5
<1>10. QED
  BY <1>6, <1>7, <1>8, <1>9 DEF Startup

LEMMA QuietInductive ==
  IInv /\ IInv' /\ AttemptInv /\ HoldInv /\ Registry /\ Registry' /\ QuietInv /\ [Next]_vars => QuietInv'
<1> SUFFICES ASSUME IInv, IInv', AttemptInv, HoldInv, Registry, Registry', QuietInv, [Next]_vars PROVE QuietInv'
  OBVIOUS
<1>1. ASSUME NEW i \in Calls, RunsTurn(i) PROVE QuietInv'
  BY <1>1, AcquireKeepsQuiet, StartKeepsQuiet, CreateKeepsQuiet, RunnersKeepQuiet DEF RunsTurn
<1>2. ASSUME NEW i \in Calls, DecidesApproval(i) PROVE QuietInv'
  BY <1>2, ClaimKeepsQuiet, ReceiptKeepsQuiet, DecidersKeepQuiet
<1>3. ASSUME NEW i \in Calls, StopsTurn(i) \/ UsesQueue(i) PROVE QuietInv'
  BY <1>3, StoppersKeepQuiet, QueuersKeepQuiet DEF StopsTurn
<1>4. ASSUME \/ \E t \in Turns : CommandEnds(t)
             \/ \E m \in Messages : QueueMessage(m) \/ CancelQueuedMessage(m)
             \/ UNCHANGED vars
      PROVE  QuietInv'
  <2>1. UNCHANGED <<session, approval, control, call, boot>> /\ Counted' \subseteq Counted
    BY <1>4 DEF CommandEnds, EndCommands, QueueMessage, CancelQueuedMessage, vars, rows, world, commands, Counted,
       process
  <2>2. QED
    BY <2>1, BystandersKeepQuiet
<1>5. CASE Crash \/ Startup
  BY <1>5, RestartsKeepQuiet
<1>6. QED
  BY <1>1, <1>2, <1>3, <1>4, <1>5 DEF Next

\* "stopped" is proof: such a turn has given up the session for good, none of
\* its approvals is open or in doubt, and, unless a decision on it was carried
\* out, no command of it runs and nobody is left that could act for it.
THEOREM StoppedTurnIsQuiet == Spec => []StoppedIsQuiet
<1>1. Init => QuietInv
  <2> SUFFICES ASSUME Init PROVE QuietInv
    OBVIOUS
  <2>1. /\ \A i \in Calls : call[i] = NoCall
        /\ session = Free /\ Up /\ \A t \in Turns : control[t] = "none"
    BY DEF Init, Up
  <2>2. NoCall.pc = "idle" /\ NoCall.op = "none"
    BY DEF NoCall
  <2>3. QED
    BY <2>1, <2>2, FreeFits DEF QuietInv, StoppedRows, Carried, Looked
<1>2. QuietInv => StoppedIsQuiet
  BY DEF QuietInv, StoppedRows, StoppedIsQuiet, Undecided, Still
<1>3. QED
  BY <1>1, <1>2, StopsStart, AttemptsInductive, HoldsInductive, RegistryInductive, QuietInductive, Invariance, PTL
  DEF Spec

-----------------------------------------------------------------------------
(* What the queue says.                                                    *)

\* The goroutine drains the queue.
Drains(c) == c.op = "run" /\ c.message # None

(***************************************************************************)
(* The drain has a message that may start, or the one of its own turn; and *)
(* while the queue calls that message running, it reports what happened.   *)
(***************************************************************************)
QueueFits(c) ==
  Drains(c) =>
    LET m == message[c.message] IN
    /\ m.state # "none"
    /\ m.mode = "steer" => control[m.base] = "stopped"
    /\ IF c.pc \in {"draining", "refused"} THEN c.result = "none"
       ELSE /\ c.turn \in Turns /\ m.turn = c.turn /\ m.state # "queued"
            /\ c.result = "completed" /\ m.state = "running" => outcome[c.turn] = "completed"

MessageFits(m) ==
  /\ message[m].state = "none" => message[m].turn = None
  /\ message[m].mode = "steer" =>
       message[m].base \in Turns /\ (message[m].turn # None => control[message[m].base] = "stopped")
  /\ message[m].state = "completed" => message[m].turn \in Turns /\ outcome[message[m].turn] = "completed"

QueueInv == /\ \A i \in Calls : QueueFits(call[i])
            /\ \A m \in Messages : MessageFits(m)

\* A message stays where it is, is taken back, or has completed.
MessageKept(m) ==
  /\ message'[m].mode = message[m].mode /\ message'[m].base = message[m].base
  /\ message'[m].turn = message[m].turn
  /\ \/ message'[m].state = message[m].state
     \/ message'[m].state \in {"awaiting_approval", "failed", "cancelled", "needs_review"}
     \/ /\ message'[m].state = "completed" /\ message[m].turn \in Turns
        /\ outcome'[message[m].turn] = "completed"

\* What is settled stays so: a stop that was confirmed, a turn that completed.
LEMMA SettledStays ==
  ASSUME IInv, [Next]_vars, NEW t \in Turns
  PROVE  /\ control[t] = "stopped" => control'[t] = "stopped"
         /\ outcome[t] = "completed" => outcome'[t] = "completed"
<1>1. /\ control \in [Turns -> {"none", "stopping", "needs_review", "stopped"}]
      /\ outcome \in [Turns -> Outcomes]
  BY DEF IInv, TypeOK
<1>2. outcome[t] = "completed" => session.turn # t
  BY NoneIsNoTurn DEF IInv, LeaseIsOpen, Unfinished
<1>3. ASSUME \/ outcome' = outcome
             \/ \E u, how : /\ outcome[u] = "none" \/ session.turn = u \/ how = "completed"
                            /\ outcome' = [outcome EXCEPT ![u] = how]
             \/ \E u : outcome' = [outcome EXCEPT ![u] = IF @ = "open" THEN "stopped" ELSE @],
             \/ control' = control
             \/ \E u, how : control[u] # "stopped" /\ control' = [control EXCEPT ![u] = how]
             \/ control' = [u \in Turns |-> IF control[u] = "stopping" THEN "needs_review" ELSE control[u]]
      PROVE  /\ control[t] = "stopped" => control'[t] = "stopped"
             /\ outcome[t] = "completed" => outcome'[t] = "completed"
  <2>1. control[t] = "stopped" => control'[t] = "stopped"
    BY <1>1, <1>3
  <2>2. outcome[t] = "completed" => outcome'[t] = "completed"
    BY <1>1, <1>2, <1>3
  <2>3. QED
    BY <2>1, <2>2
<1>4. ASSUME NEW i \in Calls, RunsTurn(i)
      PROVE  /\ control' = control
             /\ \/ outcome' = outcome
                \/ \E u, how : /\ outcome[u] = "none" \/ session.turn = u \/ how = "completed"
                               /\ outcome' = [outcome EXCEPT ![u] = how]
  <2>1. CASE \E u \in Turns : AcquireTurn(i, u)
    BY <2>1 DEF AcquireTurn
  <2>2. CASE CompleteTurn(i) \/ FailTurn(i)
    BY <2>2 DEF CompleteTurn, FailTurn, Running, rows
  <2>3. CASE RunsTurn(i) /\ ~CompleteTurn(i) /\ ~FailTurn(i) /\ ~\E u \in Turns : AcquireTurn(i, u)
    BY <2>3 DEF RunsTurn, RegisterTurn, UsesCommands, StartCommand, CancelCommand, CreateToolApproval, LoopPauses, LoopFails, EndExecution,
       LeaveExecution, rows
  <2>4. QED
    BY <1>4, <2>1, <2>2, <2>3
<1>5. ASSUME NEW i \in Calls, DecidesApproval(i)
      PROVE  /\ control' = control
             /\ \/ outcome' = outcome
                \/ \E u, how : session.turn = u /\ outcome' = [outcome EXCEPT ![u] = how]
  <2>1. CASE BlockContinuation(i)
    BY <2>1 DEF BlockContinuation, Running
  <2>2. CASE ~BlockContinuation(i)
    BY <1>5, <2>2 DEF DecidesApproval, ReadApproval, RegisterDecision, ClaimApprovalDecision, CarryOut, ToolReturns,
       PersistApprovalReceipt, PersistFails, DecisionCancelled, DecisionStands, ContinueLoop, rows
  <2>3. QED
    BY <2>1, <2>2
<1>6. ASSUME NEW i \in Calls, StopsTurn(i)
      PROVE  /\ control' = control \/ \E u, how : control[u] # "stopped" /\ control' = [control EXCEPT ![u] = how]
             /\ \/ outcome' = outcome
                \/ \E u : outcome' = [outcome EXCEPT ![u] = IF @ = "open" THEN "stopped" ELSE @]
  <2>1. CASE Settle(i)
    BY <2>1 DEF Settle, SettleRows, rows
  <2>2. CASE ~Settle(i)
    BY <1>6, <2>2 DEF StopsTurn, StopTurn, ReconcileStoppedTurn, Observe, rows
  <2>3. QED
    BY <2>1, <2>2
<1>7. ASSUME NEW i \in Calls, UsesQueue(i) PROVE control' = control /\ outcome' = outcome
  BY <1>7 DEF UsesQueue, QueueSteer, DrainOneQueued, SteerTooLate, DrainRefused, ReportRefusal, ReportTurn, rows
<1>8. ASSUME Startup
      PROVE  /\ \/ control' = control
                \/ control' = [u \in Turns |-> IF control[u] = "stopping" THEN "needs_review" ELSE control[u]]
             /\ \/ outcome' = outcome
                \/ \E u, how : session.turn = u /\ outcome' = [outcome EXCEPT ![u] = how]
  BY <1>8 DEF Startup, RecoverMessageQueue, RecoverInterruptedApprovals, RecoverInterruptedTurns, RecoverTurnControls
<1>9. ASSUME \/ \E u \in Turns : CommandEnds(u)
             \/ \E m \in Messages : QueueMessage(m) \/ CancelQueuedMessage(m)
             \/ Crash \/ UNCHANGED vars
      PROVE  control' = control /\ outcome' = outcome
  BY <1>9 DEF CommandEnds, QueueMessage, CancelQueuedMessage, Crash, rows, vars
<1>10. QED
  BY <1>3, <1>4, <1>5, <1>6, <1>7, <1>8, <1>9 DEF Next

LEMMA QueueKept ==
  ASSUME IInv, IInv', QueueInv, [Next]_vars,
         \A m \in Messages :
            \/ MessageKept(m)
            \/ /\ MessageFits(m)'
               /\ \A j \in Calls : Drains(call'[j]) /\ call'[j].message = m => QueueFits(call[j])',
         \A j \in Calls : call'[j] = call[j] \/ QueueFits(call[j])'
  PROVE  QueueInv'
<1>1. /\ message \in [Messages -> MessageRow] /\ None \notin Turns
      /\ \A j \in Calls : call[j].message \in Messages \cup {None}
  BY NoneIsNoTurn DEF IInv, TypeOK, CallRecord
<1>2. ASSUME NEW m \in Messages, MessageKept(m) PROVE MessageFits(m)'
  <2>1. MessageFits(m) /\ message[m].turn \in Turns \cup {None}
    BY <1>1 DEF QueueInv, MessageRow
  <2>2. message'[m].state = "none" => message'[m].turn = None
    BY <1>2, <2>1 DEF MessageKept, MessageFits
  <2>3. message'[m].mode = "steer" =>
          message'[m].base \in Turns /\ (message'[m].turn # None => control'[message'[m].base] = "stopped")
    <3>1. CASE message[m].mode = "steer"
      <4>1. PICK t \in Turns : t = message[m].base /\ t = message'[m].base
        BY <1>2, <2>1, <3>1 DEF MessageKept, MessageFits
      <4>2. message[m].turn # None => control'[t] = "stopped"
        BY <2>1, <3>1, <4>1, SettledStays DEF MessageFits
      <4>3. QED
        BY <1>2, <4>1, <4>2 DEF MessageKept
    <3>2. QED
      BY <1>2, <3>1 DEF MessageKept
  <2>4. message'[m].state = "completed" =>
          message'[m].turn \in Turns /\ outcome'[message'[m].turn] = "completed"
    BY <1>2, <2>1, SettledStays DEF MessageKept, MessageFits
  <2>5. QED
    BY <2>2, <2>3, <2>4 DEF MessageFits
<1>3. ASSUME NEW j \in Calls, call'[j] = call[j], Drains(call[j]), MessageKept(call[j].message)
      PROVE  QueueFits(call[j])'
  <2>1. PICK m \in Messages : m = call[j].message /\ m = call'[j].message
    BY <1>1, <1>3 DEF Drains
  <2>2. /\ QueueFits(call[j]) /\ MessageFits(m) /\ MessageKept(m)
    BY <1>3, <2>1 DEF QueueInv
  <2>3. message'[m].state # "none"
    BY <1>3, <2>1, <2>2 DEF QueueFits, MessageKept
  <2>4. message'[m].mode = "steer" => control'[message'[m].base] = "stopped"
    <3>1. message[m].mode = "steer" => message[m].base \in Turns /\ control[message[m].base] = "stopped"
      BY <1>3, <2>1, <2>2 DEF QueueFits, MessageFits
    <3>2. message[m].mode = "steer" => control'[message[m].base] = "stopped"
      BY <3>1, SettledStays
    <3>3. QED
      BY <2>2, <3>2 DEF MessageKept
  <2>5. call[j].pc \notin {"draining", "refused"} =>
          /\ call[j].turn \in Turns /\ message'[m].turn = call[j].turn /\ message'[m].state # "queued"
          /\ call[j].result = "completed" /\ message'[m].state = "running" => outcome'[call[j].turn] = "completed"
    <3>1. call[j].pc \notin {"draining", "refused"} =>
            /\ call[j].turn \in Turns /\ message[m].turn = call[j].turn /\ message[m].state # "queued"
            /\ call[j].result = "completed" /\ message[m].state = "running" => outcome[call[j].turn] = "completed"
      BY <1>3, <2>1, <2>2 DEF QueueFits
    <3>2. QED
      BY <2>2, <3>1, SettledStays DEF MessageKept
  <2>6. call[j].pc \in {"draining", "refused"} => call[j].result = "none"
    BY <1>3, <2>2 DEF QueueFits
  <2>7. QED
    BY <1>3, <2>1, <2>3, <2>4, <2>5, <2>6 DEF QueueFits
<1>4. ASSUME NEW j \in Calls PROVE QueueFits(call[j])'
  <2>1. CASE Drains(call'[j]) /\ call'[j] = call[j]
    BY <1>1, <1>3, <2>1 DEF Drains
  <2>2. CASE ~Drains(call'[j])
    BY <2>2 DEF QueueFits, Drains
  <2>3. QED
    BY <2>1, <2>2
<1>5. QED
  BY <1>2, <1>4 DEF QueueInv

\* The result of call i, as far as it drains the queue, is what happened.
ResultFits(i) ==
  Drains(call[i]) =>
    \/ call'[i].result = call[i].result
    \/ /\ call'[i].pc # "refused"
       /\ call'[i].result = "completed" =>
            \/ outcome'[call[i].turn] = "completed"
            \/ message'[call[i].message].state # "running"

LEMMA NoneIsNoMessage == None \notin Messages
BY TurnLeaseAssumption DEF Messages, None

\* A call that goes on, or ends.
LEMMA MoversKeepQueue ==
  ASSUME IInv, IInv', Registry, QueueInv, [Next]_vars, NEW i \in Calls, Others(i),
         Goes(call[i], call'[i]) \/ Ends(call[i], call'[i]),
         call[i].pc = "refused" => call'[i] = NoCall,
         \A m \in Messages : MessageKept(m), ResultFits(i)
  PROVE  QueueInv'
<1>1. \A j \in Calls : j # i => call'[j] = call[j]
  BY DEF Others
<1>2. CASE call'[i] = NoCall
  <2>1. ~Drains(call'[i])
    BY <1>2 DEF Drains, NoCall
  <2>2. QueueFits(call[i])'
    BY <2>1 DEF QueueFits, Drains
  <2>3. QED
    BY <1>1, <2>2, QueueKept
<1>3. CASE call'[i] # NoCall
  <2>1. PICK c, d : c = call[i] /\ d = call'[i]
    OBVIOUS
  <2>2. /\ Further(c, d)
        /\ d.pc = "refused" => c.pc = "draining"
        /\ d.pc # "draining"
        /\ c.pc = "draining" => d.pc = "refused"
        /\ c.pc # "refused"
    BY <1>3, <2>1 DEF Goes, Ends, Paths, NoCall
  <2>3. ASSUME Drains(d) PROVE QueueFits(call[i])'
    <3>1. Drains(c) /\ c.message \in Messages /\ d.message = c.message /\ d.turn = c.turn
      BY <2>1, <2>2, <2>3, CallIsTyped DEF Drains, Further, CallRecord
    <3>2. PICK m \in Messages : m = c.message /\ m = d.message
      BY <3>1
    <3>3. QueueFits(c) /\ MessageFits(m) /\ MessageKept(m) /\ ResultFits(i)
      BY <2>1, <3>2 DEF QueueInv
    <3>4. message'[m].state # "none"
      BY <3>1, <3>2, <3>3 DEF QueueFits, MessageKept
    <3>5. message'[m].mode = "steer" => control'[message'[m].base] = "stopped"
      <4>1. message[m].mode = "steer" => message[m].base \in Turns /\ control[message[m].base] = "stopped"
        BY <3>1, <3>2, <3>3 DEF QueueFits, MessageFits
      <4>2. message[m].mode = "steer" => control'[message[m].base] = "stopped"
        BY <4>1, SettledStays
      <4>3. QED
        BY <3>3, <4>2 DEF MessageKept
    <3>6. CASE d.pc = "refused"
      <4>1. d.result = "none"
        BY <2>1, <2>2, <3>1, <3>3, <3>6 DEF QueueFits, ResultFits
      <4>2. QED
        BY <2>1, <3>2, <3>4, <3>5, <3>6, <4>1 DEF QueueFits
    <3>7. CASE d.pc # "refused"
      <4>1. /\ c.turn \in Turns /\ message[m].turn = c.turn /\ message[m].state # "queued"
            /\ c.result = "completed" /\ message[m].state = "running" => outcome[c.turn] = "completed"
        BY <2>2, <3>1, <3>2, <3>3, <3>7 DEF QueueFits
      <4>2. message'[m].turn = c.turn /\ message'[m].state # "queued"
        BY <3>3, <4>1 DEF MessageKept
      <4>3. ASSUME d.result = "completed", message'[m].state = "running" PROVE outcome'[c.turn] = "completed"
        <5>1. message[m].state = "running"
          BY <3>3, <4>3 DEF MessageKept
        <5>2. CASE d.result = c.result
          BY <4>1, <4>3, <5>1, <5>2, SettledStays
        <5>3. CASE d.result # c.result
          BY <2>1, <3>1, <3>2, <3>3, <4>3, <5>3 DEF ResultFits
        <5>4. QED
          BY <5>2, <5>3
      <4>4. QED
        BY <2>1, <2>2, <3>1, <3>2, <3>4, <3>5, <3>7, <4>1, <4>2, <4>3 DEF QueueFits
    <3>8. QED
      BY <3>6, <3>7
  <2>4. ~Drains(d) => QueueFits(call[i])'
    BY <2>1 DEF QueueFits, Drains
  <2>5. QED
    BY <1>1, <2>3, <2>4, QueueKept
<1>4. QED
  BY <1>2, <1>3

\* The queue item of a turn is closed as the turn ends.
LEMMA CloseKeeps ==
  ASSUME IInv, NEW t \in Turns, NEW state, message' = CloseMessage(t, state),
         \/ state \in {"failed", "cancelled", "needs_review"}
         \/ state = "completed" /\ outcome'[t] = "completed"
  PROVE  \A m \in Messages : /\ MessageKept(m)
                             /\ message[m].turn = t /\ message[m].state = "running" => message'[m].state = state
<1> SUFFICES ASSUME NEW m \in Messages
             PROVE  /\ MessageKept(m)
                    /\ message[m].turn = t /\ message[m].state = "running" => message'[m].state = state
  OBVIOUS
<1>1. message[m] \in MessageRow
  BY DEF IInv, TypeOK
<1>2. message'[m] = IF message[m].turn = t /\ message[m].state \in {"running", "awaiting_approval"}
                    THEN [message[m] EXCEPT !.state = state] ELSE message[m]
  BY DEF CloseMessage
<1>3. QED
  BY <1>1, <1>2 DEF MessageKept, MessageRow

\* A message is taken back.
LEMMA BackKeeps ==
  ASSUME IInv, NEW S, NEW state \in {"awaiting_approval", "failed", "cancelled", "needs_review"},
         \/ message' = message
         \/ message' = [n \in Messages |-> IF n \in S THEN [message[n] EXCEPT !.state = state] ELSE message[n]]
  PROVE  \A m \in Messages : MessageKept(m)
<1> SUFFICES ASSUME NEW m \in Messages PROVE MessageKept(m)
  OBVIOUS
<1>1. message[m] \in MessageRow
  BY DEF IInv, TypeOK
<1>2. message'[m] = message[m] \/ message'[m] = [message[m] EXCEPT !.state = state]
  OBVIOUS
<1>3. QED
  BY <1>1, <1>2 DEF MessageKept, MessageRow

LEMMA RunnersKeepQueue ==
  ASSUME IInv, IInv', Registry, QueueInv, [Next]_vars, NEW i \in Calls, RunsTurn(i), ~UsesCommands(i),
         ~\E t \in Turns : AcquireTurn(i, t)
  PROVE  QueueInv'
<1>1. /\ call[i] \in CallRecord /\ call \in [Calls -> CallRecord] /\ outcome \in [Turns -> Outcomes]
  BY DEF IInv, TypeOK
<1>2. Others(i) /\ (Goes(call[i], call'[i]) \/ Ends(call[i], call'[i]))
  BY RunnerMoves
<1>3. ASSUME \A m \in Messages : MessageKept(m), ResultFits(i) PROVE QueueInv'
  <2>1. call[i].pc # "refused"
    BY DEF RunsTurn, RegisterTurn, CreateToolApproval, LoopPauses, LoopFails, CompleteTurn, FailTurn,
       EndExecution, LeaveExecution, At
  <2>2. QED
    BY <1>2, <1>3, <2>1, MoversKeepQueue
<1>4. ASSUME message' = message PROVE \A m \in Messages : MessageKept(m)
  BY <1>4 DEF MessageKept
<1>5. CASE \/ RegisterTurn(i) \/ LoopFails(i) \/ EndExecution(i)
           \/ \E a \in Approvals, authorized \in BOOLEAN : CreateToolApproval(i, a, authorized)
  <2>1. message' = message /\ call'[i].result = call[i].result
    <3>1. ASSUME NEW a \in Approvals, NEW authorized \in BOOLEAN, CreateToolApproval(i, a, authorized)
          PROVE  message' = message /\ call'[i].result = call[i].result
      BY <1>1, <3>1 DEF CreateToolApproval, CallRecord
    <3>2. CASE RegisterTurn(i) \/ LoopFails(i) \/ EndExecution(i)
      BY <1>1, <3>2 DEF RegisterTurn, LoopFails, EndExecution, Go, rows, CallRecord
    <3>3. QED
      BY <1>5, <3>1, <3>2
  <2>2. QED
    BY <1>3, <1>4, <2>1 DEF ResultFits
<1>6. CASE LoopPauses(i)
  <2>1. message' = message /\ call'[i].result = "awaiting_approval" /\ call'[i].pc # "refused"
    BY <1>1, <1>6 DEF LoopPauses, Finish, rows, CallRecord
  <2>2. QED
    BY <1>3, <1>4, <2>1 DEF ResultFits
<1>7. CASE CompleteTurn(i)
  <2>1. /\ call[i].turn \in Turns /\ outcome'[call[i].turn] = "completed" /\ call'[i].pc # "refused"
        /\ message' = CloseMessage(call[i].turn, "completed")
    BY <1>1, <1>7, CallIsTyped DEF CompleteTurn, Finish, At, WellPlaced, Fits, Turn, CallRecord
  <2>2. QED
    BY <1>3, <2>1, CloseKeeps DEF ResultFits
<1>8. CASE FailTurn(i)
  <2>1. /\ call[i].turn \in Turns /\ call'[i].result = "failed" /\ call'[i].pc # "refused"
        /\ message' = message \/ message' = CloseMessage(call[i].turn, "failed")
    BY <1>1, <1>8, CallIsTyped DEF FailTurn, Finish, At, WellPlaced, Fits, Turn, rows, CallRecord
  <2>2. QED
    BY <1>3, <1>4, <2>1, CloseKeeps DEF ResultFits
<1>9. CASE LeaveExecution(i)
  <2>1. message' = message /\ (call'[i] = NoCall \/ call'[i].result = call[i].result)
    BY <1>1, <1>9 DEF LeaveExecution, Go, Return, rows, CallRecord
  <2>2. NoCall.pc # "refused" /\ NoCall.result # "completed"
    BY DEF NoCall
  <2>3. QED
    BY <1>3, <1>4, <2>1, <2>2 DEF ResultFits
<1>10. QED
  BY <1>5, <1>6, <1>7, <1>8, <1>9 DEF RunsTurn

\* A decision reports nothing to the queue.
LEMMA DecidersKeepQueue ==
  ASSUME IInv, IInv', Registry, QueueInv, [Next]_vars, NEW i \in Calls, DecidesApproval(i)
  PROVE  QueueInv'
<1>1. /\ call[i] \in CallRecord /\ call \in [Calls -> CallRecord]
  BY DEF IInv, TypeOK
<1>2. \A m \in Messages : MessageKept(m)
  BY DEF DecidesApproval, ReadApproval, RegisterDecision, ClaimApprovalDecision, CarryOut, ToolReturns,
     PersistApprovalReceipt, PersistFails, DecisionCancelled, DecisionStands, ContinueLoop, BlockContinuation,
     rows, MessageKept
<1>3. ASSUME Others(i), ~Drains(call'[i]) PROVE QueueInv'
  BY <1>2, <1>3, QueueKept DEF Others, QueueFits, Drains
<1>4. CASE \E a \in Approvals : ReadApproval(i, a)
  <2>1. Others(i) /\ call'[i].op = "decide"
    BY <1>1, <1>4 DEF ReadApproval, Others, CallRecord
  <2>2. QED
    BY <1>3, <2>1 DEF Drains
<1>5. CASE RegisterDecision(i)
  <2>1. call[i].op = "decide"
    BY <1>5 DEF RegisterDecision, At, Registry, Shape
  <2>2. Others(i) /\ (call'[i].op = "decide" \/ call'[i] = NoCall)
    BY <1>1, <1>5, <2>1 DEF RegisterDecision, Return, Others, CallRecord
  <2>3. QED
    BY <1>3, <2>1, <2>2 DEF Drains, NoCall
<1>6. CASE CarryOut(i)
  <2>1. /\ Others(i) /\ Further(call[i], call'[i]) /\ call[i].pc = "tool" /\ call'[i].pc = "tool"
        /\ call'[i].result = call[i].result
    BY <1>1, <1>6 DEF CarryOut, At, Others, Further, CallRecord
  <2>2. call'[i].message \in Messages \cup {None} /\ UNCHANGED <<message, control, outcome>>
    BY <1>1, <1>6, <2>1 DEF CarryOut, rows, CallRecord, Further
  <2>3. QueueFits(call[i])'
    BY <2>1, <2>2 DEF QueueInv, QueueFits, Drains, Further
  <2>4. QED
    BY <1>2, <2>1, <2>3, QueueKept DEF Others
<1>7. CASE ~RegisterDecision(i) /\ ~CarryOut(i) /\ ~\E a \in Approvals : ReadApproval(i, a)
  <2>1. Others(i) /\ Goes(call[i], call'[i])
    BY <1>7, DeciderMoves
  <2>2. /\ call[i].pc # "refused" /\ call'[i].pc # "refused"
        /\ call'[i].result # "completed" \/ call'[i].result = call[i].result
    <3>1. CASE PersistApprovalReceipt(i)
      BY <1>1, <3>1 DEF PersistApprovalReceipt, At, CallRecord
    <3>2. CASE \E decision \in {"executing", "denied"} : ClaimApprovalDecision(i, decision)
      <4>1. /\ call[i].pc = "claim"
            /\ \E p \in {"tool", "receipt", "failing", "ending"} :
                 Go(i, p) \/ \E r \in {"none", "denied"} : Finish(i, p, r)
        BY <3>2 DEF ClaimApprovalDecision, At
      <4>2. QED
        BY <1>1, <4>1 DEF Go, Finish, CallRecord
    <3>3. CASE PersistFails(i) \/ \E result \in {"executed", "failed", "uncertain"} : ToolReturns(i, result)
      <4>1. /\ call[i].pc \in {"tool", "receipt"}
            /\ \E p \in {"receipt", "failing", "ending"}, r \in {"executed", "failed", "uncertain"} : Finish(i, p, r)
        BY <3>3 DEF PersistFails, ToolReturns, At
      <4>2. QED
        BY <1>1, <4>1 DEF Finish, CallRecord
    <3>4. CASE DecisionCancelled(i) \/ DecisionStands(i) \/ ContinueLoop(i) \/ BlockContinuation(i)
      <4>1. /\ call[i].pc \in {"resumed", "resuming"}
            /\ \E p \in {"failing", "resuming", "loop", "ending"} : Go(i, p)
        BY <3>4 DEF DecisionCancelled, DecisionStands, ContinueLoop, BlockContinuation, At
      <4>2. QED
        BY <1>1, <4>1 DEF Go, CallRecord
    <3>5. QED
      BY <1>7, <3>1, <3>2, <3>3, <3>4 DEF DecidesApproval
  <2>3. QED
    BY <1>2, <2>1, <2>2, MoversKeepQueue DEF ResultFits
<1>8. QED
  BY <1>4, <1>5, <1>6, <1>7

\* RunTurn takes the queued message that the drain has chosen.
LEMMA AcquireKeepsQueue ==
  ASSUME IInv, IInv', Registry, QueueInv, [Next]_vars, NEW i \in Calls, NEW t \in Turns, AcquireTurn(i, t)
  PROVE  QueueInv'
<1>1. /\ call[i] \in CallRecord /\ call \in [Calls -> CallRecord] /\ message \in [Messages -> MessageRow]
      /\ None \notin Turns /\ ~Begun(t) /\ Shape(call[i])
  BY NoneIsNoTurn DEF IInv, TypeOK, AcquireTurn, Begun, Registry
<1>2. /\ call[i].pc \in {"idle", "draining"} /\ Others(i)
      /\ call'[i].op = "run" /\ call'[i].pc = "acquired" /\ call'[i].turn = t
      /\ call'[i].message = call[i].message /\ call'[i].result = call[i].result
      /\ UNCHANGED control
  BY <1>1 DEF AcquireTurn, Others, CallRecord
<1>3. CASE call[i].message = None
  <2>1. UNCHANGED message /\ ~Drains(call'[i])
    BY <1>2, <1>3 DEF AcquireTurn, Drains
  <2>2. QED
    BY <1>2, <2>1, QueueKept DEF MessageKept, QueueFits, Drains, Others
<1>4. CASE call[i].message # None
  <2>1. PICK m \in Messages : m = call[i].message
    BY <1>1, <1>4 DEF CallRecord
  <2>2. /\ message[m].state = "queued"
        /\ message' = [message EXCEPT ![m].state = "running", ![m].turn = t]
    BY <1>4, <2>1 DEF AcquireTurn
  <2>3. /\ message'[m].state = "running" /\ message'[m].turn = t
        /\ message'[m].mode = message[m].mode /\ message'[m].base = message[m].base
        /\ \A n \in Messages : n # m => message'[n] = message[n]
    BY <1>1, <2>2 DEF MessageRow
  <2>4. call[i].pc = "draining" /\ call[i].op = "run"
    BY <1>1, <1>2, <1>4 DEF Shape, NoCall
  <2>5. QueueFits(call[i]) /\ MessageFits(m)
    BY DEF QueueInv
  <2>6. message'[m].mode = "steer" => message'[m].base \in Turns /\ control'[message'[m].base] = "stopped"
    BY <1>2, <1>4, <2>1, <2>3, <2>4, <2>5 DEF QueueFits, MessageFits, Drains
  <2>7. MessageFits(m)'
    BY <2>3, <2>6 DEF MessageFits
  <2>8. QueueFits(call[i])'
    BY <1>2, <1>4, <2>1, <2>3, <2>4, <2>5, <2>6 DEF QueueFits, Drains
  \* Another drain that has chosen the message has not begun either.
  <2>9. ASSUME NEW j \in Calls, j # i, Drains(call'[j]), call'[j].message = m PROVE QueueFits(call[j])'
    <3>1. call'[j] = call[j] /\ QueueFits(call[j])
      BY <1>2, <2>9 DEF Others, QueueInv
    <3>2. call[j].pc \in {"draining", "refused"} /\ call[j].result = "none"
      BY <2>2, <2>9, <3>1 DEF QueueFits
    <3>3. QED
      BY <2>3, <2>6, <2>9, <3>1, <3>2 DEF QueueFits
  <2>10. \A n \in Messages : n # m => MessageKept(n)
    BY <2>3 DEF MessageKept
  <2>11. QED
    BY <1>2, <2>7, <2>8, <2>9, <2>10, QueueKept DEF Others
<1>5. QED
  BY <1>3, <1>4

\* Who settles a stop closes the queue item of the turn.
LEMMA StoppersKeepQueue ==
  ASSUME IInv, IInv', Registry, QueueInv, [Next]_vars, NEW i \in Calls, StopsTurn(i)
  PROVE  QueueInv'
<1>1. /\ call[i] \in CallRecord /\ call \in [Calls -> CallRecord]
  BY DEF IInv, TypeOK
<1>2. ASSUME message' = message PROVE \A m \in Messages : MessageKept(m)
  BY <1>2 DEF MessageKept
<1>3. ASSUME NEW t \in Turns, StopTurn(i, t) \/ ReconcileStoppedTurn(i, t) PROVE QueueInv'
  <2>1. Others(i) /\ call'[i].op \in {"none", "stop", "reconcile"} /\ message' = message
    <3>1. CASE StopTurn(i, t)
      BY <1>1, <3>1 DEF StopTurn, NoCall, Others
    <3>2. CASE ReconcileStoppedTurn(i, t)
      BY <1>1, <3>2 DEF ReconcileStoppedTurn, Others, rows, CallRecord
    <3>3. QED
      BY <1>3, <3>1, <3>2
  <2>2. QED
    BY <1>2, <2>1, QueueKept DEF QueueFits, Drains, Others
<1>4. CASE Observe(i)
  <2>1. PICK sure \in BOOLEAN : call' = [call EXCEPT ![i].pc = "settle", ![i].sure = sure]
    BY <1>4 DEF Observe
  <2>2. message' = message /\ call[i].pc = "observe" /\ call'[i].result = call[i].result
    BY <1>1, <1>4, <2>1 DEF Observe, At, rows, CallRecord
  <2>3. QED
    BY <1>2, <1>4, <2>2, SettlerMoves, MoversKeepQueue DEF ResultFits
<1>5. CASE Settle(i)
  <2>1. PICK t \in Turns : t = call[i].turn
    BY <1>5, CallIsTyped DEF Settle, At, WellPlaced, Fits
  <2>2. call[i].pc = "settle"
    BY <1>5 DEF Settle, At
  <2>3. \/ message' = message /\ control[t] # "stopping"
        \/ \E state \in {"cancelled", "needs_review"} : message' = CloseMessage(t, state)
    BY <1>5, <2>1 DEF Settle, SettleRows, Turn, rows
  <2>4. \A m \in Messages : MessageKept(m)
    BY <1>2, <2>3, CloseKeeps
  <2>5. ResultFits(i)
    <3>1. CASE control[t] # "stopping"
      <4>1. \/ call' = [call EXCEPT ![i] = [call[i] EXCEPT !.pc = "ending", !.result = "failed"]]
            \/ Return(i)
        BY <1>5, <2>1, <3>1 DEF Settle, Turn
      <4>2. call'[i].pc # "refused" /\ (call'[i].result # "completed" \/ call'[i].result = call[i].result)
        <5>1. CASE call' = [call EXCEPT ![i] = [call[i] EXCEPT !.pc = "ending", !.result = "failed"]]
          BY <1>1, <5>1 DEF CallRecord
        <5>2. CASE Return(i)
          BY <1>1, <2>2, <5>2 DEF Return, NoCall, CallRecord
        <5>3. QED
          BY <4>1, <5>1, <5>2
      <4>3. QED
        BY <4>2 DEF ResultFits
    <3>2. CASE control[t] = "stopping"
      <4>1. PICK state \in {"cancelled", "needs_review"} : message' = CloseMessage(t, state)
        BY <2>3, <3>2
      <4>2. call'[i].pc # "refused"
        <5>1. \/ call' = [call EXCEPT ![i] = [call[i] EXCEPT !.pc = "ending", !.result = "completed"]]
              \/ Return(i)
          BY <1>5, <2>1, <3>2 DEF Settle, Turn
        <5>2. CASE call' = [call EXCEPT ![i] = [call[i] EXCEPT !.pc = "ending", !.result = "completed"]]
          BY <1>1, <5>2 DEF CallRecord
        <5>3. CASE Return(i)
          BY <1>1, <2>2, <5>3 DEF Return, NoCall, CallRecord
        <5>4. QED
          BY <5>1, <5>2, <5>3
      <4>3. ASSUME Drains(call[i]) PROVE message'[call[i].message].state # "running"
        <5>1. PICK m \in Messages : m = call[i].message
          BY <1>1, <4>3 DEF Drains, CallRecord
        <5>2. message[m].turn = t
          BY <2>1, <2>2, <4>3, <5>1 DEF QueueInv, QueueFits
        <5>3. message[m] \in MessageRow
          BY DEF IInv, TypeOK
        <5>4. message'[m].state # "running"
          BY <4>1, <5>2, <5>3 DEF CloseMessage, MessageRow
        <5>5. QED
          BY <5>1, <5>4
      <4>4. QED
        BY <4>2, <4>3 DEF ResultFits
    <3>3. QED
      BY <3>1, <3>2
  <2>6. QED
    BY <1>5, <2>2, <2>4, <2>5, SettlerMoves, MoversKeepQueue
<1>6. QED
  BY <1>3, <1>4, <1>5 DEF StopsTurn

\* A message that nobody has had is queued; what waited may be put up for
\* review.
LEMMA NewMessageKeepsQueue ==
  ASSUME IInv, IInv', QueueInv, [Next]_vars, NEW m \in Messages, message[m].state = "none",
         message'[m].turn = None, message'[m].state = "queued",
         message'[m].mode = "steer" => message'[m].base \in Turns,
         \A n \in Messages : n # m => MessageKept(n),
         \A j \in Calls : call'[j] = call[j] \/ ~Drains(call'[j])
  PROVE  QueueInv'
<1>1. MessageFits(m)'
  BY DEF MessageFits
<1>2. ASSUME NEW j \in Calls, Drains(call'[j]), call'[j].message = m PROVE FALSE
  BY <1>2 DEF QueueInv, QueueFits
<1>3. QED
  BY <1>1, <1>2, QueueKept DEF QueueFits, Drains

LEMMA QueueKeepsQueue ==
  ASSUME IInv, IInv', Registry, QueueInv, [Next]_vars,
         \/ \E m \in Messages : QueueMessage(m) \/ CancelQueuedMessage(m)
         \/ \E i \in Calls : UsesQueue(i)
  PROVE  QueueInv'
<1>1. /\ call \in [Calls -> CallRecord] /\ message \in [Messages -> MessageRow]
      /\ session.turn # None => session.turn \in Turns
  BY DEF IInv, TypeOK, SessionRow
<1>2. ASSUME NEW m \in Messages, QueueMessage(m) PROVE QueueInv'
  <2>1. /\ message[m].state = "none" /\ message' = [message EXCEPT ![m].state = "queued"] /\ call' = call
        /\ message[m].turn = None
    BY <1>2 DEF QueueMessage, NewMessage, QueueInv, MessageFits
  <2>2. /\ message'[m].turn = None /\ message'[m].state = "queued" /\ message'[m].mode = message[m].mode
        /\ message'[m].base = message[m].base /\ \A n \in Messages : n # m => MessageKept(n)
    BY <1>1, <2>1 DEF MessageRow, MessageKept
  <2>3. message[m].mode = "steer" => message[m].base \in Turns
    BY DEF QueueInv, MessageFits
  <2>4. QED
    BY <2>1, <2>2, <2>3, NewMessageKeepsQueue
<1>3. ASSUME NEW m \in Messages, CancelQueuedMessage(m) PROVE QueueInv'
  <2>1. message' = [message EXCEPT ![m].state = "cancelled"] /\ call' = call
    BY <1>3 DEF CancelQueuedMessage
  <2>2. \A n \in Messages : MessageKept(n)
    BY <1>1, <2>1 DEF MessageRow, MessageKept
  <2>3. QED
    BY <2>1, <2>2, QueueKept
<1>4. ASSUME NEW i \in Calls, NEW m \in Messages, QueueSteer(i, m) PROVE QueueInv'
  <2>1. /\ message[m].state = "none" /\ session.turn \in Turns
        /\ message'[m] = [state |-> "queued", mode |-> "steer", base |-> session.turn, turn |-> None]
        /\ \A n \in Messages : n # m =>
             message'[n] = message[n] \/ message'[n] = [message[n] EXCEPT !.state = "needs_review"]
    BY <1>1, <1>4 DEF QueueSteer, NewMessage
  <2>2. \A n \in Messages : n # m => MessageKept(n)
    BY <1>1, <2>1 DEF MessageRow, MessageKept
  <2>3. Others(i) /\ call'[i].op = "steer"
    BY <1>1, <1>4 DEF QueueSteer, Others, CallRecord
  <2>4. \A j \in Calls : call'[j] = call[j] \/ ~Drains(call'[j])
    BY <2>3 DEF Others, Drains
  <2>5. QED
    BY <2>1, <2>2, <2>4, NewMessageKeepsQueue
<1>5. ASSUME NEW i \in Calls, NEW m \in Messages, DrainOneQueued(i, m) PROVE QueueInv'
  <2>1. /\ Others(i) /\ call[i] = NoCall /\ Eligible(m) /\ UNCHANGED rows
        /\ call'[i].op = "run" /\ call'[i].pc = "draining" /\ call'[i].message = m
        /\ call'[i].result = call[i].result
    BY <1>1, <1>5 DEF DrainOneQueued, At, Registry, Shape, Others, CallRecord
  <2>2. QueueFits(call[i])'
    BY <2>1 DEF QueueFits, Eligible, NoCall, rows
  <2>3. \A n \in Messages : MessageKept(n)
    BY <2>1 DEF MessageKept, rows
  <2>4. QED
    BY <2>1, <2>2, <2>3, QueueKept DEF Others
<1>6. ASSUME NEW i \in Calls, SteerTooLate(i) \/ ReportRefusal(i) PROVE QueueInv'
  <2>1. \/ message' = message
        \/ message' = [message EXCEPT ![call[i].message].state = "needs_review"]
    BY <1>6 DEF SteerTooLate, ReportRefusal
  <2>2. \A n \in Messages : MessageKept(n)
    BY <1>1, <2>1 DEF MessageKept, MessageRow
  <2>3. Others(i) /\ call'[i] = NoCall
    <3>1. CASE SteerTooLate(i)
      <4>1. call[i].op # "run"
        BY <3>1, CallIsTyped DEF SteerTooLate, At, WellPlaced, Fits
      <4>2. QED
        BY <1>1, <3>1, <4>1 DEF SteerTooLate, Return, Others
    <3>2. CASE ReportRefusal(i)
      BY <1>1, <3>2 DEF ReportRefusal, Others
    <3>3. QED
      BY <1>6, <3>1, <3>2
  <2>4. QED
    BY <2>2, <2>3, QueueKept DEF Others, QueueFits, Drains, NoCall
<1>7. ASSUME NEW i \in Calls, DrainRefused(i) PROVE QueueInv'
  <2>1. /\ message' = message /\ call[i].pc = "draining" /\ call'[i].result = call[i].result
    BY <1>1, <1>7 DEF DrainRefused, Go, At, rows, CallRecord
  <2>2. QED
    BY <1>7, <2>1, SettlerMoves, MoversKeepQueue DEF MessageKept, ResultFits
\* The report is about the turn of the drain.
<1>8. ASSUME NEW i \in Calls, ReportTurn(i) PROVE QueueInv'
  <2>1. /\ Others(i) /\ call'[i] = NoCall /\ call[i].pc = "report" /\ call[i].op = "run"
        /\ call[i].result \in {"completed", "failed", "awaiting_approval"}
        /\ outcome' = outcome
    BY <1>1, <1>8, CallIsTyped DEF ReportTurn, At, Others, WellPlaced, Fits
  <2>2. CASE UNCHANGED message
    BY <2>1, <2>2, QueueKept DEF MessageKept, Others, QueueFits, Drains, NoCall
  <2>3. CASE ~UNCHANGED message
    <3>1. PICK m : m = call[i].message
      OBVIOUS
    <3>2. /\ message[m].state \in {"queued", "running"}
          /\ message' = [message EXCEPT ![m].state = call[i].result]
      BY <1>8, <2>3, <3>1 DEF ReportTurn
    <3>3. m \in Messages /\ m # None
      <4>1. m \notin Messages => message' = message
        BY <1>1, <3>2
      <4>2. QED
        BY <2>3, <4>1, NoneIsNoMessage
    <3>4. /\ call[i].turn \in Turns /\ message[m].turn = call[i].turn /\ message[m].state # "queued"
          /\ call[i].result = "completed" /\ message[m].state = "running" => outcome[call[i].turn] = "completed"
      BY <2>1, <3>1, <3>3 DEF QueueInv, QueueFits, Drains
    <3>5. \A n \in Messages : MessageKept(n)
      BY <1>1, <2>1, <3>2, <3>4 DEF MessageKept, MessageRow
    <3>6. QED
      BY <2>1, <3>5, QueueKept DEF Others, QueueFits, Drains, NoCall
  <2>4. QED
    BY <2>2, <2>3
<1>9. QED
  BY <1>2, <1>3, <1>4, <1>5, <1>6, <1>7, <1>8 DEF UsesQueue

LEMMA RestartsKeepQueue ==
  ASSUME IInv, IInv', QueueInv, [Next]_vars, Crash \/ Startup
  PROVE  QueueInv'
<1>1. \A j \in Calls : call'[j] = call[j] \/ call'[j] = NoCall
  BY DEF Crash, Startup, RecoverMessageQueue, RecoverInterruptedApprovals, RecoverInterruptedTurns,
     RecoverTurnControls
<1>2. \A j \in Calls : call'[j] = call[j] \/ QueueFits(call[j])'
  BY <1>1 DEF QueueFits, Drains, NoCall
<1>3. message \in [Messages -> MessageRow]
  BY DEF IInv, TypeOK
<1>4. ASSUME NEW m \in Messages
      PROVE  message'[m] = message[m] \/ message'[m] = [message[m] EXCEPT !.state = "needs_review"]
  <2>1. CASE UNCHANGED message
    BY <2>1
  <2>2. CASE RecoverMessageQueue \/ RecoverTurnControls
    BY <2>2 DEF RecoverMessageQueue, RecoverTurnControls
  <2>3. QED
    BY <2>1, <2>2 DEF Crash, Startup, RecoverInterruptedApprovals, RecoverInterruptedTurns, rows
<1>5. ASSUME NEW m \in Messages
      PROVE  MessageKept(m)
  <2>1. message[m] \in MessageRow
    BY <1>3
  <2>2. CASE message'[m] = message[m]
    BY <2>2 DEF MessageKept
  <2>3. CASE message'[m] = [message[m] EXCEPT !.state = "needs_review"]
    BY <2>1, <2>3 DEF MessageKept, MessageRow
  <2>4. QED
    BY <1>4, <2>2, <2>3
<1>6. QED
  BY <1>2, <1>5, QueueKept

LEMMA QueueInductive == IInv /\ IInv' /\ Registry /\ QueueInv /\ [Next]_vars => QueueInv'
<1> SUFFICES ASSUME IInv, IInv', Registry, QueueInv, [Next]_vars PROVE QueueInv'
  OBVIOUS
<1>1. ASSUME UNCHANGED <<message, call>> PROVE QueueInv'
  BY <1>1, QueueKept DEF MessageKept
<1>2. ASSUME NEW i \in Calls, RunsTurn(i) PROVE QueueInv'
  <2>1. CASE UsesCommands(i)
    BY <1>1, <2>1 DEF UsesCommands, StartCommand, CancelCommand, rows
  <2>2. CASE \E t \in Turns : AcquireTurn(i, t)
    BY <2>2, AcquireKeepsQueue
  <2>3. QED
    BY <1>2, <2>1, <2>2, RunnersKeepQueue
<1>3. ASSUME NEW i \in Calls, DecidesApproval(i) \/ StopsTurn(i) \/ UsesQueue(i) PROVE QueueInv'
  BY <1>3, DecidersKeepQueue, StoppersKeepQueue, QueueKeepsQueue
<1>4. CASE \E m \in Messages : QueueMessage(m) \/ CancelQueuedMessage(m)
  BY <1>4, QueueKeepsQueue
<1>5. CASE Crash \/ Startup
  BY <1>5, RestartsKeepQueue
<1>6. CASE (\E t \in Turns : CommandEnds(t)) \/ UNCHANGED vars
  BY <1>1, <1>6 DEF CommandEnds, vars, rows
<1>7. QED
  BY <1>2, <1>3, <1>4, <1>5, <1>6 DEF Next

\* A message that changes direction starts only after the turn that it was
\* sent to has stopped; and what the queue calls completed has completed.
THEOREM QueueTellsTheTruth == Spec => []QueueIsTruthful
<1>1. Init => QueueInv
  BY DEF Init, QueueInv, QueueFits, MessageFits, Drains, NoCall
<1>2. QueueInv => QueueIsTruthful
  BY DEF QueueInv, MessageFits, QueueIsTruthful
<1>3. QED
  BY <1>1, <1>2, StopsStart, AttemptsInductive, HoldsInductive, RegistryInductive, QueueInductive, Invariance, PTL
  DEF Spec

-----------------------------------------------------------------------------
(* The rows of a session tell its history.                                 *)

\* The places from which a call may still come to carry out an effect.
Fresh == {"idle", "draining", "acquired", "loop", "paused", "read", "claim", "resumed", "resuming"}

\* A call knows whether the effect that it claimed was carried out, and does
\* not take an earlier one for it.
Truthful(c) ==
  /\ c.acted => c.pc \notin Fresh
  /\ Acts(c) /\ c.acted => did[c.approval] = 1
  /\ c.pc = "receipt" /\ c.result = "executed" => c.acted

(***************************************************************************)
(* A turn that runs or waits for an approval has not ended, and what is    *)
(* about to be written down of an effect is so.                            *)
(***************************************************************************)
TruthInv ==
  /\ session.state \in {"running", "awaiting_approval"} => outcome[session.turn] = "open"
  /\ \A i \in Calls : Truthful(call[i])

\* The rows that the history is about.
Told == <<session.turn, control, approval, outcome, did>>

\* A call that goes on keeps what it knows.
LEMMA GoerKnows ==
  ASSUME IInv, NEW i \in Calls, NEW p, Go(i, p) \/ \E r : Finish(i, p, r)
  PROVE  /\ call'[i].acted = call[i].acted /\ call'[i].approval = call[i].approval
         /\ call'[i].pc = p /\ Others(i)
  BY DEF IInv, TypeOK, Go, Finish, CallRecord, Others

LEMMA FinisherTells ==
  ASSUME IInv, NEW i \in Calls, NEW p, NEW r, Finish(i, p, r)
  PROVE  call'[i].result = r
  BY DEF IInv, TypeOK, Finish, CallRecord

LEMMA NoCallIsTruthful == Truthful(NoCall)
  BY DEF Truthful, NoCall, Acts

\* A call that has no effect to tell of, and does not carry one that it told of
\* back to where it may act again.
Rests(c) == ~Acts(c) /\ (c.acted => c.pc \notin Fresh)

LEMMA RestIsTruthful ==
  ASSUME IInv, NEW i \in Calls, \A j \in Calls : Truthful(call[j]), Others(i), did' = did,
         Rests(call'[i]) \/ call'[i] = call[i]
  PROVE  \A j \in Calls : Truthful(call[j])'
<1>1. \A j \in Calls : j # i => call'[j] = call[j]
  BY DEF Others
<1>2. QED
  BY <1>1 DEF Truthful, Rests, Acts

LEMMA GoerRests ==
  ASSUME IInv, NEW i \in Calls, Truthful(call[i]), NEW p, Go(i, p) \/ \E r : Finish(i, p, r),
         p \notin {"tool", "receipt"}, p \in Fresh => call[i].pc \in Fresh
  PROVE  Others(i) /\ Rests(call'[i])
<1>1. /\ call'[i].acted = call[i].acted /\ call'[i].pc = p /\ Others(i)
  BY GoerKnows
<1>2. QED
  BY <1>1 DEF Truthful, Acts, Rests

LEMMA ReturnerRests ==
  ASSUME IInv, NEW i \in Calls, Return(i) \/ call' = [call EXCEPT ![i] = NoCall]
  PROVE  Others(i) /\ Rests(call'[i])
<1>1. call[i] \in CallRecord /\ call \in [Calls -> CallRecord]
  BY DEF IInv, TypeOK
<1>2. QED
  BY <1>1 DEF Return, CallRecord, NoCall, Others, Rests, Acts, Fresh

\* The executor.
LEMMA RunnersRest ==
  ASSUME IInv, NEW i \in Calls, Truthful(call[i]), RunsTurn(i), ~UsesCommands(i)
  PROVE  Others(i) /\ Rests(call'[i]) /\ did' = did
<1>1. call[i] \in CallRecord /\ call \in [Calls -> CallRecord]
  BY DEF IInv, TypeOK
<1>2. ASSUME NEW t \in Turns, AcquireTurn(i, t) PROVE Others(i) /\ Rests(call'[i])
  BY <1>1, <1>2 DEF AcquireTurn, CallRecord, Others, Rests, Acts, Truthful, Fresh
<1>3. CASE RegisterTurn(i) \/ EndExecution(i)
  BY <1>1, <1>3 DEF RegisterTurn, EndExecution, At, CallRecord, Others, Rests, Acts, Truthful, Fresh, world
<1>4. ASSUME NEW a \in Approvals, NEW authorized \in BOOLEAN, CreateToolApproval(i, a, authorized)
      PROVE  Others(i) /\ Rests(call'[i])
  BY <1>1, <1>4 DEF CreateToolApproval, At, CallRecord, Others, Rests, Acts, Truthful, Fresh
<1>5. CASE LoopPauses(i) \/ LoopFails(i) \/ CompleteTurn(i) \/ FailTurn(i)
  <2>1. \E p \in {"failing", "ending", "observe"} : Go(i, p) \/ \E r : Finish(i, p, r)
    BY <1>5 DEF LoopPauses, LoopFails, CompleteTurn, FailTurn
  <2>2. QED
    BY <1>5, <2>1, GoerRests DEF Fresh, LoopPauses, LoopFails, CompleteTurn, FailTurn, world
<1>6. CASE LeaveExecution(i)
  BY <1>6, GoerRests, ReturnerRests DEF LeaveExecution, Fresh, world
<1>7. did' = did
  BY DEF RunsTurn, AcquireTurn, RegisterTurn, CreateToolApproval, LoopPauses, LoopFails, CompleteTurn,
         FailTurn, EndExecution, LeaveExecution, world
<1>8. QED
  BY <1>2, <1>3, <1>4, <1>5, <1>6, <1>7 DEF RunsTurn

\* Decisions that do not act.
LEMMA DecidersRest ==
  ASSUME IInv, NEW i \in Calls, Truthful(call[i]),
         \/ \E a \in Approvals : ReadApproval(i, a)
         \/ RegisterDecision(i) \/ PersistApprovalReceipt(i) \/ PersistFails(i)
         \/ DecisionCancelled(i) \/ DecisionStands(i) \/ ContinueLoop(i) \/ BlockContinuation(i)
  PROVE  Others(i) /\ Rests(call'[i]) /\ did' = did
<1>1. call[i] \in CallRecord /\ call \in [Calls -> CallRecord]
  BY DEF IInv, TypeOK
<1>2. ASSUME NEW a \in Approvals, ReadApproval(i, a) PROVE call'[i].pc \in {"read"} /\ call'[i].acted = call[i].acted
  BY <1>1, <1>2 DEF ReadApproval, CallRecord
<1>3. CASE \E a \in Approvals : ReadApproval(i, a)
  <2>1. call[i].pc = "idle" /\ Others(i)
    BY <1>1, <1>3 DEF ReadApproval, At, CallRecord, Others
  <2>2. QED
    BY <1>2, <1>3, <2>1 DEF Rests, Acts, Truthful, Fresh, ReadApproval, world
<1>4. CASE RegisterDecision(i)
  <2>1. CASE Return(i)
    BY <1>4, <2>1, ReturnerRests DEF RegisterDecision, world
  <2>2. CASE ~Return(i)
    BY <1>1, <1>4, <2>2 DEF RegisterDecision, At, CallRecord, Others, Rests, Acts, Truthful, Fresh, world
  <2>3. QED
    BY <2>1, <2>2
<1>5. CASE PersistApprovalReceipt(i)
  BY <1>1, <1>5 DEF PersistApprovalReceipt, CallRecord, Others, Rests, Acts, Fresh, world
<1>6. CASE PersistFails(i) \/ DecisionCancelled(i) \/ BlockContinuation(i)
  <2>1. \E p \in {"failing", "ending"} : Go(i, p) \/ \E r : Finish(i, p, r)
    BY <1>6 DEF PersistFails, DecisionCancelled, BlockContinuation
  <2>2. QED
    BY <1>6, <2>1, GoerRests DEF Fresh, PersistFails, DecisionCancelled, BlockContinuation, world
<1>7. CASE DecisionStands(i) \/ ContinueLoop(i)
  <2>1. call[i].pc \in {"resumed", "resuming"} /\ \E p \in {"resuming", "loop"} : Go(i, p)
    BY <1>7 DEF DecisionStands, ContinueLoop, At
  <2>2. QED
    BY <1>7, <2>1, GoerRests DEF Fresh, DecisionStands, ContinueLoop, world
<1>8. QED
  BY <1>3, <1>4, <1>5, <1>6, <1>7

\* Whoever stops a turn or serves the queue.
LEMMA OthersRest ==
  ASSUME IInv, NEW i \in Calls, Truthful(call[i]), StopsTurn(i) \/ UsesQueue(i)
  PROVE  Others(i) /\ Rests(call'[i]) /\ did' = did
<1>1. call[i] \in CallRecord /\ call \in [Calls -> CallRecord]
  BY DEF IInv, TypeOK
<1>2. ASSUME NEW t \in Turns, StopTurn(i, t) PROVE Others(i) /\ Rests(call'[i]) /\ did' = did
  BY <1>1, <1>2 DEF StopTurn, NoCall, Others, Rests, Acts, Fresh, world
<1>3. ASSUME NEW t \in Turns, ReconcileStoppedTurn(i, t) PROVE Others(i) /\ Rests(call'[i]) /\ did' = did
  BY <1>1, <1>3 DEF ReconcileStoppedTurn, At, CallRecord, Others, Rests, Acts, Truthful, Fresh, world
<1>4. CASE Observe(i)
  <2>1. PICK sure \in BOOLEAN : call' = [call EXCEPT ![i].pc = "settle", ![i].sure = sure]
    BY <1>4 DEF Observe
  <2>2. QED
    BY <1>1, <1>4, <2>1 DEF Observe, CallRecord, Others, Rests, Acts, Fresh
<1>5. CASE Settle(i)
  <2>1. CASE Return(i)
    BY <1>5, <2>1, ReturnerRests DEF Settle, world
  <2>2. CASE ~Return(i)
    <3>1. PICK r : call' = [call EXCEPT ![i] = [call[i] EXCEPT !.pc = "ending", !.result = r]]
      BY <1>5, <2>2 DEF Settle
    <3>2. QED
      BY <1>1, <1>5, <3>1 DEF Settle, CallRecord, Others, Rests, Acts, Fresh, world
  <2>3. QED
    BY <2>1, <2>2
<1>6. ASSUME NEW m \in Messages, QueueSteer(i, m) PROVE Others(i) /\ Rests(call'[i]) /\ did' = did
  BY <1>1, <1>6 DEF QueueSteer, At, CallRecord, Others, Rests, Acts, Fresh, Truthful, world
<1>7. ASSUME NEW m \in Messages, DrainOneQueued(i, m) PROVE Others(i) /\ Rests(call'[i]) /\ did' = did
  BY <1>1, <1>7 DEF DrainOneQueued, At, CallRecord, Others, Rests, Acts, Truthful, Fresh, world
<1>8. CASE SteerTooLate(i) \/ ReportRefusal(i) \/ ReportTurn(i)
  BY <1>8, ReturnerRests DEF SteerTooLate, ReportRefusal, ReportTurn, world
<1>9. CASE DrainRefused(i)
  BY <1>9, GoerRests DEF DrainRefused, Fresh, world
<1>10. QED
  BY <1>2, <1>3, <1>4, <1>5, <1>6, <1>7, <1>8, <1>9 DEF StopsTurn, UsesQueue

\* A decision is claimed before its effect is carried out, and what the tool
\* returns says whether it was.
LEMMA ActorsAreTruthful ==
  ASSUME IInv, AttemptInv, NEW i \in Calls, \A j \in Calls : Truthful(call[j]),
         \/ \E decision \in {"executing", "denied"} : ClaimApprovalDecision(i, decision)
         \/ CarryOut(i)
         \/ \E result \in {"executed", "failed", "uncertain"} : ToolReturns(i, result)
  PROVE  \A j \in Calls : Truthful(call[j])'
<1>1. call[i] \in CallRecord /\ call \in [Calls -> CallRecord]
  BY DEF IInv, TypeOK
<1>2. ASSUME NEW decision \in {"executing", "denied"}, ClaimApprovalDecision(i, decision)
      PROVE  \A j \in Calls : Truthful(call[j])'
  <2>1. did' = did /\ ~call[i].acted
    BY <1>2 DEF ClaimApprovalDecision, world, At, Truthful, Fresh
  <2>2. CASE Finish(i, "tool", "none") \/ Finish(i, "receipt", "denied")
    <3>1. /\ Others(i) /\ ~call'[i].acted
          /\ call'[i].pc = "receipt" => call'[i].result = "denied"
      <4>1. CASE Finish(i, "tool", "none")
        <5>1. Others(i) /\ call'[i].acted = call[i].acted /\ call'[i].pc = "tool"
          BY <4>1, GoerKnows
        <5>2. QED
          BY <2>1, <5>1
      <4>2. CASE Finish(i, "receipt", "denied")
        <5>1. Others(i) /\ call'[i].acted = call[i].acted /\ call'[i].result = "denied"
          BY <4>2, GoerKnows, FinisherTells
        <5>2. QED
          BY <2>1, <5>1
      <4>3. QED
        BY <2>2, <4>1, <4>2
    <3>2. QED
      BY <2>1, <3>1 DEF Truthful, Others, Acts
  <2>3. CASE Go(i, "failing") \/ Go(i, "ending")
    BY <2>1, <2>3, GoerRests, RestIsTruthful DEF Fresh
  <2>4. QED
    BY <1>2, <2>2, <2>3 DEF ClaimApprovalDecision
<1>3. CASE CarryOut(i)
  <2>1. /\ call[i].pc = "tool" /\ ~call[i].acted /\ call[i].approval \in Approvals
        /\ did[call[i].approval] = 0 /\ did \in [Approvals -> Nat]
        /\ \A j \in Calls : j # i /\ Acts(call[j]) => call[j].approval # call[i].approval
    BY <1>3, AsksAreTyped, ApprovalsAreRows DEF CarryOut, At, Asks, Acts, ClaimStands
  <2>2. /\ call'[i].acted /\ call'[i].pc = "tool" /\ call'[i].approval = call[i].approval /\ Others(i)
        /\ did'[call[i].approval] = 1
        /\ \A a \in Approvals : a # call[i].approval => did'[a] = did[a]
    BY <1>1, <1>3, <2>1 DEF CarryOut, CallRecord, Others
  <2>3. Truthful(call[i])'
    BY <2>2 DEF Truthful, Fresh
  <2>4. ASSUME NEW j \in Calls, j # i PROVE Truthful(call[j])'
    <3>1. call'[j] = call[j] /\ (Acts(call[j]) => did'[call[j].approval] = did[call[j].approval])
      BY <2>1, <2>2, <2>4, AsksAreTyped DEF Others, Acts, Asks
    <3>2. QED
      BY <3>1 DEF Truthful, Acts
  <2>5. QED
    BY <2>3, <2>4
<1>4. ASSUME NEW result \in {"executed", "failed", "uncertain"}, ToolReturns(i, result)
      PROVE  \A j \in Calls : Truthful(call[j])'
  <2>1. /\ Others(i) /\ call'[i].acted = call[i].acted /\ call'[i].approval = call[i].approval
        /\ call'[i].pc = "receipt" /\ call'[i].result = result
    BY <1>4, GoerKnows, FinisherTells DEF ToolReturns
  <2>2. did' = did /\ call[i].pc = "tool" /\ (result = "executed" => call[i].acted)
    BY <1>4 DEF ToolReturns, At, world
  <2>3. QED
    BY <2>1, <2>2 DEF Truthful, Others, Acts, Fresh
<1>5. QED
  BY <1>2, <1>3, <1>4

LEMMA CallsStayTruthful ==
  ASSUME IInv, AttemptInv, \A i \in Calls : Truthful(call[i]), [Next]_vars
  PROVE  \A i \in Calls : Truthful(call[i])'
<1>1. ASSUME NEW i \in Calls, RunsTurn(i) PROVE \A j \in Calls : Truthful(call[j])'
  BY <1>1, RunnersRest, RestIsTruthful DEF UsesCommands, StartCommand, CancelCommand, Truthful
<1>2. ASSUME NEW i \in Calls, DecidesApproval(i) PROVE \A j \in Calls : Truthful(call[j])'
  BY <1>2, DecidersRest, ActorsAreTruthful, RestIsTruthful DEF DecidesApproval
<1>3. ASSUME NEW i \in Calls, StopsTurn(i) \/ UsesQueue(i) PROVE \A j \in Calls : Truthful(call[j])'
  BY <1>3, OthersRest, RestIsTruthful
<1>4. ASSUME \/ \E t \in Turns : CommandEnds(t)
             \/ \E m \in Messages : QueueMessage(m) \/ CancelQueuedMessage(m)
             \/ Startup \/ UNCHANGED vars
      PROVE  \A j \in Calls : Truthful(call[j])'
  <2>1. call' = call /\ did' = did
    BY <1>4 DEF CommandEnds, QueueMessage, CancelQueuedMessage, Startup, RecoverMessageQueue,
       RecoverInterruptedApprovals, RecoverInterruptedTurns, RecoverTurnControls, vars, world
  <2>2. QED
    BY <2>1 DEF Truthful, Acts
<1>5. CASE Crash
  BY <1>5, NoCallIsTruthful DEF Crash, Truthful, NoCall, Acts
<1>6. QED
  BY <1>1, <1>2, <1>3, <1>4, <1>5 DEF Next

\* A turn that has its session to work or to wait in has not ended.
HeldIsOpen == session.state \in {"running", "awaiting_approval"} => outcome[session.turn] = "open"

LEMMA HeldStaysOpen ==
  ASSUME IInv, HeldIsOpen, [Next]_vars
  PROVE  HeldIsOpen'
<1>1. outcome \in [Turns -> Outcomes] /\ session \in SessionRow /\ Free.state = "active"
  BY FreeFits DEF IInv, TypeOK
<1>2. ASSUME UNCHANGED <<session, outcome>> PROVE HeldIsOpen'
  BY <1>2 DEF HeldIsOpen
<1>3. ASSUME session'.state \notin {"running", "awaiting_approval"} PROVE HeldIsOpen'
  BY <1>3 DEF HeldIsOpen
<1>4. ASSUME NEW i \in Calls, RunsTurn(i) PROVE HeldIsOpen'
  <2>1. ASSUME NEW t \in Turns, AcquireTurn(i, t) PROVE HeldIsOpen'
    BY <1>1, <2>1 DEF AcquireTurn, Held, HeldIsOpen
  <2>2. ASSUME NEW a \in Approvals, NEW authorized \in BOOLEAN, CreateToolApproval(i, a, authorized)
        PROVE  HeldIsOpen'
    BY <2>2 DEF CreateToolApproval, Running, Held, HeldIsOpen
  <2>3. CASE CompleteTurn(i) \/ FailTurn(i)
    BY <1>1, <1>2, <1>3, <2>3 DEF CompleteTurn, FailTurn, rows
  <2>4. CASE \/ RegisterTurn(i) \/ UsesCommands(i) \/ LoopPauses(i) \/ LoopFails(i)
             \/ EndExecution(i) \/ LeaveExecution(i)
    BY <1>2, <2>4 DEF RegisterTurn, UsesCommands, StartCommand, CancelCommand, LoopPauses, LoopFails, EndExecution, LeaveExecution, rows
  <2>5. QED
    BY <1>4, <2>1, <2>2, <2>3, <2>4 DEF RunsTurn
<1>5. ASSUME NEW i \in Calls, DecidesApproval(i) PROVE HeldIsOpen'
  <2>1. CASE PersistApprovalReceipt(i)
    BY <2>1 DEF PersistApprovalReceipt, Awaiting, Held, HeldIsOpen
  <2>2. CASE BlockContinuation(i)
    BY <1>1, <1>3, <2>2 DEF BlockContinuation
  <2>3. CASE ~PersistApprovalReceipt(i) /\ ~BlockContinuation(i)
    BY <1>2, <1>5, <2>3 DEF DecidesApproval, ReadApproval, RegisterDecision, ClaimApprovalDecision, CarryOut,
       ToolReturns, PersistFails, DecisionCancelled, DecisionStands, ContinueLoop, rows
  <2>4. QED
    BY <2>1, <2>2, <2>3
<1>6. ASSUME NEW i \in Calls, StopsTurn(i) PROVE HeldIsOpen'
  <2>1. ASSUME NEW t, NEW stopped, SettleRows(t, stopped) PROVE HeldIsOpen'
    <3>1. CASE session.turn = t
      BY <1>1, <1>3, <2>1, <3>1 DEF SettleRows
    <3>2. CASE session.turn # t
      BY <1>1, <2>1, <3>2 DEF SettleRows, HeldIsOpen, SessionRow
    <3>3. QED
      BY <3>1, <3>2
  <2>2. CASE Settle(i)
    BY <1>2, <2>1, <2>2 DEF Settle, rows
  <2>3. CASE \/ \E t \in Turns : StopTurn(i, t) \/ ReconcileStoppedTurn(i, t)
             \/ Observe(i)
    BY <1>2, <2>3 DEF StopTurn, ReconcileStoppedTurn, Observe, rows
  <2>4. QED
    BY <1>6, <2>2, <2>3 DEF StopsTurn
<1>7. ASSUME NEW i \in Calls, UsesQueue(i) PROVE HeldIsOpen'
  BY <1>2, <1>7 DEF UsesQueue, QueueSteer, DrainOneQueued, SteerTooLate, DrainRefused, ReportRefusal,
     ReportTurn, rows
<1>8. CASE \/ \E t \in Turns : CommandEnds(t)
           \/ \E m \in Messages : QueueMessage(m) \/ CancelQueuedMessage(m)
           \/ Crash \/ RecoverMessageQueue \/ UNCHANGED vars
  BY <1>2, <1>8 DEF CommandEnds, QueueMessage, CancelQueuedMessage, Crash, RecoverMessageQueue, vars, rows
<1>9. CASE RecoverInterruptedApprovals \/ RecoverInterruptedTurns
  BY <1>1, <1>2, <1>3, <1>9 DEF RecoverInterruptedApprovals, RecoverInterruptedTurns
<1>10. CASE RecoverTurnControls
  <2>1. session' = session \/ session'.state = "control_blocked"
    BY <1>10 DEF RecoverTurnControls
  <2>2. outcome' = outcome
    BY <1>10 DEF RecoverTurnControls
  <2>3. QED
    BY <1>2, <1>3, <2>1, <2>2
<1>11. QED
  BY <1>4, <1>5, <1>6, <1>7, <1>8, <1>9, <1>10 DEF Next, Startup

LEMMA TruthInductive == IInv /\ AttemptInv /\ TruthInv /\ [Next]_vars => TruthInv'
  BY HeldStaysOpen, CallsStayTruthful DEF TruthInv, HeldIsOpen

-----------------------------------------------------------------------------
(* The refinement: every step is a step of the history or changes no row   *)
(* that it tells.                                                          *)

HistoryInv == IInv /\ AttemptInv /\ HoldInv /\ OrderInv /\ QuietInv /\ TruthInv

LEMMA HistoryInit == Init => History!Init
  BY FreeFits DEF Init, History!Init

\* What an idle session, and one that runs, say of the approvals.
LEMMA NothingInProgress ==
  ASSUME HistoryInv
  PROVE  /\ session.state \in {"active", "running"} \/ boot \in {"turns", "controls"} => History!InProgress = {}
         /\ session.state = "running" => History!Of(session.turn, {"pending", "executing"}) = {}
         /\ \A t \in Turns : Up /\ History!Unconfirmed(t) => session.turn = t \/ outcome[t] = "blocked"
<1>1. ClaimHoldsLease /\ OneHeld /\ UnconfirmedKeepsLease
  BY DEF HistoryInv, HoldInv, OrderInv
<1>2. session.state \in {"active", "running"} \/ boot \in {"turns", "controls"} => History!InProgress = {}
  BY <1>1 DEF ClaimHoldsLease, OneHeld, History!InProgress
<1>3. session.state = "running" => History!Of(session.turn, {"pending", "executing"}) = {}
  BY <1>1 DEF OneHeld, Current, History!Of
<1>4. \A t \in Turns : Up /\ History!Unconfirmed(t) => session.turn = t \/ outcome[t] = "blocked"
  BY <1>1 DEF UnconfirmedKeepsLease, History!Unconfirmed
<1>5. QED
  BY <1>2, <1>3, <1>4

LEMMA AcquireBegins ==
  ASSUME HistoryInv, NEW i \in Calls, NEW t \in Turns, AcquireTurn(i, t)
  PROVE  History!Begin(t)
<1>1. session.turn = None /\ session.state = "active" /\ Up /\ session'.turn = t
  BY FreeFits DEF AcquireTurn, Held
<1>2. \A u \in Turns : History!Unconfirmed(u) => outcome[u] = "blocked"
  BY <1>1, NothingInProgress, NoneIsNoTurn
<1>3. \A u \in Turns : u < t => outcome[u] # "none"
  BY TurnLeaseAssumption DEF AcquireTurn, Turns
<1>4. QED
  BY <1>1, <1>2, <1>3, NothingInProgress DEF AcquireTurn, History!Begin, world

LEMMA TurnEnds ==
  ASSUME HistoryInv, NEW t, Running(t), NEW how \in {"completed", "failed", "blocked", "interrupted"},
         how \in {"completed", "failed"} => control[t] = "none",
         session' = Free, outcome' = [outcome EXCEPT ![t] = how], UNCHANGED <<control, approval, did>>
  PROVE  t \in Turns /\ History!End(t, how)
<1>1. session.turn = t /\ session.state = "running" /\ session'.turn = None /\ t \in Turns
  BY FreeFits, HoldersAreTurns DEF Running, HistoryInv
<1>2. outcome[t] = "open"
  BY <1>1 DEF HistoryInv, TruthInv
<1>3. QED
  BY <1>1, <1>2, NothingInProgress DEF History!End

LEMMA StopAsks ==
  ASSUME HistoryInv, NEW i \in Calls, NEW t \in Turns, StopTurn(i, t)
  PROVE  History!AskToStop(t)
  BY DEF StopTurn, HistoryInv, TruthInv, History!AskToStop, world

LEMMA SettleStops ==
  ASSUME HistoryInv, NEW i \in Calls, Settle(i)
  PROVE  UNCHANGED Told \/ \E t \in Turns : History!Confirm(t) \/ History!Doubt(t)
<1> DEFINE t == Turn(i)
           stopped == call[i].sure /\ ~InDoubt(t)
<1>1. IInv /\ Up /\ t \in Turns
  BY CallIsTyped DEF HistoryInv, Settle, At, WellPlaced, Fits, Turn
<1>2. UNCHANGED rows \/ (control[t] \in {"stopping", "needs_review"} /\ SettleRows(t, stopped))
  BY DEF Settle
<1>3. did' = did
  BY DEF Settle, world
<1> HIDE DEF t
<1>4. CASE control[t] \in {"stopping", "needs_review"} /\ SettleRows(t, stopped)
  <2>1. History!Unconfirmed(t) /\ (session.turn = t \/ outcome[t] = "blocked")
    BY <1>1, <1>4, NothingInProgress DEF History!Unconfirmed
  <2>2. /\ control' = [control EXCEPT ![t] = IF stopped THEN "stopped" ELSE "needs_review"]
        /\ outcome' = [outcome EXCEPT ![t] = IF @ = "open" THEN "stopped" ELSE @]
        /\ approval' = History!Withdrawn({t})
    BY <1>4 DEF SettleRows, CancelPending, History!Withdrawn
  <2>3. CASE stopped
    <3>1. History!Stops(t, "stopped")
      BY <1>3, <2>1, <2>2, <2>3 DEF History!Stops
    <3>2. History!Of(t, {"executing", "uncertain"}) = {}
      BY <2>3 DEF InDoubt, History!Of
    <3>3. session'.turn = IF session.turn = t THEN None ELSE session.turn
      BY <1>4, <2>3, FreeFits DEF SettleRows
    <3>4. QED
      BY <1>1, <3>1, <3>2, <3>3 DEF History!Confirm
  <2>4. CASE ~stopped
    <3>1. History!Stops(t, "needs_review")
      BY <1>3, <2>1, <2>2, <2>4 DEF History!Stops
    <3>2. session'.turn = session.turn
      BY <1>4, <2>4 DEF SettleRows
    <3>3. QED
      BY <1>1, <3>1, <3>2 DEF History!Doubt
  <2>5. QED
    BY <2>3, <2>4
<1>5. QED
  BY <1>2, <1>3, <1>4 DEF rows, Told

LEMMA CreateProposes ==
  ASSUME HistoryInv, NEW i \in Calls, NEW a \in Approvals, NEW authorized \in BOOLEAN,
         CreateToolApproval(i, a, authorized)
  PROVE  \E t \in Turns : History!Propose(a, t)
<1> DEFINE t == Turn(i)
<1>1. session.turn = t /\ session.state = "running" /\ session'.turn = t /\ t \in Turns
  BY HoldersAreTurns DEF CreateToolApproval, Running, Held, HistoryInv
<1>2. outcome[t] = "open"
  BY <1>1 DEF HistoryInv, TruthInv
<1>3. History!Propose(a, t)
  BY <1>1, <1>2, NothingInProgress DEF CreateToolApproval, History!Propose, world
<1>4. QED
  BY <1>1, <1>3

LEMMA ClaimDecides ==
  ASSUME HistoryInv, NEW i \in Calls, NEW decision \in {"executing", "denied"},
         ClaimApprovalDecision(i, decision)
  PROVE  UNCHANGED Told \/ \E a \in Approvals : History!Decide(a, decision)
<1> DEFINE a == call[i].approval
<1>1. call[i].pc = "claim" /\ a \in Approvals
  BY AsksAreTyped DEF HistoryInv, ClaimApprovalDecision, At, Asks
<1>2. CASE Asked(i).state = "pending" /\ control[Turn(i)] = "none"
  <2>1. approval[a].state = "pending" /\ session.turn = approval[a].turn /\ control[session.turn] = "none"
    BY <1>1, <1>2 DEF HistoryInv, HoldInv, AskFits, Asks, Asked, Turn
  <2>2. History!Decide(a, decision)
    BY <1>2, <2>1 DEF ClaimApprovalDecision, Decided, History!Decide, world
  <2>3. QED
    BY <1>1, <2>2
<1>3. CASE ~(Asked(i).state = "pending" /\ control[Turn(i)] = "none")
  BY <1>3 DEF ClaimApprovalDecision, Told, world
<1>4. QED
  BY <1>2, <1>3

LEMMA CarriesOut ==
  ASSUME HistoryInv, NEW i \in Calls, CarryOut(i)
  PROVE  \E a \in Approvals : History!CarryOut(a)
<1> DEFINE a == call[i].approval
<1>1. a \in Approvals /\ approval[a].state = "executing" /\ did[a] = 0
  BY AsksAreTyped DEF HistoryInv, CarryOut, At, Asks, ClaimStands
<1>2. session.turn = approval[a].turn
  BY <1>1 DEF HistoryInv, HoldInv, ClaimHoldsLease
<1>3. did' = [did EXCEPT ![a] = 1]
  BY <1>1 DEF CarryOut, HistoryInv, IInv, TypeOK
<1>4. History!CarryOut(a)
  BY <1>1, <1>2, <1>3 DEF CarryOut, History!CarryOut, rows
<1>5. QED
  BY <1>1, <1>4

LEMMA ReceiptReports ==
  ASSUME HistoryInv, NEW i \in Calls, PersistApprovalReceipt(i)
  PROVE  \/ UNCHANGED Told
         \/ \E a \in Approvals : \E result \in {"executed", "failed", "uncertain"} : History!Report(a, result)
<1> DEFINE a == call[i].approval
           result == call[i].result
<1>1. call[i].pc = "receipt" /\ a \in Approvals /\ Acts(call[i])
  BY AsksAreTyped DEF HistoryInv, PersistApprovalReceipt, At, Asks, Acts
<1>2. result \in {"executed", "failed", "uncertain", "denied"}
  BY <1>1, CallIsTyped DEF HistoryInv, WellPlaced, Fits
<1>3. session'.turn = session.turn /\ approval' = [approval EXCEPT ![a].state = result]
  BY DEF PersistApprovalReceipt, Awaiting, Held, Decided
<1>4. CASE result = "denied"
  <2>1. approval[a].state = "denied" /\ approval \in [Approvals -> ApprovalRow]
    BY <1>4, ApprovalsAreRows, <1>1 DEF PersistApprovalReceipt, Asked, HistoryInv
  <2>2. [approval[a] EXCEPT !.state = "denied"] = approval[a]
    BY <1>1, <2>1 DEF ApprovalRow
  <2>3. approval' = approval
    BY <1>1, <1>3, <1>4, <2>1, <2>2
  <2>4. QED
    BY <1>3, <2>3 DEF PersistApprovalReceipt, Told, world
<1>5. CASE result # "denied"
  <2>1. approval[a].state = "executing"
    BY <1>5 DEF PersistApprovalReceipt, Asked
  <2>2. session.turn = approval[a].turn
    BY <1>1, <2>1 DEF HistoryInv, HoldInv, ClaimHoldsLease
  <2>3. result = "executed" => did[a] = 1
    BY <1>1 DEF HistoryInv, TruthInv, Truthful
  <2>4. History!Report(a, result)
    BY <1>3, <2>1, <2>2, <2>3 DEF PersistApprovalReceipt, History!Report, world
  <2>5. QED
    BY <1>1, <1>2, <1>5, <2>4
<1>6. QED
  BY <1>4, <1>5
\* The statement of startup that looks at claims finds at most one.
LEMMA RecoveryLoses ==
  ASSUME HistoryInv, RecoverInterruptedApprovals
  PROVE  \/ UNCHANGED Told
         \/ \E a \in Approvals : \E verdict \in {"executed", "pending", "uncertain"} : History!Lose(a, verdict)
<1>1. approval \in [Approvals -> ApprovalRow] /\ did \in [Approvals -> Nat]
  BY DEF HistoryInv, IInv, TypeOK
<1>2. PICK verdict \in [Interrupted -> {"executed", "pending", "uncertain"}] :
        /\ \A a \in Interrupted : verdict[a] \in Verdict(a)
        /\ approval' = [a \in Approvals |-> IF a \in Interrupted
                          THEN [approval[a] EXCEPT !.state = verdict[a]] ELSE approval[a]]
  BY DEF RecoverInterruptedApprovals
<1>3. UNCHANGED <<control, outcome, did>>
  BY DEF RecoverInterruptedApprovals, world
<1>4. CASE Interrupted = {}
  <2>1. approval' = approval
    BY <1>1, <1>2, <1>4
  <2>2. QED
    BY <1>3, <1>4, <2>1 DEF RecoverInterruptedApprovals, Told
<1>5. CASE Interrupted # {}
  <2>1. PICK a \in Interrupted : TRUE
    BY <1>5
  <2>2. ASSUME NEW b \in Interrupted PROVE b = a
    BY <2>1, <2>2 DEF Interrupted, HistoryInv, HoldInv, ClaimHoldsLease, OneHeld, Current
  <2>3. Interrupted = {a} /\ History!InProgress = {a} /\ a \in Approvals
    BY <2>1, <2>2 DEF Interrupted, History!InProgress
  <2>4. approval' = [approval EXCEPT ![a].state = verdict[a]]
    BY <1>1, <1>2, <2>3
  <2>5. did[a] \in {0, 1}
    BY <1>1, <2>3 DEF HistoryInv, AttemptInv, OneAttempt
  <2>6. /\ verdict[a] \in {"executed", "pending", "uncertain"}
        /\ verdict[a] = "executed" => did[a] = 1
        /\ verdict[a] = "pending" => did[a] = 0
    BY <1>2, <2>1, <2>5 DEF Verdict
  <2>7. session'.turn = None
    BY <1>5, FreeFits DEF RecoverInterruptedApprovals
  <2>8. History!Lose(a, verdict[a])
    BY <1>3, <2>3, <2>4, <2>6, <2>7 DEF History!Lose
  <2>9. QED
    BY <2>3, <2>6, <2>8
<1>6. QED
  BY <1>4, <1>5

\* The last statement of startup takes the session back, or finds no stop to
\* confirm; what waits for a decision in a turn that has stopped was withdrawn.
LEMMA RecoveryReclaims ==
  ASSUME HistoryInv, RecoverTurnControls
  PROVE  UNCHANGED Told \/ \E t \in Turns : History!Reclaim(t)
<1> DEFINE unsettled == {t \in Turns : control'[t] = "needs_review"}
           latest == CHOOSE t \in unsettled : \A u \in unsettled : u <= t
<1>1. /\ control' = [t \in Turns |-> IF control[t] = "stopping" THEN "needs_review" ELSE control[t]]
      /\ session' = IF unsettled = {} THEN session ELSE [state |-> "control_blocked", turn |-> latest]
      /\ approval' = History!Withdrawn({t \in Turns : control[t] # "none"})
      /\ UNCHANGED <<outcome, did>> /\ boot = "controls"
  BY DEF RecoverTurnControls, CancelPending, History!Withdrawn, world
<1>2. \A t \in Turns : t \in unsettled <=> History!Unconfirmed(t)
  BY <1>1 DEF History!Unconfirmed
<1>3. /\ approval \in [Approvals -> ApprovalRow]
      /\ control \in [Turns -> {"none", "stopping", "needs_review", "stopped"}]
  BY DEF HistoryInv, IInv, TypeOK
<1> HIDE DEF latest
<1>4. CASE unsettled = {}
  <2>1. \A t \in Turns : control[t] \in {"none", "stopped"}
    BY <1>2, <1>3, <1>4 DEF History!Unconfirmed
  <2>2. control' = control
    BY <1>1, <1>3, <2>1
  <2>3. \A a \in Approvals : approval[a].state = "pending" => approval[a].turn \notin {t \in Turns : control[t] # "none"}
    BY <2>1 DEF HistoryInv, QuietInv, StoppedRows
  <2>4. approval' = approval
    BY <1>1, <1>3, <2>3 DEF History!Withdrawn
  <2>5. QED
    BY <1>1, <1>4, <2>2, <2>4 DEF Told
<1>5. CASE unsettled # {}
  <2>1. latest \in unsettled /\ \A u \in unsettled : u <= latest
    BY <1>5, LatestTurn DEF latest
  <2>2. session'.turn = latest
    BY <1>1, <1>5
  <2>3. History!Unconfirmed(latest) /\ \A u \in Turns : History!Unconfirmed(u) => u <= latest
    BY <1>2, <2>1
  <2>4. History!InProgress = {}
    BY <1>1, NothingInProgress
  <2>5. History!Reclaim(latest)
    BY <1>1, <2>2, <2>3, <2>4 DEF History!Reclaim
  <2>6. QED
    BY <2>1, <2>5
<1>6. QED
  BY <1>4, <1>5

LEMMA HistoryStep == HistoryInv /\ [Next]_vars => [History!Next]_(History!history)
<1> SUFFICES ASSUME HistoryInv, [Next]_vars PROVE UNCHANGED Told \/ History!Next
  BY DEF Told, History!history
<1>1. ASSUME NEW i \in Calls, RunsTurn(i) PROVE UNCHANGED Told \/ History!Next
  <2>1. ASSUME NEW t \in Turns, AcquireTurn(i, t) PROVE History!Next
    BY <2>1, AcquireBegins DEF History!Next
  <2>2. ASSUME NEW a \in Approvals, NEW authorized \in BOOLEAN, CreateToolApproval(i, a, authorized)
        PROVE  History!Next
    BY <2>2, CreateProposes DEF History!Next
  <2>3. CASE CompleteTurn(i)
    <3>1. Turn(i) \in Turns /\ History!End(Turn(i), "completed")
      BY <2>3, TurnEnds DEF CompleteTurn, world
    <3>2. QED
      BY <3>1 DEF History!Next
  <2>4. CASE FailTurn(i)
    <3>1. CASE UNCHANGED rows
      BY <2>4, <3>1 DEF FailTurn, rows, world, Told
    <3>2. CASE ~UNCHANGED rows
      <4>1. Turn(i) \in Turns /\ History!End(Turn(i), "failed")
        BY <2>4, <3>2, TurnEnds DEF FailTurn, world
      <4>2. QED
        BY <4>1 DEF History!Next
    <3>3. QED
      BY <3>1, <3>2
  <2>5. CASE \/ RegisterTurn(i) \/ UsesCommands(i) \/ LoopPauses(i) \/ LoopFails(i)
             \/ EndExecution(i) \/ LeaveExecution(i)
    BY <2>5 DEF RegisterTurn, UsesCommands, StartCommand, CancelCommand, LoopPauses, LoopFails, EndExecution, LeaveExecution,
       rows, world, Told
  <2>6. QED
    BY <1>1, <2>1, <2>2, <2>3, <2>4, <2>5 DEF RunsTurn
<1>2. ASSUME NEW i \in Calls, DecidesApproval(i) PROVE UNCHANGED Told \/ History!Next
  <2>1. ASSUME NEW decision \in {"executing", "denied"}, ClaimApprovalDecision(i, decision)
        PROVE  UNCHANGED Told \/ History!Next
    BY <2>1, ClaimDecides DEF History!Next
  <2>2. CASE CarryOut(i)
    BY <2>2, CarriesOut DEF History!Next
  <2>3. CASE PersistApprovalReceipt(i)
    BY <2>3, ReceiptReports DEF History!Next
  <2>4. CASE BlockContinuation(i)
    <3>1. Turn(i) \in Turns /\ History!End(Turn(i), "blocked")
      BY <2>4, TurnEnds DEF BlockContinuation, world
    <3>2. QED
      BY <3>1 DEF History!Next
  <2>5. CASE \/ \E a \in Approvals : ReadApproval(i, a)
             \/ RegisterDecision(i)
             \/ \E result \in {"executed", "failed", "uncertain"} : ToolReturns(i, result)
             \/ PersistFails(i) \/ DecisionCancelled(i) \/ DecisionStands(i) \/ ContinueLoop(i)
    BY <2>5 DEF ReadApproval, RegisterDecision, ToolReturns, PersistFails, DecisionCancelled,
       DecisionStands, ContinueLoop, rows, world, Told
  <2>6. QED
    BY <1>2, <2>1, <2>2, <2>3, <2>4, <2>5 DEF DecidesApproval
<1>3. ASSUME NEW i \in Calls, StopsTurn(i) \/ UsesQueue(i) PROVE UNCHANGED Told \/ History!Next
  <2>1. ASSUME NEW t \in Turns, StopTurn(i, t) PROVE History!Next
    BY <2>1, StopAsks DEF History!Next
  <2>2. CASE Settle(i)
    BY <2>2, SettleStops DEF History!Next
  <2>3. CASE Observe(i) \/ \E t \in Turns : ReconcileStoppedTurn(i, t)
    BY <2>3 DEF ReconcileStoppedTurn, Observe, rows, world, Told
  <2>4. CASE UsesQueue(i)
    BY <2>4 DEF UsesQueue, QueueSteer, DrainOneQueued, SteerTooLate, DrainRefused, ReportRefusal,
       ReportTurn, rows, world, Told
  <2>5. QED
    BY <1>3, <2>1, <2>2, <2>3, <2>4 DEF StopsTurn
<1>4. CASE \/ \E t \in Turns : CommandEnds(t)
           \/ \E m \in Messages : QueueMessage(m) \/ CancelQueuedMessage(m)
           \/ Crash \/ RecoverMessageQueue \/ UNCHANGED vars
  BY <1>4 DEF CommandEnds, QueueMessage, CancelQueuedMessage, Crash, RecoverMessageQueue, vars, rows, world, Told
<1>5. CASE RecoverInterruptedApprovals
  BY <1>5, RecoveryLoses DEF History!Next
<1>6. CASE RecoverInterruptedTurns
  <2>1. CASE session.state = "running"
    <3>1. Running(session.turn)
      BY <2>1 DEF Running, HistoryInv, IInv, TypeOK, SessionRow
    <3>2. session.turn \in Turns /\ History!End(session.turn, "interrupted")
      BY <1>6, <2>1, <3>1, TurnEnds DEF RecoverInterruptedTurns, world
    <3>3. QED
      BY <3>2 DEF History!Next
  <2>2. CASE session.state # "running"
    BY <1>6, <2>2 DEF RecoverInterruptedTurns, world, Told
  <2>3. QED
    BY <2>1, <2>2
<1>7. CASE RecoverTurnControls
  BY <1>7, RecoveryReclaims DEF History!Next
<1>8. QED
  BY <1>1, <1>2, <1>3, <1>4, <1>5, <1>6, <1>7 DEF Next, Startup

\* Whatever the calls and the recovery do, in whatever order, what the rows of
\* a session tell is a history: its turns one at a time, each ended once, a stop
\* that is asked for the only way left to end, and every effect carried out at
\* most once, under a claim of the turn that has the session.
THEOREM TheHistoryIsFollowed == Spec => FollowsHistory
<1>1. Init => OrderInv /\ QuietInv /\ TruthInv
  <2> SUFFICES ASSUME Init PROVE OrderInv /\ QuietInv /\ TruthInv
    OBVIOUS
  <2>1. /\ \A i \in Calls : call[i] = NoCall
        /\ session = Free /\ Up /\ \A t \in Turns : control[t] = "none"
    BY DEF Init, Up
  <2>2. NoCall.pc = "idle" /\ NoCall.op = "none"
    BY DEF NoCall
  <2>3. OrderInv
    BY FreeFits DEF Init, OrderInv, Latest, Unsettled, UnconfirmedKeepsLease
  <2>4. QuietInv
    BY <2>1, <2>2, FreeFits DEF Init, QuietInv, StoppedRows, Carried, Looked
  <2>5. TruthInv
    BY <2>1, NoCallIsTruthful, FreeFits DEF TruthInv
  <2>6. QED
    BY <2>3, <2>4, <2>5
<1>2. Spec => []HistoryInv
  BY <1>1, StopsStart, AttemptsInductive, HoldsInductive, OrderInductive, RegistryInductive, QuietInductive,
     TruthInductive, Invariance, PTL DEF Spec, HistoryInv
<1>3. Spec => History!Init /\ [][History!Next]_(History!history)
  BY <1>2, HistoryInit, HistoryStep, PTL DEF Spec
<1>4. QED
  BY <1>3 DEF FollowsHistory, History!Spec
=============================================================================
