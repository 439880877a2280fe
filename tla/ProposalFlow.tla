---------------------------- MODULE ProposalFlow ----------------------------
(***************************************************************************)
(* The life of one approved code proposal in the project's files: Apply,   *)
(* Verify and Review of the task coordinator, the rollbacks they make, and *)
(* the interruptions, crashes and outside edits that fall between their    *)
(* steps.                                                                  *)
(*                                                                         *)
(* Nothing keeps two calls apart: a call is a goroutine that reads the     *)
(* proposal and goes on from what it read.  Every SQL statement or         *)
(* transaction is one action, and so is every file written and every       *)
(* section under the project's root lock.  The step has one frozen check,  *)
(* which stands for all of them, and its plan has this one step.           *)
(***************************************************************************)
EXTENDS Naturals, Sequences

CONSTANTS
  Calls,       \* calls made in the life of the proposal; each slot is used once
  Files,       \* the files the proposal changes
  MaxLeases, MaxEdits, MaxStops \* bounds: run leases, outside edits, crashes

None == "none"

ASSUME ProposalFlowAssumption ==
  None \notin Calls /\ MaxLeases \in Nat \ {0} /\ MaxEdits \in Nat /\ MaxStops \in Nat

VARIABLES
  proposal, \* its state in task_code_proposals
  verdicts, \* the provider verdicts in task_code_reviews, in order
  source,   \* source[f]: "before" or "after" the change, or edited by somebody else
  rootLock, \* the call that holds the root lock of the project, or None
  lease,    \* state of the run and number of its lease
  rows,     \* states of the attempt, its step and its task
  flow,     \* flow[i]: where call i stands, its effect and what it has in hand
  edits, stops

proposalRows == <<proposal, verdicts, lease, rows>>
outer == <<edits, stops>>
proposalVars == <<proposal, verdicts, source, rootLock, lease, rows, flow, edits, stops>>

OpenEffects == {"planned", "dispatched", "uncertain"}
Everywhere(content) == \A f \in Files : source[f] = content

\* The lease, run, attempt, step and task checks of every operation that needs authority.
Authorised(i) == /\ lease = [state |-> "running", number |-> flow[i].lease]
                 /\ rows = [attempt |-> "running", step |-> "running", task |-> "running"]

Stands(i, pc) == flow[i].pc = pc
Continue(i, pc) == flow' = [flow EXCEPT ![i].pc = pc]
Hand(i, pc, outcome) == flow' = [flow EXCEPT ![i].pc = pc, ![i].outcome = outcome]
Unlock(i) == rootLock' = IF rootLock = i THEN None ELSE rootLock
\* A call returns, with an error or not, and its deferred unlock runs.
Leave(i) == Continue(i, "done") /\ Unlock(i)

Start(i, op, pc) ==
  /\ Stands(i, "idle")
  /\ flow' = [flow EXCEPT ![i] = [@ EXCEPT !.op = op, !.pc = pc, !.lease = lease.number]]
  /\ UNCHANGED <<proposalRows, source, rootLock, outer>>

-----------------------------------------------------------------------------
(* The effect every call plans, dispatches and observes.                   *)

PlanCallEffect(i) ==
  /\ Stands(i, "plan")
  /\ IF Authorised(i)
       THEN flow' = [flow EXCEPT ![i].effect = "planned",
                                 ![i].pc = IF flow[i].op = "apply" THEN "begin" ELSE "dispatch"]
       ELSE Continue(i, "done")
  /\ UNCHANGED <<proposalRows, source, rootLock, outer>>

\* A refused dispatch leaves the intent of an apply or a check planned.
DispatchCallEffect(i) ==
  /\ Stands(i, "dispatch")
  /\ IF Authorised(i) /\ flow[i].effect = "planned"
       THEN flow' = [flow EXCEPT ![i].effect = "dispatched",
                                 ![i].pc = CASE flow[i].op = "apply" -> "write"
                                             [] flow[i].op = "verify" -> "run"
                                             [] flow[i].op = "review" -> "ask"]
       ELSE flow' = [flow EXCEPT ![i].pc = CASE flow[i].op = "apply" -> "conclude"
                                             [] flow[i].op = "verify" -> "done"
                                             [] flow[i].op = "review" -> "abandon",
                                 ![i].outcome = "clean"]
  /\ UNCHANGED <<proposalRows, source, rootLock, outer>>

AbandonCallEffect(i) ==
  /\ Stands(i, "abandon")
  /\ flow' = [flow EXCEPT ![i].effect = IF @ = "planned" THEN "abandoned" ELSE @, ![i].pc = "done"]
  /\ UNCHANGED <<proposalRows, source, rootLock, outer>>

\* What follows a receipt.  Only some callers mind when it is refused.
AfterReceipt(i, saved) ==
  CASE flow[i].outcome \in {"clean", "dirty"} -> "conclude"
    [] flow[i].outcome = "written" /\ saved -> "conclude"
    [] flow[i].outcome = "unlaunched" -> "restore"
    [] flow[i].outcome \in {"pass", "fail"} -> "reguard"
    [] flow[i].outcome = "approve" /\ saved -> "complete"
    [] flow[i].outcome = "reject" /\ saved -> "restore"
    [] OTHER -> "done"

ObserveCallEffect(i) ==
  /\ Stands(i, "receipt")
  /\ LET saved == flow[i].effect = "dispatched"
         next == AfterReceipt(i, saved)
     IN  /\ flow' = [flow EXCEPT ![i].effect = IF saved THEN "observed" ELSE @, ![i].pc = next,
                                 ![i].todo = IF next = "restore" THEN Files ELSE @]
         /\ IF next = "done" THEN Unlock(i) ELSE UNCHANGED rootLock
  /\ UNCHANGED <<proposalRows, source, outer>>

-----------------------------------------------------------------------------
(* Apply.                                                                  *)

StartApply(i) == proposal = "approved" /\ Everywhere("before") /\ Start(i, "apply", "plan")

BeginCodeProposalApply(i) ==
  /\ Stands(i, "begin")
  /\ IF proposal = "approved" THEN proposal' = "applying" /\ Continue(i, "dispatch")
                              ELSE UNCHANGED proposal /\ Continue(i, "abandon")
  /\ UNCHANGED <<verdicts, lease, rows, source, rootLock, outer>>

\* The batch holds its locks from the check of every preimage to its end.
LockBatch(i) ==
  /\ Stands(i, "write") /\ rootLock = None
  /\ IF Everywhere("before")
       THEN /\ rootLock' = i
            /\ flow' = [flow EXCEPT ![i].pc = "writing", ![i].todo = Files]
       ELSE UNCHANGED rootLock /\ Hand(i, "receipt", "clean")
  /\ UNCHANGED <<proposalRows, source, outer>>

WriteFile(i, f) ==
  /\ Stands(i, "writing") /\ f \in flow[i].todo /\ source[f] = "before"
  /\ source' = [source EXCEPT ![f] = "after"]
  /\ IF flow[i].todo = {f} THEN Hand(i, "receipt", "written") /\ Unlock(i)
     ELSE UNCHANGED rootLock /\ flow' = [flow EXCEPT ![i].todo = @ \ {f}]
  /\ UNCHANGED <<proposalRows, outer>>

\* Any failure: what was written is to be undone.
WriteFails(i) ==
  /\ Stands(i, "writing")
  /\ flow' = [flow EXCEPT ![i].pc = "undo", ![i].todo = Files \ @, ![i].outcome = "clean"]
  /\ UNCHANGED <<proposalRows, source, rootLock, outer>>

\* Mutant: the batch reports a complete rollback whatever became of each file.
UndoSilently(i, f) ==
  /\ Stands(i, "undo") /\ f \in flow[i].todo
  /\ \/ source[f] = "after" /\ source' = [source EXCEPT ![f] = "before"]
     \/ UNCHANGED source
  /\ flow' = [flow EXCEPT ![i].todo = @ \ {f}]
  /\ UNCHANGED <<proposalRows, rootLock, outer>>

\* A file that changed since, or cannot be restored, makes the rollback incomplete.
UndoFile(i, f) ==
  /\ Stands(i, "undo") /\ f \in flow[i].todo
  /\ \/ /\ source[f] = "after"
        /\ source' = [source EXCEPT ![f] = "before"]
        /\ flow' = [flow EXCEPT ![i].todo = @ \ {f}]
     \/ flow' = [flow EXCEPT ![i].todo = @ \ {f}, ![i].outcome = "dirty"] /\ UNCHANGED source
  /\ UNCHANGED <<proposalRows, rootLock, outer>>

EndUndo(i) ==
  /\ Stands(i, "undo") /\ flow[i].todo = {}
  /\ Continue(i, "receipt") /\ Unlock(i)
  /\ UNCHANGED <<proposalRows, source, outer>>

ConcludeApply(i) ==
  /\ Stands(i, "conclude")
  /\ proposal' = IF proposal # "applying" THEN proposal
                 ELSE IF flow[i].outcome = "written" THEN "applied" ELSE "apply_failed"
  /\ Continue(i, "done")
  /\ UNCHANGED <<verdicts, lease, rows, source, rootLock, outer>>

-----------------------------------------------------------------------------
(* Verify.                                                                 *)

StartVerify(i) ==
  /\ proposal = "applied" /\ rows.step = "running" /\ Everywhere("after")
  /\ Start(i, "verify", "guard")

\* The snapshot holds before the check runs; nothing is held while it does.
GuardCheck(i) ==
  /\ Stands(i, "guard") /\ rootLock = None
  /\ Continue(i, IF Everywhere("after") THEN "plan" ELSE "done")
  /\ UNCHANGED <<proposalRows, source, rootLock, outer>>

\* StartCommand and waitJob.  A request that is cancelled leaves the effect as it is.
RunCheck(i) ==
  /\ Stands(i, "run")
  /\ \/ \E outcome \in {"unlaunched", "pass", "fail"} : Hand(i, "receipt", outcome)
     \/ Continue(i, "done")
  /\ UNCHANGED <<proposalRows, source, rootLock, outer>>

GuardEvidence(i) ==
  /\ Stands(i, "reguard") /\ rootLock = None
  /\ IF ~Everywhere("after") THEN Continue(i, "done")
     ELSE IF flow[i].outcome = "pass" THEN Continue(i, "finish")
     ELSE flow' = [flow EXCEPT ![i].pc = "restore", ![i].todo = Files]
  /\ UNCHANGED <<proposalRows, source, rootLock, outer>>

\* Mutant: the evidence is bound without looking at the files again.
FinishUnguarded(i) ==
  /\ Stands(i, "finish") /\ rootLock = None
  /\ rootLock' = i /\ Continue(i, "bind")
  /\ UNCHANGED <<proposalRows, source, outer>>

FinishVerification(i) ==
  /\ Stands(i, "finish") /\ rootLock = None
  /\ IF Everywhere("after") THEN rootLock' = i /\ Continue(i, "bind")
                            ELSE UNCHANGED rootLock /\ Continue(i, "done")
  /\ UNCHANGED <<proposalRows, source, outer>>

BindCodeProposalVerification(i) ==
  /\ Stands(i, "bind")
  /\ proposal' = IF proposal = "applied" THEN "awaiting_post_review" ELSE proposal
  /\ Leave(i)
  /\ UNCHANGED <<verdicts, lease, rows, source, outer>>

-----------------------------------------------------------------------------
(* A check or a review fails: failVerification, and the end of Review.     *)

\* rollbackProposal takes the locks of one file at a time and restores what the
\* proposal wrote, whatever the proposal's state is by now.
RestoreFile(i, f) ==
  /\ Stands(i, "restore") /\ f \in flow[i].todo /\ rootLock = None
  /\ \/ source[f] = "after" /\ source' = [source EXCEPT ![f] = "before"]
     \/ UNCHANGED source
  /\ flow' = [flow EXCEPT ![i].todo = @ \ {f}, ![i].pc = IF flow[i].todo = {f} THEN "close" ELSE @]
  /\ UNCHANGED <<proposalRows, rootLock, outer>>

CloseProposal(i) ==
  /\ Stands(i, "close")
  /\ proposal' = CASE flow[i].op = "verify" /\ proposal = "applied" -> "verification_failed"
                   [] flow[i].op = "review" /\ proposal = "awaiting_post_review" -> "post_review_rejected"
                   [] OTHER -> proposal
  /\ Continue(i, "failattempt")
  /\ UNCHANGED <<verdicts, lease, rows, source, rootLock, outer>>

FailCallAttempt(i) ==
  /\ Stands(i, "failattempt")
  /\ IF rows.attempt = "running"
       THEN /\ rows' = [rows EXCEPT !.attempt = "failed"]
            /\ lease' = [lease EXCEPT !.state = IF @ = "running" THEN "failed" ELSE @]
       ELSE UNCHANGED <<rows, lease>>
  /\ Continue(i, "failstep")
  /\ UNCHANGED <<proposal, verdicts, source, rootLock, outer>>

\* FailStep takes the step from any state, with revisions it has just read: when
\* they are stale by then nothing happens.  RecordConfirmedFailure may pause the task.
FailCallStep(i) ==
  /\ Stands(i, "failstep")
  /\ \/ rows' = [rows EXCEPT !.step = "failed", !.task = "paused"]
     \/ rows.attempt = "failed" /\ rows' = [rows EXCEPT !.task = "paused"]
     \/ UNCHANGED rows
  /\ Continue(i, "done")
  /\ UNCHANGED <<proposal, verdicts, lease, source, rootLock, outer>>

-----------------------------------------------------------------------------
(* Review.                                                                 *)

StartReview(i) ==
  /\ proposal = "awaiting_post_review" /\ rows.step = "running"
  /\ Start(i, "review", "look")

\* A saved approval is finalised under the locks; a saved rejection is refused.
LookForVerdict(i) ==
  /\ Stands(i, "look") /\ rootLock = None
  /\ IF Everywhere("after") /\ verdicts = <<>> THEN UNCHANGED rootLock /\ Continue(i, "plan")
     ELSE IF Everywhere("after") /\ verdicts[Len(verdicts)] = "approve"
            THEN rootLock' = i /\ Hand(i, "complete", "approve")
            ELSE UNCHANGED rootLock /\ Continue(i, "done")
  /\ UNCHANGED <<proposalRows, source, outer>>

ProviderAnswers(i) ==
  /\ Stands(i, "ask")
  /\ \/ \E verdict \in {"approve", "reject"} : Hand(i, "accept", verdict)
     \/ Hand(i, "receipt", "unanswered")
  /\ UNCHANGED <<proposalRows, source, rootLock, outer>>

\* An approval keeps the locks until the call returns.
AcceptVerdict(i) ==
  /\ Stands(i, "accept") /\ rootLock = None
  /\ IF Everywhere("after")
       THEN /\ rootLock' = IF flow[i].outcome = "approve" THEN i ELSE None
            /\ Continue(i, "record")
       ELSE UNCHANGED rootLock /\ Hand(i, "receipt", "stale")
  /\ UNCHANGED <<proposalRows, source, outer>>

\* RecordPostCodeReview reads the state and inserts the verdict in two statements.
CheckBeforeRecord(i) ==
  /\ Stands(i, "record")
  /\ IF proposal = "awaiting_post_review" THEN UNCHANGED rootLock /\ Continue(i, "insert")
                                          ELSE Leave(i)
  /\ UNCHANGED <<proposalRows, source, outer>>

RecordPostCodeReview(i) ==
  /\ Stands(i, "insert")
  /\ verdicts' = Append(verdicts, flow[i].outcome)
  /\ Continue(i, "receipt")
  /\ UNCHANGED <<proposal, lease, rows, source, rootLock, outer>>

CompleteCallAttempt(i) ==
  /\ Stands(i, "complete")
  /\ IF rows.attempt = "running" /\ Authorised(i) /\ \A j \in Calls : flow[j].effect \notin OpenEffects
       THEN rows' = [rows EXCEPT !.attempt = "completed"] /\ UNCHANGED rootLock /\ Continue(i, "completestep")
       ELSE /\ IF rows.attempt = "completed" THEN UNCHANGED rootLock /\ Continue(i, "completestep") ELSE Leave(i)
            /\ UNCHANGED rows
  /\ UNCHANGED <<proposal, verdicts, lease, source, outer>>

CompleteCallStep(i) ==
  /\ Stands(i, "completestep")
  /\ IF rows.step = "running"
       THEN /\ rows' = [rows EXCEPT !.step = "completed", !.task = "verifying"]
            /\ UNCHANGED rootLock /\ Continue(i, "verify")
       ELSE UNCHANGED rows /\ Leave(i)
  /\ UNCHANGED <<proposal, verdicts, lease, source, outer>>

VerifyProposal(i) ==
  /\ Stands(i, "verify")
  /\ proposal' = IF proposal = "awaiting_post_review" THEN "verified" ELSE proposal
  /\ Leave(i)
  /\ UNCHANGED <<verdicts, lease, rows, source, outer>>

-----------------------------------------------------------------------------
(* What happens to the run, the process and the files meanwhile.           *)

Forsake(effect) == CASE effect = "planned" -> "abandoned"
                     [] effect = "dispatched" -> "uncertain"
                     [] OTHER -> effect

PauseRun ==
  /\ lease' = [lease EXCEPT !.state = IF @ = "running" THEN "paused" ELSE @]
  /\ rows' = [attempt |-> IF rows.attempt = "running" THEN "interrupted" ELSE rows.attempt,
              step |-> IF rows.attempt = "running" THEN "blocked" ELSE rows.step,
              task |-> IF rows.task = "running" THEN "paused" ELSE rows.task]

\* RecoverExpiredRun with an effect in flight, or InterruptGoalExecution: the calls go on.
InterruptRun ==
  /\ lease.state = "running"
  /\ PauseRun
  /\ flow' = [i \in Calls |-> [flow[i] EXCEPT !.effect = Forsake(@)]]
  /\ UNCHANGED <<proposal, verdicts, source, rootLock, outer>>

\* RecoverExpiredRun with nothing in flight: new authority, which no call under way has.
RenewLease ==
  /\ lease.state = "running" /\ lease.number < MaxLeases
  /\ rows.task \in {"running", "verifying"} /\ \A i \in Calls : flow[i].effect # "dispatched"
  /\ lease' = [lease EXCEPT !.number = @ + 1]
  /\ flow' = [i \in Calls |-> [flow[i] EXCEPT !.effect = Forsake(@)]]
  /\ UNCHANGED <<proposal, verdicts, rows, source, rootLock, outer>>

\* The process stops, and RecoverInterrupted runs before the next one serves.
StopProcess ==
  /\ stops < MaxStops /\ stops' = stops + 1
  /\ PauseRun /\ rootLock' = None
  /\ flow' = [i \in Calls |-> [flow[i] EXCEPT !.effect = Forsake(@),
                                !.pc = IF @ = "idle" THEN @ ELSE "done"]]
  /\ UNCHANGED <<proposal, verdicts, source, edits>>

\* Reconciliation, by an adapter or by a person.
ReconcileCallEffect(i) ==
  /\ flow[i].effect = "uncertain"
  /\ flow' = [flow EXCEPT ![i].effect = "reconciled"]
  /\ UNCHANGED <<proposalRows, source, rootLock, outer>>

Resume(before, after) ==
  /\ rows = before /\ lease.state = "paused" /\ lease.number < MaxLeases
  /\ proposal = "awaiting_post_review" /\ \A i \in Calls : flow[i].effect \notin OpenEffects
  /\ rows' = after /\ lease' = [state |-> "running", number |-> lease.number + 1]
  /\ UNCHANGED <<proposal, verdicts, source, rootLock, flow, outer>>

ResumeObserved ==
  Resume([attempt |-> "interrupted", step |-> "blocked", task |-> "paused"],
         [attempt |-> "running", step |-> "running", task |-> "running"])

ResumeApproved ==
  /\ \E n \in 1..Len(verdicts) : verdicts[n] = "approve"
  /\ Resume([attempt |-> "completed", step |-> "running", task |-> "paused"],
            [attempt |-> "completed", step |-> "running", task |-> "running"])

\* Somebody who takes no locks edits a file.
EditOutside(f) ==
  /\ edits < MaxEdits /\ edits' = edits + 1
  /\ source' = [source EXCEPT ![f] = "edited"]
  /\ UNCHANGED <<proposalRows, rootLock, flow, stops>>

-----------------------------------------------------------------------------
IdleFlow == [op |-> None, pc |-> "idle", lease |-> 0, effect |-> None, todo |-> {}, outcome |-> None]

ReturnedApply == [op |-> "apply", pc |-> "done", lease |-> 1, effect |-> "observed", todo |-> {}, outcome |-> "written"]

\* As DecideCodeProposal leaves an approved proposal, or as the calls that have
\* applied it, and then tested it, leave it.
ProposalInit ==
  /\ \/ /\ proposal = "approved" /\ source = [f \in Files |-> "before"]
        /\ flow = [i \in Calls |-> IdleFlow]
     \/ /\ proposal \in {"applied", "awaiting_post_review"} /\ source = [f \in Files |-> "after"]
        /\ \E a \in Calls : flow = [i \in Calls |-> IF i = a THEN ReturnedApply ELSE IdleFlow]
  /\ verdicts = <<>> /\ rootLock = None
  /\ lease = [state |-> "running", number |-> 1]
  /\ rows = [attempt |-> "running", step |-> "running", task |-> "running"]
  /\ edits = 0 /\ stops = 0

CallEffects(i) == PlanCallEffect(i) \/ DispatchCallEffect(i) \/ AbandonCallEffect(i) \/ ObserveCallEffect(i)

Applies(i) ==
  \/ StartApply(i) \/ BeginCodeProposalApply(i) \/ LockBatch(i) \/ WriteFails(i)
  \/ EndUndo(i) \/ ConcludeApply(i)
  \/ \E f \in Files : WriteFile(i, f) \/ UndoFile(i, f)

Verifies(i) ==
  \/ StartVerify(i) \/ GuardCheck(i) \/ RunCheck(i) \/ GuardEvidence(i)
  \/ FinishVerification(i) \/ BindCodeProposalVerification(i)

FailsWork(i) ==
  \/ CloseProposal(i) \/ FailCallAttempt(i) \/ FailCallStep(i)
  \/ \E f \in Files : RestoreFile(i, f)

ReviewsCall(i) ==
  \/ StartReview(i) \/ LookForVerdict(i) \/ ProviderAnswers(i) \/ AcceptVerdict(i)
  \/ CheckBeforeRecord(i) \/ RecordPostCodeReview(i)
  \/ CompleteCallAttempt(i) \/ CompleteCallStep(i) \/ VerifyProposal(i)

ProposalNext ==
  \/ \E i \in Calls : CallEffects(i) \/ Applies(i) \/ Verifies(i) \/ FailsWork(i) \/ ReviewsCall(i)
                      \/ ReconcileCallEffect(i)
  \/ InterruptRun \/ RenewLease \/ StopProcess \/ ResumeObserved \/ ResumeApproved
  \/ \E f \in Files : EditOutside(f)

ProposalSpec == ProposalInit /\ [][ProposalNext]_proposalVars

-----------------------------------------------------------------------------
(* Properties.                                                             *)

FlowRow == [op : {None, "apply", "verify", "review"},
            pc : {"idle", "done", "plan", "begin", "dispatch", "abandon", "receipt", "write", "writing",
                  "undo", "conclude", "guard", "run", "reguard", "finish", "bind", "restore", "close",
                  "failattempt", "failstep", "look", "ask", "accept", "record", "insert", "complete",
                  "completestep", "verify"},
            lease : Nat,
            effect : OpenEffects \cup {None, "observed", "abandoned", "reconciled"},
            todo : SUBSET Files,
            outcome : {None, "written", "clean", "dirty", "unlaunched", "pass", "fail", "unanswered",
                       "stale", "approve", "reject"}]

\* Rows, locks and calls have their shapes.
ProposalTypeOK ==
  /\ proposal \in {"approved", "applying", "applied", "apply_failed", "awaiting_post_review",
                   "verification_failed", "verified", "post_review_rejected"}
  /\ verdicts \in Seq({"approve", "reject"})
  /\ source \in [Files -> {"before", "after", "edited"}]
  /\ rootLock \in Calls \cup {None}
  /\ lease \in [state : {"running", "paused", "failed"}, number : Nat]
  /\ rows \in [attempt : {"running", "completed", "failed", "interrupted"},
               step : {"running", "completed", "failed", "blocked"},
               task : {"running", "paused", "verifying"}]
  /\ flow \in [Calls -> FlowRow]
  /\ edits \in Nat /\ stops \in Nat

\* No file holds the change unless the proposal has left "approved", with its
\* rollback artifact bound, and one apply effect was dispatched and not
\* forgotten: whatever interrupts the batch, what it wrote is on record
\* (Apply, apply.go:77).  And a proposal whose apply failed leaves the change in
\* no file unless the effect tells: it was observed with a receipt that says
\* rollback_incomplete (apply.go:100-117), or it has been put in doubt.  In the
\* second case nothing else tells: the receipt is refused, and the refusal ignored.
ChangeIsOnRecord ==
  LET Applying(i) == flow[i].op = "apply" /\ flow[i].effect \notin {"none", "planned", "abandoned"}
      SaysIncomplete(i) == flow[i].effect = "observed" /\ flow[i].outcome = "dirty"
      PutInDoubt(i) == flow[i].effect \in {"uncertain", "reconciled"}
  IN  (\E f \in Files : source[f] = "after") =>
         /\ proposal # "approved"
         /\ \E i \in Calls : Applying(i)
         /\ proposal = "apply_failed" =>
              \E i \in Calls : flow[i].op = "apply" /\ (SaysIncomplete(i) \/ PutInDoubt(i))

\* When a proposal comes to be called tested, or verified, the service has not
\* taken the change back: a rollback that another call makes at that time
\* comes before the snapshot is checked or after the state has changed
\* (finishVerification, Review).
NoVerdictOnRestoredSource ==
  [][proposal' # proposal /\ proposal' \in {"awaiting_post_review", "verified"} =>
        \A f \in Files : source[f] # "before"]_proposalVars
=============================================================================
