--------------------------- MODULE LearningOutbox ---------------------------
(***************************************************************************)
(* From the evidence of a turn or a task to a reviewed skill candidate:    *)
(* the trigger outbox, its drains, the review jobs, the workers that run   *)
(* them, and the gate that lets foreground turns preempt a review.         *)
(*                                                                         *)
(* A drain runs after every turn and on a ticker, a worker on the ticker   *)
(* and on request.  Every SQL statement is one action, except the look-up  *)
(* and the insert of Enqueue, which the unique key makes one.              *)
(***************************************************************************)
EXTENDS Naturals

CONSTANTS
  Triggers, Milestone,        \* the triggers of a run, and the milestone of each
  Drainers, Reviewers,        \* DrainPending calls and RunNext workers
  Revisions,                  \* revisions of the review worker, 1..Revisions
  MaxFailures, MaxStarts      \* bounds: writes and reviews that fail, preemptions; restarts

Milestones == {Milestone[x] : x \in Triggers}

ASSUME LearningAssumption ==
  Revisions \in Nat \ {0} /\ MaxFailures \in Nat /\ MaxStarts \in Nat /\ Drainers \cap Reviewers = {}

VARIABLES
  outbox,   \* outbox[x]: state of the trigger
  review,   \* review[m, r]: state of the job with this idempotency key, and its candidate
  revision, \* revision of the worker of this process
  drain,    \* drain[d]: where DrainPending stands, the trigger and the rest of what it read
  worker,   \* worker[w]: RunNext
  gate,     \* who is active, and whether a foreground turn waits
  failures, starts

learningVars == <<outbox, review, revision, drain, worker, gate, failures, starts>>
ReviewKeys == Milestones \X (1..Revisions)
NoReview == [state |-> "none", candidates |-> 0]
IdleDrain == [pc |-> "idle", item |-> "none", rest |-> {}]
IdleWorker == [pc |-> "idle", key |-> "none"]
Failing == failures < MaxFailures /\ failures' = failures + 1
DrainGoes(d, pc) == drain' = [drain EXCEPT ![d].pc = pc]

-----------------------------------------------------------------------------
(* The outbox.                                                             *)

\* In the transaction that commits the outcome of the turn.
StageTrigger(x) ==
  /\ outbox[x] = "none" /\ outbox' = [outbox EXCEPT ![x] = "pending"]
  /\ UNCHANGED <<review, revision, drain, worker, gate, failures, starts>>

ReadPending(d) ==
  /\ drain[d].pc = "idle" /\ \E x \in Triggers : outbox[x] = "pending"
  /\ drain' = [drain EXCEPT ![d] = [pc |-> "next", item |-> "none", rest |-> {x \in Triggers : outbox[x] = "pending"}]]
  /\ UNCHANGED <<outbox, review, revision, worker, gate, failures, starts>>

ClaimTrigger(d) ==
  /\ drain[d].pc = "next"
  /\ IF drain[d].rest = {} THEN UNCHANGED outbox /\ drain' = [drain EXCEPT ![d] = IdleDrain]
     ELSE \E x \in drain[d].rest :
            IF outbox[x] = "pending"
              THEN /\ outbox' = [outbox EXCEPT ![x] = "processing"]
                   /\ drain' = [drain EXCEPT ![d] = [pc |-> "enqueue", item |-> x, rest |-> @.rest \ {x}]]
              ELSE UNCHANGED outbox /\ drain' = [drain EXCEPT ![d].rest = @ \ {x}]
  /\ UNCHANGED <<review, revision, worker, gate, failures, starts>>

Key(x) == <<Milestone[x], revision>>

\* Mutant: the trigger is marked whether or not the review could be inserted.
EnqueueReviewLoosely(d) ==
  /\ drain[d].pc = "enqueue"
  /\ \/ /\ review' = [review EXCEPT ![Key(drain[d].item)].state = IF @ = "none" THEN "queued" ELSE @]
        /\ DrainGoes(d, "mark") /\ UNCHANGED failures
     \/ Failing /\ DrainGoes(d, "mark") /\ UNCHANGED review
  /\ UNCHANGED <<outbox, revision, worker, gate, starts>>

\* The key leaves the trigger's kind out: a milestone is reviewed once by a revision.
EnqueueReview(d) ==
  /\ drain[d].pc = "enqueue"
  /\ \/ /\ review' = [review EXCEPT ![Key(drain[d].item)].state = IF @ = "none" THEN "queued" ELSE @]
        /\ DrainGoes(d, "mark") /\ UNCHANGED failures
     \/ Failing /\ DrainGoes(d, "return") /\ UNCHANGED review
  /\ UNCHANGED <<outbox, revision, worker, gate, starts>>

\* A write that fails is logged, and leaves the trigger "processing".
SettleTrigger(d) ==
  /\ drain[d].pc \in {"mark", "return"}
  /\ LET marked == drain[d].pc = "mark"
         x == drain[d].item
     IN  \/ /\ outbox' = [outbox EXCEPT ![x] = IF @ # "processing" THEN @ ELSE IF marked THEN "processed" ELSE "pending"]
            /\ drain' = [drain EXCEPT ![d] = IF marked THEN [@ EXCEPT !.pc = "next", !.item = "none"] ELSE IdleDrain]
            /\ UNCHANGED failures
         \/ Failing /\ drain' = [drain EXCEPT ![d] = IdleDrain] /\ UNCHANGED outbox
  /\ UNCHANGED <<review, revision, worker, gate, starts>>

-----------------------------------------------------------------------------
(* The review jobs, and the gate.                                          *)

WorkerGoes(w, pc) == worker' = [worker EXCEPT ![w].pc = pc]

ClaimReview(w) ==
  /\ worker[w].pc = "idle"
  /\ \E k \in ReviewKeys :
       /\ review[k].state = "queued"
       /\ review' = [review EXCEPT ![k].state = "running"]
       /\ worker' = [worker EXCEPT ![w] = [pc |-> "gate", key |-> k]]
  /\ UNCHANGED <<outbox, revision, drain, gate, failures, starts>>

EnterGate(w) ==
  /\ worker[w].pc = "gate" /\ gate.foreground = "idle" /\ ~gate.background
  /\ gate' = [gate EXCEPT !.background = TRUE] /\ WorkerGoes(w, "review")
  /\ UNCHANGED <<outbox, review, revision, drain, failures, starts>>

LeaveGate == gate' = [gate EXCEPT !.background = FALSE, !.preempted = FALSE]

\* The reviewer answers: no change, or a skill to make or to improve.
AnswerReview(w) ==
  /\ worker[w].pc = "review"
  /\ \/ LeaveGate /\ WorkerGoes(w, "complete")
     \/ UNCHANGED gate /\ WorkerGoes(w, "look")
  /\ UNCHANGED <<outbox, review, revision, drain, failures, starts>>

LookForCandidate(w) ==
  /\ worker[w].pc = "look"
  /\ IF review[worker[w].key].candidates > 0 THEN LeaveGate /\ WorkerGoes(w, "complete")
                                              ELSE UNCHANGED gate /\ WorkerGoes(w, "create")
  /\ UNCHANGED <<outbox, review, revision, drain, failures, starts>>

CreateCandidate(w) ==
  /\ worker[w].pc = "create"
  /\ review' = [review EXCEPT ![worker[w].key].candidates = @ + 1]
  /\ WorkerGoes(w, "promote")
  /\ UNCHANGED <<outbox, revision, drain, gate, failures, starts>>

\* What it does to the candidate is the skills service's.
TryAutomatedPromotion(w) ==
  /\ worker[w].pc = "promote"
  /\ LeaveGate /\ WorkerGoes(w, "complete")
  /\ UNCHANGED <<outbox, review, revision, drain, failures, starts>>

\* The context is cancelled by a foreground turn or by the request, at any point, or
\* the review fails.
AbortReview(w) ==
  /\ worker[w].pc \in {"gate", "review", "look", "create", "promote"}
  /\ IF worker[w].pc = "gate" THEN UNCHANGED gate ELSE LeaveGate
  /\ \/ gate.preempted /\ worker[w].pc # "gate" /\ UNCHANGED failures /\ WorkerGoes(w, "requeue")
     \/ Failing /\ \E pc \in {"requeue", "fail"} : WorkerGoes(w, pc)
  /\ UNCHANGED <<outbox, review, revision, drain, starts>>

\* The job's row moves only while it is running.
SettleReview(w) ==
  /\ worker[w].pc \in {"complete", "requeue", "fail"}
  /\ LET state == CASE worker[w].pc = "complete" -> "completed"
                    [] worker[w].pc = "requeue" -> "queued"
                    [] worker[w].pc = "fail" -> "failed"
     IN  \/ /\ review' = [review EXCEPT ![worker[w].key].state = IF @ = "running" THEN state ELSE @]
            /\ UNCHANGED failures
         \/ Failing /\ UNCHANGED review
  /\ worker' = [worker EXCEPT ![w] = IdleWorker]
  /\ UNCHANGED <<outbox, revision, drain, gate, starts>>

\* RunForeground announces itself, cancels the review that runs, and waits.
ForegroundArrives ==
  /\ gate.foreground = "idle"
  /\ gate' = [gate EXCEPT !.foreground = "waiting", !.preempted = gate.background]
  /\ UNCHANGED <<outbox, review, revision, drain, worker, failures, starts>>

ForegroundEnters ==
  /\ gate.foreground = "waiting" /\ ~gate.background
  /\ gate' = [gate EXCEPT !.foreground = "active"]
  /\ UNCHANGED <<outbox, review, revision, drain, worker, failures, starts>>

ForegroundLeaves ==
  /\ gate.foreground \in {"waiting", "active"}
  /\ gate' = [gate EXCEPT !.foreground = "idle"]
  /\ UNCHANGED <<outbox, review, revision, drain, worker, failures, starts>>

-----------------------------------------------------------------------------
OpenGate == [foreground |-> "idle", background |-> FALSE, preempted |-> FALSE]

\* The process stops.  The next one may have another reviewer; its queued messages
\* may be drained before RecoverInterrupted, its reviews are not run before.
RestartLearning ==
  /\ starts < MaxStarts /\ starts' = starts + 1 /\ UNCHANGED failures
  /\ revision' \in revision..Revisions
  /\ drain' = [d \in Drainers |-> IdleDrain]
  /\ worker' = [w \in Reviewers |-> [IdleWorker EXCEPT !.pc = "recovering"]]
  /\ gate' = OpenGate
  /\ UNCHANGED <<outbox, review>>

RecoverLearning ==
  /\ \E w \in Reviewers : worker[w].pc = "recovering"
  /\ outbox' = [x \in Triggers |-> IF outbox[x] = "processing" THEN "pending" ELSE outbox[x]]
  /\ review' = [k \in ReviewKeys |-> [review[k] EXCEPT !.state = IF @ = "running" THEN "queued" ELSE @]]
  /\ worker' = [w \in Reviewers |-> IdleWorker]
  /\ UNCHANGED <<revision, drain, gate, failures, starts>>

LearningInit ==
  /\ outbox = [x \in Triggers |-> "none"]
  /\ review = [k \in ReviewKeys |-> NoReview]
  /\ revision = 1
  /\ drain = [d \in Drainers |-> IdleDrain]
  /\ worker = [w \in Reviewers |-> IdleWorker]
  /\ gate = OpenGate
  /\ failures = 0 /\ starts = 0

LearningNext ==
  \/ \E x \in Triggers : StageTrigger(x)
  \/ \E d \in Drainers : ReadPending(d) \/ ClaimTrigger(d) \/ EnqueueReview(d) \/ SettleTrigger(d)
  \/ \E w \in Reviewers :
       \/ ClaimReview(w) \/ EnterGate(w) \/ AnswerReview(w) \/ LookForCandidate(w)
       \/ CreateCandidate(w) \/ TryAutomatedPromotion(w) \/ AbortReview(w) \/ SettleReview(w)
  \/ ForegroundArrives \/ ForegroundEnters \/ ForegroundLeaves
  \/ RestartLearning \/ RecoverLearning

LearningSpec == LearningInit /\ [][LearningNext]_learningVars

-----------------------------------------------------------------------------
(* Properties.                                                             *)

LearningTypeOK ==
  /\ outbox \in [Triggers -> {"none", "pending", "processing", "processed"}]
  /\ review \in [ReviewKeys -> [state : {"none", "queued", "running", "completed", "failed"}, candidates : Nat]]
  /\ revision \in 1..Revisions
  /\ \A d \in Drainers : /\ drain[d].pc \in {"idle", "next", "enqueue", "mark", "return"}
                         /\ drain[d].pc \in {"enqueue", "mark", "return"} => drain[d].item \in Triggers
                         /\ drain[d].rest \subseteq Triggers
  /\ \A w \in Reviewers : worker[w].pc \in {"recovering", "idle"} \/ worker[w].key \in ReviewKeys
  /\ gate \in [foreground : {"idle", "waiting", "active"}, background : BOOLEAN, preempted : BOOLEAN]
  /\ failures \in Nat /\ starts \in Nat

\* No evidence is lost and none is used twice, over drains that overlap,
\* preemptions, failed writes and restarts: a processed trigger's milestone has
\* its review, and a review is the source of one candidate at most ("without
\* losing the evidence-to-review edge", learning/service.go:82).
EvidenceReviewedOnce ==
  /\ \A x \in Triggers : outbox[x] = "processed" => \E r \in 1..Revisions : review[<<Milestone[x], r>>].state # "none"
  /\ \A k \in ReviewKeys : review[k].candidates <= 1
=============================================================================
