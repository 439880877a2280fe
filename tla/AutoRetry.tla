----------------------------- MODULE AutoRetry -----------------------------
(***************************************************************************)
(* Automatic continuation: the row of agent_retries of one session, what   *)
(* the turns of that session do to it, and the workers that claim it when  *)
(* it is due, run a turn and approve what the turn asks for.               *)
(*                                                                         *)
(* Every SQL statement or transaction on the row is one action.  TurnLease *)
(* has the turns in detail; here a turn is who executes it and what its    *)
(* session says.  Time is left out: a pending row may be due at any time.  *)
(* The key that RunTurn is given for a continuation repeats the test of    *)
(* its source and is left out, too.  A control row that says "stopped" is  *)
(* as good as none.                                                        *)
(***************************************************************************)
EXTENDS Integers

CONSTANTS
  Retriers,             \* workers of RunDueAutoRetry
  MaxAutoRetryAttempts, \* continuations between two requests of the user
  MaxRequests,          \* bound: requests of the user
  MaxCrashes            \* bound: crashes of the process

ASSUME AutoRetryAssumption ==
  MaxAutoRetryAttempts \in Nat /\ MaxRequests \in Nat /\ MaxCrashes \in Nat

VARIABLES
  retry,     \* the row of agent_retries: its state, source and attempts
  lease,     \* the state of the row of agent_sessions
  driver,    \* who executes the turn: a worker, "user" or "nobody"
  asked,     \* the turn's row of tool_approvals
  stop,      \* its row of agent_turn_controls
  latest,    \* the latest message or failure: its sequence and its kind
  contract,  \* the session's disable_auto_retry and its approval mode
  retrier,      \* retrier[w]: where worker w stands, and the source it claimed
  startup,   \* the recovery to run next, or "up"
  crashes, requests,
  continued, \* automatic turns since the last request of the user
  halted,    \* the user has paused automatic continuation
  withdrawn  \* the user has stopped a turn since the last request

turnRows == <<lease, driver, asked, stop, latest>>
counters == <<crashes, requests>>
wishes == <<continued, halted, withdrawn>>
retryVars == <<retry, turnRows, contract, retrier, startup, counters, wishes>>

-----------------------------------------------------------------------------
Unfinished == {"partial", "failed"}
Serving == startup = "up"
RetrierTo(w, pc) == retrier' = [retrier EXCEPT ![w].pc = pc]
IsAt(w, pc) == Serving /\ retrier[w].pc = pc
AppendEvent(kind) == latest' = [id |-> latest.id + 1, kind |-> kind]

\* The executor of the turn returns to whoever called it.
Returns(pc) ==
  /\ driver' = "nobody"
  /\ retrier' = [w \in Retriers |-> IF w = driver THEN [retrier[w] EXCEPT !.pc = pc] ELSE retrier[w]]

\* Mutant: a turn supersedes a pause as well.
SupersededAnyway ==
  IF retry.state = "none" THEN retry ELSE [retry EXCEPT !.state = "cancelled"]

\* A turn supersedes what was scheduled.
Superseded ==
  IF retry.state \in {"none", "paused"} THEN retry ELSE [retry EXCEPT !.state = "cancelled"]

OutOfAttempts == retry.attempts >= MaxAutoRetryAttempts

\* scheduleRetryTx, in the transaction that ends a turn.
Scheduled(kind) ==
  IF kind \in Unfinished
  THEN IF contract.disabled \/ retry.state = "paused" THEN retry
       ELSE [retry EXCEPT !.source = latest.id + 1,
                          !.state = IF retry.state # "none" /\ OutOfAttempts THEN "paused"
                                    ELSE "pending"]
  ELSE IF retry.state \in {"none", "paused"} THEN retry
       ELSE [retry EXCEPT !.state = "completed"]

-----------------------------------------------------------------------------
(* The turns of the session.                                               *)

Begins(d) ==
  /\ lease = "active"
  /\ lease' = "running" /\ driver' = d /\ asked' = "none" /\ stop' = "none"
  /\ AppendEvent("request")

Request ==
  /\ Serving /\ requests < MaxRequests
  /\ Begins("user")
  /\ retry' = [Superseded EXCEPT !.attempts = 0]
  /\ requests' = requests + 1 /\ continued' = 0 /\ withdrawn' = FALSE
  /\ UNCHANGED <<contract, retrier, startup, crashes, halted>>

Ends(kind) ==
  /\ Serving /\ lease = "running" /\ driver # "nobody" /\ stop = "none"
  /\ lease' = "active"
  /\ AppendEvent(kind)
  /\ retry' = Scheduled(kind)
  /\ Returns(IF kind = "failed" THEN "settling" ELSE "approving")
  /\ UNCHANGED <<asked, stop, contract, startup, counters, wishes>>

Asks ==
  /\ Serving /\ lease = "running" /\ driver # "nobody" /\ stop = "none"
  /\ lease' = "awaiting_approval" /\ asked' = "pending"
  /\ Returns("approving")
  /\ UNCHANGED <<retry, stop, latest, contract, startup, counters, wishes>>

Decidable ==
  /\ lease = "awaiting_approval" /\ asked = "pending"
  /\ driver = "nobody" /\ stop = "none"

UserDecides ==
  /\ Serving /\ Decidable
  /\ asked' = "executing" /\ driver' = "user"
  /\ UNCHANGED <<retry, lease, stop, latest, contract, retrier, startup, counters, wishes>>

ReceiptPersisted ==
  /\ Serving /\ driver # "nobody" /\ asked = "executing" /\ stop = "none"
  /\ lease' = "running" /\ asked' = "none"
  /\ UNCHANGED <<retry, driver, stop, latest, contract, retrier, startup, counters, wishes>>

\* The receipt is rolled back: the row keeps its claim, and the turn its lease.
ReceiptLost ==
  /\ Serving /\ driver # "nobody" /\ asked = "executing" /\ stop = "none"
  /\ Returns("settling")
  /\ UNCHANGED <<retry, lease, asked, stop, latest, contract, startup, counters, wishes>>

\* The model configuration changed while the turn waited.
ContinuationBlocked ==
  /\ Serving /\ driver # "nobody" /\ asked = "executing" /\ stop = "none"
  /\ lease' = "active" /\ asked' = "none"
  /\ Returns("settling")
  /\ UNCHANGED <<retry, stop, latest, contract, startup, counters, wishes>>

StopAsked ==
  /\ Serving /\ stop = "none" /\ lease \in {"running", "awaiting_approval"}
  /\ stop' = "stopping" /\ withdrawn' = TRUE
  /\ UNCHANGED <<retry, lease, driver, asked, latest, contract, retrier, startup, counters,
                 continued, halted>>

\* finishStoppedTurn, by the executor or, where there is none, by StopTurn.
StopFinished(sure) ==
  /\ Serving /\ stop = "stopping"
  /\ sure => asked \notin {"executing", "uncertain"}
  /\ lease' = IF sure THEN "active" ELSE "control_blocked"
  /\ stop' = IF sure THEN "none" ELSE "needs_review"
  /\ asked' = IF asked = "pending" THEN "none" ELSE asked
  /\ Returns("settling")
  /\ UNCHANGED <<retry, latest, contract, startup, counters, wishes>>

StopReconciled ==
  /\ Serving /\ stop = "needs_review" /\ lease = "control_blocked"
  /\ asked \notin {"executing", "uncertain"}
  /\ lease' = "active" /\ stop' = "none"
  /\ UNCHANGED <<retry, driver, asked, latest, contract, retrier, startup, counters, wishes>>

PauseAutoRetry ==
  /\ Serving
  /\ retry' = [retry EXCEPT !.state = "paused"]
  /\ halted' = TRUE
  /\ UNCHANGED <<turnRows, contract, retrier, startup, counters, continued, withdrawn>>

SetApprovalMode(mode) ==
  /\ Serving
  /\ contract' = [contract EXCEPT !.mode = mode]
  /\ UNCHANGED <<retry, turnRows, retrier, startup, counters, wishes>>

-----------------------------------------------------------------------------
(* RunDueAutoRetry.                                                        *)

Capped ==
  IF retry.state = "pending" /\ OutOfAttempts THEN [retry EXCEPT !.state = "paused"] ELSE retry

FindDue(w) ==
  /\ IsAt(w, "idle")
  /\ retry' = Capped
  /\ IF /\ retry'.state = "pending"
        /\ lease = "active" /\ ~contract.disabled
     THEN retrier' = [retrier EXCEPT ![w] = [pc |-> "found", source |-> retry.source]]
     ELSE UNCHANGED retrier
  /\ UNCHANGED <<turnRows, contract, startup, counters, wishes>>

ClaimDue(w) ==
  /\ IsAt(w, "found")
  /\ IF retry.state = "pending" /\ retry.source = retrier[w].source /\ ~OutOfAttempts
     THEN /\ retry' = [retry EXCEPT !.state = "running", !.attempts = @ + 1]
          /\ RetrierTo(w, "claimed")
     ELSE RetrierTo(w, "idle") /\ UNCHANGED retry
  /\ UNCHANGED <<turnRows, contract, startup, counters, wishes>>

\* The expected outcome and the schedule are looked at with the lease.
StillWanted(w) == latest.id = retrier[w].source /\ retry.state = "running"

Continue(w) ==
  /\ IsAt(w, "claimed") /\ StillWanted(w)
  /\ Begins(w)
  /\ retry' = Superseded
  /\ RetrierTo(w, "turn")
  /\ continued' = continued + 1
  /\ UNCHANGED <<contract, startup, counters, halted, withdrawn>>

\* RunTurn refuses, or fails before it takes the lease.
ContinueRefused(w) ==
  /\ IsAt(w, "claimed")
  /\ RetrierTo(w, "settling")
  /\ UNCHANGED <<retry, turnRows, contract, startup, counters, wishes>>

FindApproval(w) ==
  /\ IsAt(w, "approving")
  /\ contract.mode = "auto" /\ retry.state # "paused" /\ asked = "pending"
  /\ RetrierTo(w, "deciding")
  /\ UNCHANGED <<retry, turnRows, contract, startup, counters, wishes>>

\* Mode and pause are looked at again in the transaction of the claim.
AutoDecides(w) ==
  /\ IsAt(w, "deciding")
  /\ IF Decidable /\ contract.mode = "auto" /\ retry.state \notin {"none", "paused"}
     THEN asked' = "executing" /\ driver' = w /\ RetrierTo(w, "turn")
     ELSE RetrierTo(w, "settling") /\ UNCHANGED <<asked, driver>>
  /\ UNCHANGED <<retry, lease, stop, latest, contract, startup, counters, wishes>>

\* Nothing is left to approve, or a read failed, or this was the 24th.
ApprovalsEnd(w) ==
  /\ IsAt(w, "approving")
  /\ RetrierTo(w, "settling")
  /\ UNCHANGED <<retry, turnRows, contract, startup, counters, wishes>>

\* What did not begin is scheduled again; an outcome has replaced it else.
SettleRetry(w) ==
  /\ IsAt(w, "settling")
  /\ retry' = IF retry.state = "running" /\ retry.source = retrier[w].source
              THEN [retry EXCEPT !.state = IF OutOfAttempts THEN "paused" ELSE "pending"]
              ELSE retry
  /\ retrier' = [retrier EXCEPT ![w] = [pc |-> "idle", source |-> 0]]
  /\ UNCHANGED <<turnRows, contract, startup, counters, wishes>>

-----------------------------------------------------------------------------
(* A restart.                                                              *)

ProcessStops ==
  /\ crashes < MaxCrashes /\ crashes' = crashes + 1
  /\ driver' = "nobody"
  /\ retrier' = [w \in Retriers |-> [pc |-> "idle", source |-> 0]]
  /\ startup' = "approvals"
  /\ UNCHANGED <<retry, lease, asked, stop, latest, contract, requests, wishes>>

\* A write is found done, found not done, or in doubt.
ApprovalsRecovered(verdict) ==
  /\ startup = "approvals" /\ startup' = "turns"
  /\ IF asked = "executing" THEN lease' = "active" /\ asked' = verdict
     ELSE UNCHANGED <<lease, asked>>
  /\ UNCHANGED <<retry, driver, stop, latest, contract, retrier, counters, wishes>>

TurnsRecovered ==
  /\ startup = "turns" /\ startup' = "retries"
  /\ IF lease = "running" THEN lease' = "active" /\ AppendEvent("failed")
     ELSE UNCHANGED <<lease, latest>>
  /\ UNCHANGED <<retry, driver, asked, stop, contract, retrier, counters, wishes>>

\* Mutant: what recovery schedules starts with a fresh allowance.
RecoverRetriesAfresh ==
  /\ startup = "retries" /\ startup' = "controls"
  /\ retry' = IF /\ lease = "active" /\ ~contract.disabled /\ latest.kind \in Unfinished
                 /\ retry.state # "paused" /\ retry.source # latest.id
              THEN [state |-> "pending", source |-> latest.id, attempts |-> 0]
              ELSE [retry EXCEPT !.state = IF @ = "running" THEN "pending" ELSE @]
  /\ UNCHANGED <<turnRows, contract, retrier, counters, wishes>>

RecoverAutoRetries ==
  /\ startup = "retries" /\ startup' = "controls"
  /\ retry' = IF /\ lease = "active" /\ ~contract.disabled /\ latest.kind \in Unfinished
                 /\ retry.state # "paused" /\ retry.source # latest.id
              THEN [retry EXCEPT !.state = "pending", !.source = latest.id]
              ELSE [retry EXCEPT !.state = IF @ = "running" THEN "pending" ELSE @]
  /\ UNCHANGED <<turnRows, contract, retrier, counters, wishes>>

ControlsRecovered ==
  /\ startup = "controls" /\ startup' = "up"
  /\ IF stop = "none" THEN UNCHANGED <<lease, asked, stop>>
     ELSE /\ stop' = "needs_review" /\ lease' = "control_blocked"
          /\ asked' = IF asked = "pending" THEN "none" ELSE asked
  /\ UNCHANGED <<retry, driver, latest, contract, retrier, counters, wishes>>

-----------------------------------------------------------------------------
RetryInit ==
  /\ retry = [state |-> "none", source |-> 0, attempts |-> 0]
  /\ lease = "active" /\ driver = "nobody" /\ asked = "none" /\ stop = "none"
  /\ latest = [id |-> 0, kind |-> "none"]
  /\ contract \in [disabled : BOOLEAN, mode : {"auto", "ask_all"}]
  /\ retrier = [w \in Retriers |-> [pc |-> "idle", source |-> 0]]
  /\ startup = "up" /\ crashes = 0 /\ requests = 0
  /\ continued = 0 /\ halted = FALSE /\ withdrawn = FALSE

SessionStep ==
  \/ Request \/ Asks \/ UserDecides
  \/ ReceiptPersisted \/ ReceiptLost \/ ContinuationBlocked
  \/ \E kind \in {"answer", "partial", "failed"} : Ends(kind)
  \/ StopAsked \/ StopReconciled \/ \E sure \in BOOLEAN : StopFinished(sure)
  \/ PauseAutoRetry \/ \E mode \in {"auto", "ask_all"} : SetApprovalMode(mode)

WorkerStep(w) ==
  \/ FindDue(w) \/ ClaimDue(w) \/ Continue(w) \/ ContinueRefused(w)
  \/ FindApproval(w) \/ AutoDecides(w) \/ ApprovalsEnd(w) \/ SettleRetry(w)

RestartStep ==
  \/ ProcessStops \/ TurnsRecovered \/ RecoverAutoRetries \/ ControlsRecovered
  \/ \E verdict \in {"none", "pending", "uncertain"} : ApprovalsRecovered(verdict)

RetryNext == SessionStep \/ RestartStep \/ \E w \in Retriers : WorkerStep(w)

RetrySpec == RetryInit /\ [][RetryNext]_retryVars

-----------------------------------------------------------------------------
\* Between two requests of the user, the program continues at most
\* MaxAutoRetryAttempts times, whatever crashes, refusals, approvals and
\* schedules come in between.
AllowanceHeld == continued <= MaxAutoRetryAttempts

\* A worker starts to execute, be it a turn or an approved effect, only while
\* the user has not paused it and has not switched the session to asking, and
\* it continues only what has not been answered or superseded since.
AutomaticIsWanted ==
  [][\A w \in Retriers : retrier[w].pc # "turn" /\ retrier'[w].pc = "turn" =>
       /\ ~halted /\ ~contract.disabled
       /\ retrier[w].pc = "claimed" => latest.kind \in Unfinished
       /\ retrier[w].pc = "deciding" => contract.mode = "auto"]_retryVars

\* What the user has stopped is continued only by a new request.
StopIsNotContinued ==
  [][\A w \in Retriers : retrier[w].pc = "claimed" /\ retrier'[w].pc = "turn" => ~withdrawn]_retryVars
=============================================================================
