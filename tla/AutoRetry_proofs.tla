-------------------------- MODULE AutoRetry_proofs --------------------------
(***************************************************************************)
(* What holds of automatic continuation for any number of workers, of      *)
(* requests and of crashes, and any allowance: no more turns than allowed, *)
(* and none that the user does not want.                                   *)
(*                                                                         *)
(* The allowance is charged when a row is claimed and used when the turn   *)
(* takes its lease; what carries it over the steps in between is that a    *)
(* claimed row has an attempt to spare (Charged).  That a worker's source  *)
(* is still unfinished follows from the source being the latest outcome,   *)
(* and from no source ever being younger than that (Unsuperseded).         *)
(***************************************************************************)
EXTENDS AutoRetry, TLAPS

Places == {"idle", "found", "claimed", "turn", "approving", "deciding", "settling"}
RetryRow == [state : {"none", "pending", "running", "paused", "completed", "cancelled"},
             source : Nat, attempts : Nat]

Typed ==
  /\ retry \in RetryRow
  /\ latest \in [id : Nat, kind : {"none", "request", "answer"} \cup Unfinished]
  /\ contract \in [disabled : BOOLEAN, mode : {"auto", "ask_all"}]
  /\ retrier \in [Retriers -> [pc : Places, source : Nat]]
  /\ continued \in Nat /\ halted \in BOOLEAN

\* What was continued was charged first, and a claim is charged before it is used.
Charged ==
  /\ continued <= retry.attempts /\ retry.attempts <= MaxAutoRetryAttempts
  /\ retry.state = "running" => continued < retry.attempts

\* A pause stays, and a session without continuation is not scheduled.
Respected ==
  /\ halted => retry.state = "paused"
  /\ contract.disabled => retry.state \in {"none", "paused"}

\* What is scheduled, or about to be claimed or continued, is unfinished
\* unless something came after it.
Unsuperseded ==
  /\ retry.source <= latest.id
  /\ retry.state \in {"pending", "running"} /\ retry.source = latest.id => latest.kind \in Unfinished
  /\ \A w \in Retriers :
       /\ retrier[w].source <= latest.id
       /\ retrier[w].pc \in {"found", "claimed"} /\ retrier[w].source = latest.id =>
            latest.kind \in Unfinished

IInv == Typed /\ Charged /\ Respected /\ Unsuperseded

USE AutoRetryAssumption

-----------------------------------------------------------------------------
LEMMA Initially == RetryInit => IInv
<1> SUFFICES ASSUME RetryInit PROVE IInv
  OBVIOUS
<1>1. retry \in RetryRow /\ latest \in [id : Nat, kind : {"none", "request", "answer"} \cup Unfinished]
  BY DEF RetryInit, RetryRow
<1>2. retrier \in [Retriers -> [pc : Places, source : Nat]]
  BY DEF RetryInit, Places
<1>3. Charged /\ Unsuperseded
  BY DEF RetryInit, Charged, Unsuperseded
<1>4. Respected /\ halted \in BOOLEAN
  BY DEF RetryInit, Respected
<1>5. QED
  BY <1>1, <1>2, <1>3, <1>4 DEF IInv, Typed, RetryInit

\* Workers that move without claiming anything disturb nothing.
LEMMA OnlyWorkersMove ==
  ASSUME IInv, UNCHANGED <<retry, latest, contract, continued, halted>>,
         retrier' \in [Retriers -> [pc : Places, source : Nat]],
         \A w \in Retriers :
           /\ retrier'[w].source \in {0, retrier[w].source}
           /\ retrier'[w].pc \in {"found", "claimed"} => retrier'[w] = retrier[w]
  PROVE  IInv'
<1>1. \A w \in Retriers : retrier[w].source \in Nat /\ latest.id \in Nat
  BY DEF IInv, Typed
<1>2. Unsuperseded'
  BY <1>1 DEF IInv, Unsuperseded
<1>3. QED
  BY <1>2 DEF IInv, Typed, Charged, Respected

\* So does a step that leaves the workers alone, too.
LEMMA NobodyMoves ==
  ASSUME IInv, UNCHANGED <<retry, latest, contract, continued, halted, retrier>>
  PROVE  IInv'
BY DEF IInv, Typed, Charged, Respected, Unsuperseded

\* The executor's return is a move of that kind.
LEMMA ReturnMoves ==
  ASSUME IInv, NEW pc \in {"approving", "settling"}, Returns(pc)
  PROVE  /\ retrier' \in [Retriers -> [pc : Places, source : Nat]]
         /\ \A w \in Retriers :
              /\ retrier'[w].source = retrier[w].source
              /\ retrier'[w].pc \in {"found", "claimed"} => retrier'[w] = retrier[w]
BY DEF IInv, Typed, Returns, Places

\* And so is one worker's walk to a place where it claims nothing.
LEMMA WalkMoves ==
  ASSUME IInv, NEW w \in Retriers, NEW pc \in Places \ {"found", "claimed"}, RetrierTo(w, pc)
  PROVE  /\ retrier' \in [Retriers -> [pc : Places, source : Nat]]
         /\ \A x \in Retriers :
              /\ retrier'[x].source = retrier[x].source
              /\ retrier'[x].pc \in {"found", "claimed"} => retrier'[x] = retrier[x]
BY DEF IInv, Typed, RetrierTo, Places

\* What Superseded and Scheduled make of the row.
LEMMA SupersededRow ==
  ASSUME IInv
  PROVE  /\ Superseded \in RetryRow /\ Superseded.state \notin {"pending", "running"}
         /\ Superseded.attempts = retry.attempts /\ Superseded.source = retry.source
         /\ retry.state \in {"none", "paused"} => Superseded.state = retry.state
BY DEF IInv, Typed, RetryRow, Superseded

LEMMA ScheduledRow ==
  ASSUME IInv, NEW kind \in {"answer", "partial", "failed"}
  PROVE  /\ Scheduled(kind) \in RetryRow /\ Scheduled(kind).attempts = retry.attempts
         /\ Scheduled(kind).state # "running" \/ Scheduled(kind) = retry
         /\ Scheduled(kind).source <= latest.id + 1
         /\ Scheduled(kind).source = latest.id + 1 => kind \in Unfinished
         /\ halted => Scheduled(kind).state = "paused"
         /\ contract.disabled => Scheduled(kind).state \in {"none", "paused"}
<1>1. retry \in RetryRow /\ latest.id \in Nat /\ retry.source <= latest.id
  BY DEF IInv, Typed, Unsuperseded
<1>2. CASE kind \in Unfinished
  <2>1. CASE contract.disabled \/ retry.state = "paused"
    BY <1>1, <1>2, <2>1 DEF IInv, Respected, Scheduled, RetryRow
  <2>2. CASE ~(contract.disabled \/ retry.state = "paused")
    <3>1. PICK s \in {"paused", "pending"} :
             Scheduled(kind) = [state |-> s, source |-> latest.id + 1, attempts |-> retry.attempts]
      BY <1>1, <1>2, <2>2 DEF Scheduled, RetryRow
    <3>2. ~halted /\ ~contract.disabled
      BY <2>2 DEF IInv, Respected
    <3>3. QED
      BY <1>1, <1>2, <3>1, <3>2 DEF RetryRow
  <2>3. QED
    BY <2>1, <2>2
<1>3. CASE kind \notin Unfinished
  BY <1>1, <1>3 DEF IInv, Respected, Scheduled, RetryRow
<1>4. QED
  BY <1>2, <1>3

-----------------------------------------------------------------------------
(* The steps.                                                              *)

\* A turn that begins supersedes every source there is.
LEMMA BeginsFresh ==
  ASSUME IInv, NEW d, Begins(d), retry'.source = retry.source, UNCHANGED contract,
         retrier' \in [Retriers -> [pc : Places, source : Nat]],
         \A w \in Retriers : retrier'[w].source = retrier[w].source
  PROVE  /\ latest' \in [id : Nat, kind : {"none", "request", "answer"} \cup Unfinished]
         /\ Unsuperseded'
BY DEF IInv, Typed, Unsuperseded, Begins, AppendEvent, RetryRow

LEMMA RequestStep == ASSUME IInv, Request PROVE IInv'
<1>1. /\ retry' \in RetryRow /\ retry'.attempts = 0 /\ retry'.source = retry.source
      /\ retry'.state = Superseded.state
  BY SupersededRow DEF Request, RetryRow
<1>2. /\ latest' \in [id : Nat, kind : {"none", "request", "answer"} \cup Unfinished]
      /\ Unsuperseded'
  BY <1>1, BeginsFresh DEF Request, IInv, Typed
<1>3. Charged'
  BY <1>1, SupersededRow DEF Charged, Request
<1>4. Respected'
  BY <1>1, SupersededRow DEF Respected, Request, IInv
<1>5. QED
  BY <1>1, <1>2, <1>3, <1>4 DEF IInv, Typed, Request

LEMMA EndsStep == ASSUME IInv, NEW kind \in {"answer", "partial", "failed"}, Ends(kind) PROVE IInv'
<1>1. /\ latest' = [id |-> latest.id + 1, kind |-> kind] /\ latest.id \in Nat
      /\ retry' = Scheduled(kind)
  BY DEF Ends, AppendEvent, IInv, Typed
<1>2. /\ retrier' \in [Retriers -> [pc : Places, source : Nat]]
      /\ \A w \in Retriers : retrier'[w].source = retrier[w].source
  BY ReturnMoves DEF Ends
<1>3. Unsuperseded'
  <2>1. \A w \in Retriers : retrier'[w].source <= latest.id /\ retrier'[w].source \in Nat
    BY <1>2 DEF IInv, Unsuperseded, Typed
  <2>2. retry'.source <= latest'.id /\ (retry'.source = latest'.id => kind \in Unfinished)
    BY <1>1, ScheduledRow
  <2>3. QED
    BY <1>1, <2>1, <2>2 DEF Unsuperseded
<1>4. Typed'
  BY <1>1, <1>2, ScheduledRow DEF IInv, Typed, Ends, Unfinished, wishes
<1>5. Charged'
  BY <1>1, ScheduledRow DEF IInv, Charged, Ends, wishes
<1>6. Respected'
  BY <1>1, ScheduledRow DEF Respected, Ends, wishes
<1>7. QED
  BY <1>3, <1>4, <1>5, <1>6 DEF IInv

LEMMA PauseStep == ASSUME IInv, PauseAutoRetry PROVE IInv'
BY DEF IInv, Typed, RetryRow, Charged, Respected, Unsuperseded, PauseAutoRetry, turnRows

LEMMA FindDueStep == ASSUME IInv, NEW w \in Retriers, FindDue(w) PROVE IInv'
<1>1. /\ retry' \in RetryRow /\ retry'.attempts = retry.attempts /\ retry'.source = retry.source
      /\ retry'.state \in {"paused", retry.state}
      /\ retry.state \in {"none", "paused"} => retry'.state = retry.state
  BY DEF IInv, Typed, RetryRow, FindDue, Capped
<1>2. /\ UNCHANGED <<latest, contract, continued, halted>>
      /\ \/ UNCHANGED retrier
         \/ /\ retry.state = "pending"
            /\ retrier' = [retrier EXCEPT ![w] = [pc |-> "found", source |-> retry.source]]
  BY <1>1 DEF FindDue, turnRows, wishes, Capped, IInv, Typed, RetryRow
<1>3. Typed'
  BY <1>1, <1>2 DEF IInv, Typed, RetryRow, Places
<1>4. Unsuperseded'
  BY <1>1, <1>2 DEF IInv, Typed, Unsuperseded
<1>5. Charged' /\ Respected'
  BY <1>1, <1>2 DEF IInv, Charged, Respected
<1>6. QED
  BY <1>3, <1>4, <1>5 DEF IInv

LEMMA ClaimDueStep == ASSUME IInv, NEW w \in Retriers, ClaimDue(w) PROVE IInv'
<1>1. CASE retry.state = "pending" /\ retry.source = retrier[w].source /\ ~OutOfAttempts
  <2>1. /\ retry' = [retry EXCEPT !.state = "running", !.attempts = @ + 1]
        /\ retrier' = [retrier EXCEPT ![w].pc = "claimed"] /\ retrier[w].pc = "found"
        /\ UNCHANGED <<latest, contract, continued, halted>>
    BY <1>1 DEF ClaimDue, RetrierTo, IsAt, turnRows, wishes
  <2>2. Typed'
    <3>1. retry' \in RetryRow
      <4>1. retry' = [state |-> "running", source |-> retry.source, attempts |-> retry.attempts + 1]
        BY <2>1 DEF IInv, Typed, RetryRow
      <4>2. QED
        BY <4>1 DEF IInv, Typed, RetryRow
    <3>2. retrier' \in [Retriers -> [pc : Places, source : Nat]]
      BY <2>1 DEF IInv, Typed, Places
    <3>3. QED
      BY <2>1, <3>1, <3>2 DEF IInv, Typed
  <2>3. Charged'
    BY <1>1, <2>1 DEF IInv, Typed, RetryRow, Charged, OutOfAttempts
  <2>4. Respected'
    BY <1>1, <2>1 DEF IInv, Typed, RetryRow, Respected
  <2>5. Unsuperseded'
    BY <1>1, <2>1 DEF IInv, Typed, RetryRow, Unsuperseded
  <2>6. QED
    BY <2>2, <2>3, <2>4, <2>5 DEF IInv
<1>2. CASE ~(retry.state = "pending" /\ retry.source = retrier[w].source /\ ~OutOfAttempts)
  <2>1. RetrierTo(w, "idle") /\ UNCHANGED <<retry, latest, contract, continued, halted>>
    BY <1>2 DEF ClaimDue, turnRows, wishes
  <2>2. QED
    BY <2>1, WalkMoves, OnlyWorkersMove DEF Places
<1>3. QED
  BY <1>1, <1>2

LEMMA ContinueStep == ASSUME IInv, NEW w \in Retriers, Continue(w) PROVE IInv'
<1>1. /\ retry' = Superseded /\ retry.state = "running" /\ continued' = continued + 1
      /\ UNCHANGED <<contract, halted>> /\ Begins(w) /\ RetrierTo(w, "turn")
  BY DEF Continue, StillWanted
<1>2. /\ latest' \in [id : Nat, kind : {"none", "request", "answer"} \cup Unfinished]
      /\ Unsuperseded'
  BY <1>1, SupersededRow, WalkMoves, BeginsFresh DEF Places
<1>3. Typed'
  BY <1>1, <1>2, SupersededRow, WalkMoves DEF IInv, Typed, Places
<1>4. Charged'
  BY <1>1, SupersededRow DEF IInv, Typed, RetryRow, Charged
<1>5. Respected'
  BY <1>1 DEF IInv, Respected
<1>6. QED
  BY <1>2, <1>3, <1>4, <1>5 DEF IInv

LEMMA SettleRetryStep == ASSUME IInv, NEW w \in Retriers, SettleRetry(w) PROVE IInv'
<1>1. /\ retry' \in RetryRow /\ retry'.attempts = retry.attempts /\ retry'.source = retry.source
      /\ retry' = retry \/ (retry.state = "running" /\ retry'.state \in {"pending", "paused"})
  BY DEF IInv, Typed, RetryRow, SettleRetry
<1>2. /\ retrier' = [retrier EXCEPT ![w] = [pc |-> "idle", source |-> 0]]
      /\ UNCHANGED <<latest, contract, continued, halted>>
  BY DEF SettleRetry, turnRows, wishes
<1>3. Typed'
  BY <1>1, <1>2 DEF IInv, Typed, Places
<1>4. Unsuperseded'
  BY <1>1, <1>2 DEF IInv, Typed, Unsuperseded
<1>5. Charged' /\ Respected'
  BY <1>1, <1>2 DEF IInv, Charged, Respected
<1>6. QED
  BY <1>3, <1>4, <1>5 DEF IInv

LEMMA TurnsRecoveredStep == ASSUME IInv, TurnsRecovered PROVE IInv'
<1>1. /\ UNCHANGED <<retry, contract, retrier, continued, halted>>
      /\ UNCHANGED latest \/ latest' = [id |-> latest.id + 1, kind |-> "failed"]
  BY DEF TurnsRecovered, AppendEvent, wishes
<1>2. QED
  BY <1>1 DEF IInv, Typed, RetryRow, Charged, Respected, Unsuperseded, Unfinished

LEMMA RecoverAutoRetriesStep == ASSUME IInv, RecoverAutoRetries PROVE IInv'
<1>1. UNCHANGED <<latest, contract, retrier, continued, halted>>
  BY DEF RecoverAutoRetries, turnRows, wishes
<1>2. /\ retry' \in RetryRow /\ retry'.attempts = retry.attempts
      /\ \/ /\ retry' = [retry EXCEPT !.state = "pending", !.source = latest.id]
            /\ retry.state # "paused" /\ ~contract.disabled /\ latest.kind \in Unfinished
         \/ /\ retry'.source = retry.source
            /\ retry' = retry \/ (retry.state = "running" /\ retry'.state = "pending")
  BY DEF RecoverAutoRetries, IInv, Typed, RetryRow
<1>3. Unsuperseded'
  <2>1. latest.id \in Nat /\ retry.source \in Nat /\ Unsuperseded
    BY DEF IInv, Typed, RetryRow
  <2>2. CASE retry' = [retry EXCEPT !.state = "pending", !.source = latest.id] /\ latest.kind \in Unfinished
    <3>1. retry'.source = latest.id
      BY <2>2 DEF IInv, Typed, RetryRow
    <3>2. QED
      BY <1>1, <2>1, <2>2, <3>1 DEF Unsuperseded
  <2>3. CASE /\ retry'.source = retry.source
             /\ retry' = retry \/ (retry.state = "running" /\ retry'.state = "pending")
    BY <1>1, <2>1, <2>3 DEF Unsuperseded
  <2>4. QED
    BY <1>2, <2>2, <2>3
<1>4. Charged' /\ Respected'
  BY <1>1, <1>2 DEF IInv, Typed, RetryRow, Charged, Respected
<1>5. QED
  BY <1>1, <1>2, <1>3, <1>4 DEF IInv, Typed

LEMMA SessionKeeps == ASSUME IInv, SessionStep PROVE IInv'
<1>1. CASE Request
  BY <1>1, RequestStep
<1>2. CASE \E kind \in {"answer", "partial", "failed"} : Ends(kind)
  BY <1>2, EndsStep
<1>3. CASE Asks
  BY <1>3, ReturnMoves, OnlyWorkersMove DEF Asks, wishes
<1>4. CASE ReceiptLost
  BY <1>4, ReturnMoves, OnlyWorkersMove DEF ReceiptLost, wishes
<1>5. CASE ContinuationBlocked
  BY <1>5, ReturnMoves, OnlyWorkersMove DEF ContinuationBlocked, wishes
<1>6. CASE \E sure \in BOOLEAN : StopFinished(sure)
  BY <1>6, ReturnMoves, OnlyWorkersMove DEF StopFinished, wishes
<1>7. CASE UserDecides \/ ReceiptPersisted \/ StopAsked \/ StopReconciled
  BY <1>7, NobodyMoves DEF UserDecides, ReceiptPersisted, StopAsked, StopReconciled, wishes
<1>8. CASE PauseAutoRetry
  BY <1>8, PauseStep
<1>9. CASE \E mode \in {"auto", "ask_all"} : SetApprovalMode(mode)
  BY <1>9 DEF SetApprovalMode, IInv, Typed, Charged, Respected, Unsuperseded, turnRows, wishes
<1>10. QED
  BY <1>1, <1>2, <1>3, <1>4, <1>5, <1>6, <1>7, <1>8, <1>9 DEF SessionStep

LEMMA WorkerKeeps == ASSUME IInv, NEW w \in Retriers, WorkerStep(w) PROVE IInv'
<1>1. CASE ContinueRefused(w) \/ ApprovalsEnd(w)
  BY <1>1, WalkMoves, OnlyWorkersMove DEF ContinueRefused, ApprovalsEnd, Places, turnRows, wishes
<1>2. CASE FindApproval(w)
  BY <1>2, WalkMoves, OnlyWorkersMove DEF FindApproval, Places, turnRows, wishes
<1>3. CASE AutoDecides(w)
  <2>1. /\ RetrierTo(w, "turn") \/ RetrierTo(w, "settling")
        /\ UNCHANGED <<retry, latest, contract, continued, halted>>
    BY <1>3 DEF AutoDecides, wishes
  <2>2. QED
    BY <2>1, WalkMoves, OnlyWorkersMove DEF Places
<1>4. QED
  BY <1>1, <1>2, <1>3, FindDueStep, ClaimDueStep, ContinueStep, SettleRetryStep DEF WorkerStep

LEMMA RestartKeeps == ASSUME IInv, RestartStep PROVE IInv'
<1>1. CASE ProcessStops
  BY <1>1, OnlyWorkersMove DEF ProcessStops, IInv, Typed, Places, wishes
<1>2. CASE ControlsRecovered \/ \E verdict \in {"none", "pending", "uncertain"} : ApprovalsRecovered(verdict)
  BY <1>2, NobodyMoves DEF ControlsRecovered, ApprovalsRecovered, wishes
<1>3. QED
  BY <1>1, <1>2, TurnsRecoveredStep, RecoverAutoRetriesStep DEF RestartStep

LEMMA EveryStepKeeps == IInv /\ [RetryNext]_retryVars => IInv'
<1> SUFFICES ASSUME IInv, [RetryNext]_retryVars PROVE IInv'
  OBVIOUS
<1>1. CASE UNCHANGED retryVars
  BY <1>1, NobodyMoves DEF retryVars, turnRows, wishes
<1>2. QED
  BY <1>1, SessionKeeps, WorkerKeeps, RestartKeeps DEF RetryNext

-----------------------------------------------------------------------------
\* Whatever crashes, refusals and schedules come between them, no more turns
\* are taken automatically than the allowance of the last request.
THEOREM AllowanceIsKept == RetrySpec => []AllowanceHeld
<1>1. IInv => AllowanceHeld
  BY DEF IInv, Typed, RetryRow, Charged, AllowanceHeld
<1>2. QED
  BY <1>1, Initially, EveryStepKeeps, PTL DEF RetrySpec

\* A worker begins to execute only what the user wants executed: not after a
\* pause, not in a session that asks, and not what is answered or superseded.
THEOREM OnlyWhatIsWanted == RetrySpec => AutomaticIsWanted
<1> DEFINE Begun(w) ==
      retrier[w].pc # "turn" /\ retrier'[w].pc = "turn" =>
        /\ ~halted /\ ~contract.disabled
        /\ retrier[w].pc = "claimed" => latest.kind \in Unfinished
        /\ retrier[w].pc = "deciding" => contract.mode = "auto"
<1>1. ASSUME IInv, [RetryNext]_retryVars, NEW w \in Retriers PROVE Begun(w)
  <2> SUFFICES ASSUME retrier[w].pc # "turn", retrier'[w].pc = "turn"
               PROVE  Begun(w)
    OBVIOUS
  <2> HIDE DEF Begun
  <2>1. CASE Continue(w)
    <3>1. /\ retrier[w].pc = "claimed" /\ retry.state = "running"
          /\ latest.id = retrier[w].source
      BY <2>1 DEF Continue, IsAt, StillWanted
    <3>2. ~halted /\ ~contract.disabled
      BY <1>1, <3>1 DEF IInv, Respected
    <3>3. latest.kind \in Unfinished
      BY <1>1, <3>1 DEF IInv, Unsuperseded
    <3>4. QED
      BY <3>1, <3>2, <3>3 DEF Begun
  <2>2. CASE AutoDecides(w)
    <3>1. /\ retrier[w].pc = "deciding"
          /\ contract.mode = "auto" /\ retry.state \notin {"none", "paused"}
      BY <1>1, <2>2 DEF AutoDecides, IsAt, RetrierTo, IInv, Typed
    <3>2. ~halted /\ ~contract.disabled
      BY <1>1, <3>1 DEF IInv, Respected
    <3>3. QED
      BY <3>1, <3>2 DEF Begun
  <2>3. CASE SessionStep
    <3>1. retrier' = retrier \/ \E pc \in {"approving", "settling"} : Returns(pc)
      BY <2>3 DEF SessionStep, Request, Ends, Asks, UserDecides, ReceiptPersisted, ReceiptLost,
           ContinuationBlocked, StopAsked, StopFinished, StopReconciled, PauseAutoRetry, SetApprovalMode
    <3>2. QED
      BY <1>1, <3>1 DEF Returns, IInv, Typed
  <2>4. CASE RestartStep
    BY <2>4 DEF RestartStep, ProcessStops, ApprovalsRecovered, TurnsRecovered,
         RecoverAutoRetries, ControlsRecovered
  <2>5. CASE \E x \in Retriers : WorkerStep(x) /\ ~Continue(x) /\ ~AutoDecides(x)
    BY <1>1, <2>5 DEF WorkerStep, FindDue, ClaimDue, ContinueRefused, FindApproval,
         ApprovalsEnd, SettleRetry, RetrierTo, IInv, Typed
  <2>6. CASE \E x \in Retriers : x # w /\ (Continue(x) \/ AutoDecides(x))
    BY <1>1, <2>6 DEF Continue, AutoDecides, RetrierTo, IInv, Typed
  <2>7. CASE UNCHANGED retryVars
    BY <2>7 DEF retryVars, Begun
  <2>8. QED
    BY <1>1, <2>1, <2>2, <2>3, <2>4, <2>5, <2>6, <2>7 DEF RetryNext
<1>2. IInv /\ [RetryNext]_retryVars => [\A w \in Retriers : Begun(w)]_retryVars
  BY <1>1
<1>3. QED
  BY <1>2, Initially, EveryStepKeeps, PTL DEF RetrySpec, AutomaticIsWanted
=============================================================================
