--------------------------- MODULE Services_proofs ---------------------------
(***************************************************************************)
(* The services around the task engine, for any number of callers, tasks,  *)
(* files, blobs, runs and restarts: one inductive invariant for each of    *)
(* the six modules that MCServices composes, and the safety property of    *)
(* each that a run checks on a small instance.  They share no state, so    *)
(* neither do the proofs.  Their types come last, from those invariants.   *)
(***************************************************************************)
EXTENDS ProposalFlow, McpPool, TeamRun, FileMutation, BlobCollector, LearningOutbox, WellFoundedInduction, TLAPS

(***************************************************************************)
(* Writes of a file.                                                       *)
(***************************************************************************)

\* The places between planning a write and its return.
Writing == {"check", "dispatch", "replace", "receipt", "observe"}

\* What a writer's row says while it is at a place.
IntentFits(w) ==
  /\ writer[w] = "idle" => intent[w].state = "none"
  /\ writer[w] \in {"check", "dispatch"} => intent[w].state = "planned"
  /\ writer[w] \in {"replace", "receipt", "observe"} => intent[w].state = "dispatched"
  /\ writer[w] = "observe" => receipt[w]
  /\ writer[w] \in Writing => ~booting /\ pathLock = w
  /\ intent[w].state \in {"observed", "reconciled"} => receipt[w]

\* Whoever replaced the file last left his own text in it.
LastFits ==
  lastChange \in Writers =>
    /\ disk = intent[lastChange].after
    /\ writer[lastChange] \in {"receipt", "observe", "done"}
    /\ intent[lastChange].state \in {"dispatched", "observed", "reconciled", "uncertain"}

MutationIInv == MutationTypeOK /\ (\A w \in Writers : IntentFits(w)) /\ LastFits

\* A step of a writer keeps the invariant: every one but its first and its last
\* is made under the lock of the path.
LEMMA WriterKeeps ==
  ASSUME MutationIInv, NEW w \in Writers,
         \/ PlanMutation(w) \/ CheckPreimage(w) \/ DispatchMutation(w) \/ ReplaceFile(w)
         \/ SaveReceipt(w) \/ ObserveMutation(w)
  PROVE  MutationIInv'
<1>0. /\ MutationTypeOK /\ LastFits /\ IntentFits(w) /\ \A v \in Writers : IntentFits(v)
  BY DEF MutationIInv
<1> USE FileMutationAssumption DEF SetIntent, WriterGoes, Returns, mutationBounds
\* The step is made under the lock of the path.
<1>1. /\ ~booting /\ ~booting' /\ pathLock \in {w, Unlocked} /\ pathLock' \in {w, Unlocked}
      /\ \A v \in Writers \ {w} :
           writer'[v] = writer[v] /\ intent'[v] = intent[v] /\ receipt'[v] = receipt[v]
      /\ boots' = boots /\ changes' = changes /\ booting' = booting
  BY <1>0 DEF MutationTypeOK, IntentFits, Writing, PlanMutation, CheckPreimage, DispatchMutation,
              ReplaceFile, SaveReceipt, ObserveMutation
<1>2. ASSUME NEW v \in Writers \ {w} PROVE IntentFits(v)'
  <2>1. IntentFits(v) /\ v # Unlocked
    BY <1>0
  <2>2. writer[v] \notin Writing
    BY <1>1, <2>1 DEF IntentFits
  <2>3. QED
    BY <1>1, <2>1, <2>2 DEF IntentFits, Writing
<1>3. CASE PlanMutation(w)
  <2>1. PICK content \in Texts :
          intent' = [intent EXCEPT ![w] = [state |-> "planned", before |-> disk, after |-> content]]
    BY <1>3 DEF PlanMutation
  <2>2. MutationTypeOK' /\ IntentFits(w)'
    BY <1>0, <1>1, <1>3, <2>1 DEF MutationTypeOK, PlanMutation, IntentFits, Writing
  <2>3. LastFits'
    BY <1>0, <1>1, <1>3, <2>1 DEF MutationTypeOK, PlanMutation, LastFits
  <2>4. QED
    BY <1>2, <2>2, <2>3 DEF MutationIInv
<1>4. CASE CheckPreimage(w) \/ DispatchMutation(w)
  <2>1. MutationTypeOK'
    BY <1>0, <1>1, <1>4 DEF MutationTypeOK, CheckPreimage, DispatchMutation
  <2>2. IntentFits(w)'
    BY <1>0, <1>1, <1>4 DEF MutationTypeOK, CheckPreimage, DispatchMutation, IntentFits, Writing
  <2>3. LastFits'
    BY <1>0, <1>1, <1>4 DEF MutationTypeOK, CheckPreimage, DispatchMutation, LastFits
  <2>4. QED
    BY <1>2, <2>1, <2>2, <2>3 DEF MutationIInv
<1>5. CASE ReplaceFile(w)
  <2>1. MutationTypeOK'
    BY <1>0, <1>1, <1>5 DEF MutationTypeOK, ReplaceFile
  <2>2. IntentFits(w)'
    BY <1>0, <1>1, <1>5 DEF MutationTypeOK, ReplaceFile, IntentFits, Writing
  <2>3. LastFits'
    BY <1>0, <1>1, <1>5 DEF MutationTypeOK, IntentFits, ReplaceFile, LastFits
  <2>4. QED
    BY <1>2, <2>1, <2>2, <2>3 DEF MutationIInv
<1>6. CASE SaveReceipt(w) \/ ObserveMutation(w)
  <2>1. MutationTypeOK'
    <3>1. receipt' \in [Writers -> BOOLEAN]
      BY <1>0, <1>6 DEF MutationTypeOK, SaveReceipt, ObserveMutation
    <3>2. CASE SaveReceipt(w)
      BY <1>0, <1>1, <3>1, <3>2 DEF MutationTypeOK, SaveReceipt
    <3>3. CASE ObserveMutation(w)
      BY <1>0, <1>1, <3>1, <3>3 DEF MutationTypeOK, ObserveMutation
    <3>4. QED
      BY <1>6, <3>2, <3>3
  <2>2. IntentFits(w)'
    BY <1>0, <1>1, <1>6 DEF MutationTypeOK, SaveReceipt, ObserveMutation, IntentFits, Writing
  <2>3. LastFits'
    BY <1>0, <1>1, <1>6 DEF MutationTypeOK, IntentFits, SaveReceipt, ObserveMutation, LastFits
  <2>4. QED
    BY <1>2, <2>1, <2>2, <2>3 DEF MutationIInv
<1>7. QED
  BY <1>3, <1>4, <1>5, <1>6

\* What the disk says of a dispatched intent is what happened, if it happened last.
LEMMA RecoveryKeeps ==
  ASSUME MutationIInv, NEW w \in Writers, RecoverFileMutation(w) \/ RecoveryIsBlind(w)
  PROVE  MutationIInv'
<1>0. /\ MutationTypeOK /\ LastFits /\ \A v \in Writers : IntentFits(v)
  BY DEF MutationIInv
<1>1. PICK state \in {"reconciled", "abandoned", "uncertain"} :
        /\ intent' = [intent EXCEPT ![w].state = state]
        /\ receipt' = IF state = "reconciled" THEN [receipt EXCEPT ![w] = TRUE] ELSE receipt
        /\ state = "abandoned" => disk # intent[w].after
  BY DEF RecoverFileMutation, RecoveryIsBlind, SetIntent
<1>2. /\ booting /\ intent[w].state = "dispatched"
      /\ UNCHANGED <<disk, pathLock, writer, lastChange, booting, changes, boots>>
  BY DEF RecoverFileMutation, RecoveryIsBlind, mutationBounds
<1>3. MutationTypeOK'
  BY <1>0, <1>1, <1>2 DEF MutationTypeOK
<1>4. ASSUME NEW v \in Writers PROVE IntentFits(v)'
  <2>1. IntentFits(v) /\ writer[v] \notin Writing
    BY <1>0, <1>2 DEF IntentFits
  <2>2. QED
    BY <1>0, <1>1, <1>2, <2>1 DEF MutationTypeOK, IntentFits, Writing
<1>5. LastFits'
  BY <1>0, <1>1, <1>2 DEF MutationTypeOK, LastFits
<1>6. QED
  BY <1>3, <1>4, <1>5 DEF MutationIInv

\* So does every step of the module.
LEMMA MutationStepKeeps ==
  ASSUME MutationIInv, [MutationNext]_mutationVars
  PROVE  MutationIInv'
<1>0. /\ MutationTypeOK /\ LastFits /\ \A v \in Writers : IntentFits(v)
  BY DEF MutationIInv
<1>1. CASE ChangeOutside
  BY <1>0, <1>1, FileMutationAssumption DEF MutationIInv, MutationTypeOK, IntentFits, LastFits, ChangeOutside
<1>2. CASE StopProduct
  <2>1. MutationTypeOK'
    BY <1>0, <1>2 DEF MutationTypeOK, StopProduct
  <2>2. (\A w \in Writers : IntentFits(w))'
    BY <1>0, <1>2 DEF IntentFits, StopProduct, Writing
  <2>3. LastFits'
    BY <1>0, <1>2 DEF LastFits, StopProduct, Writing
  <2>4. QED
    BY <2>1, <2>2, <2>3 DEF MutationIInv
<1>3. CASE Serve
  BY <1>0, <1>3 DEF MutationIInv, MutationTypeOK, IntentFits, LastFits, Serve, mutationBounds
<1>4. CASE UNCHANGED mutationVars
  BY <1>0, <1>4 DEF MutationIInv, MutationTypeOK, IntentFits, LastFits, mutationVars
<1>5. QED
  BY <1>1, <1>2, <1>3, <1>4, WriterKeeps, RecoveryKeeps DEF MutationNext

\* The invariant holds throughout.
LEMMA MutationsHold == MutationSpec => []MutationIInv
<1>1. MutationInit => MutationIInv
  <2>1. ASSUME MutationInit PROVE MutationTypeOK
    BY <2>1 DEF MutationInit, MutationTypeOK, NoIntent
  <2>2. ASSUME MutationInit PROVE LastFits /\ \A w \in Writers : IntentFits(w)
    BY <2>2, FileMutationAssumption DEF MutationInit, IntentFits, LastFits, NoIntent, Writing
  <2>3. QED
    BY <2>1, <2>2 DEF MutationIInv
<1>2. MutationIInv /\ [MutationNext]_mutationVars => MutationIInv'
  BY MutationStepKeeps
<1>3. QED
  BY <1>1, <1>2, PTL DEF MutationSpec

\* The last replacement of the file is on record, for any number of writers and
\* texts, whatever fails, stops or is changed by others (RecoverFileMutations).
THEOREM ReplacementIsOnRecord == MutationSpec => []LastReplacementOnRecord
<1>1. MutationIInv => LastReplacementOnRecord
  BY DEF MutationIInv, IntentFits, LastFits, LastReplacementOnRecord
<1>2. QED
  BY <1>1, MutationsHold, PTL

-----------------------------------------------------------------------------
(***************************************************************************)
(* Evidence and its reviews.                                               *)
(***************************************************************************)

ReviewRow == [state : {"none", "queued", "running", "completed", "failed"}, candidates : Nat]
DrainRow == [pc : {"idle", "next", "enqueue", "mark", "return"}, item : Triggers \cup {"none"},
             rest : SUBSET Triggers]

\* The places at which a worker has a review in hand.
AtReview == {"gate", "review", "look", "create", "promote", "complete", "requeue", "fail"}
WorkerRow == [pc : AtReview \cup {"idle", "recovering"}, key : ReviewKeys \cup {"none"}]

LearningRows ==
  /\ outbox \in [Triggers -> {"none", "pending", "processing", "processed"}]
  /\ review \in [ReviewKeys -> ReviewRow]
  /\ revision \in 1..Revisions
  /\ drain \in [Drainers -> DrainRow]
  /\ worker \in [Reviewers -> WorkerRow]

HasReview(x) == \E r \in 1..Revisions : review[<<Milestone[x], r>>].state # "none"

DrainFits(d) ==
  /\ drain[d].pc \in {"enqueue", "mark", "return"} => drain[d].item \in Triggers
  /\ drain[d].pc = "mark" => HasReview(drain[d].item)

\* A worker has claimed the review it works on, and creates its first candidate.
WorkerFits(w) ==
  worker[w].pc \in AtReview =>
    /\ worker[w].key \in ReviewKeys
    /\ review[worker[w].key].state = "running"
    /\ worker[w].pc = "create" => review[worker[w].key].candidates = 0

\* No two workers have the same review; and they recover together.
Apart(v, w) ==
  /\ worker[v].pc \in AtReview /\ worker[w].pc \in AtReview /\ worker[v].key = worker[w].key => v = w
  /\ worker[v].pc = "recovering" => worker[w].pc = "recovering"

LearningIInv ==
  /\ LearningRows
  /\ \A x \in Triggers : outbox[x] = "processed" => HasReview(x)
  /\ \A d \in Drainers : DrainFits(d)
  /\ \A w \in Reviewers : WorkerFits(w)
  /\ \A v, w \in Reviewers : Apart(v, w)
  /\ \A k \in ReviewKeys : review[k].candidates <= 1

\* The review of a trigger is one of the reviews there can be.
LEMMA KeysOfTriggers ==
  ASSUME NEW x \in Triggers, NEW r \in 1..Revisions
  PROVE  <<Milestone[x], r>> \in ReviewKeys
BY DEF ReviewKeys, Milestones

\* A review that was wanted does not go away.
LEMMA ReviewsStay ==
  ASSUME NEW x \in Triggers, HasReview(x),
         \A k \in ReviewKeys : review[k].state # "none" => review'[k].state # "none"
  PROVE  HasReview(x)'
<1>1. PICK r \in 1..Revisions : review[<<Milestone[x], r>>].state # "none"
  BY DEF HasReview
<1>2. review'[<<Milestone[x], r>>].state # "none"
  BY <1>1, KeysOfTriggers
<1>3. QED
  BY <1>2 DEF HasReview

\* What concerns neither a review nor a worker keeps what is said of them.
LEMMA DrainsKeep ==
  ASSUME LearningIInv, NEW d \in Drainers,
         ReadPending(d) \/ ClaimTrigger(d) \/ EnqueueReview(d) \/ SettleTrigger(d)
  PROVE  LearningIInv'
<1>0. /\ LearningRows /\ DrainFits(d)
      /\ drain[d] \in DrainRow
  BY DEF LearningIInv, LearningRows
<1>1. /\ worker' = worker /\ revision' = revision
      /\ \A e \in Drainers \ {d} : drain'[e] = drain[e]
  BY <1>0 DEF LearningRows, ReadPending, ClaimTrigger, EnqueueReview, SettleTrigger, DrainGoes
<1>2. CASE EnqueueReview(d)
  <2>1. drain[d].item \in Triggers /\ Key(drain[d].item) \in ReviewKeys /\ revision \in 1..Revisions
        /\ drain[d].pc = "enqueue"
    BY <1>0, <1>2, KeysOfTriggers DEF EnqueueReview, DrainFits, Key, LearningRows
  <2> DEFINE k == Key(drain[d].item)
  <2>2. /\ UNCHANGED outbox
        /\ \/ /\ review' = [review EXCEPT ![k].state = IF @ = "none" THEN "queued" ELSE @]
              /\ drain' = [drain EXCEPT ![d].pc = "mark"]
           \/ drain' = [drain EXCEPT ![d].pc = "return"] /\ UNCHANGED review
    BY <1>2 DEF EnqueueReview, DrainGoes
  <2> HIDE DEF k
  <2>3. /\ review' \in [ReviewKeys -> ReviewRow]
        /\ \A j \in ReviewKeys : /\ review'[j].candidates = review[j].candidates
                                 /\ review[j].state # "none" => review'[j].state = review[j].state
    BY <1>0, <2>1, <2>2 DEF k, LearningRows, ReviewRow
  <2>4. LearningRows'
    BY <1>0, <1>1, <2>2, <2>3 DEF LearningRows, DrainRow
  <2>5. drain'[d].item = drain[d].item /\ (drain'[d].pc = "mark" => review'[k].state # "none")
    BY <1>0, <2>1, <2>2 DEF k, LearningRows, DrainRow, ReviewRow
  <2>6. drain'[d].pc = "mark" => HasReview(drain[d].item)'
    BY <2>1, <2>5 DEF k, Key, HasReview
  <2>7. \A x \in Triggers : HasReview(x) => HasReview(x)'
    BY <2>3, ReviewsStay
  <2>8. ASSUME NEW e \in Drainers PROVE DrainFits(e)'
    <3>1. DrainFits(e)
      BY DEF LearningIInv
    <3>2. CASE e = d
      BY <2>1, <2>5, <2>6, <3>2 DEF DrainFits, HasReview
    <3>3. CASE e # d
      BY <1>1, <2>7, <3>1, <3>3 DEF DrainFits, HasReview
    <3>4. QED
      BY <3>2, <3>3
  <2>9. \A w \in Reviewers : WorkerFits(w)'
    BY <1>1, <2>3 DEF LearningIInv, WorkerFits
  <2>10. \A v, w \in Reviewers : Apart(v, w)'
    BY <1>1 DEF LearningIInv, Apart
  <2>11. QED
    BY <2>2, <2>3, <2>4, <2>7, <2>8, <2>9, <2>10 DEF LearningIInv, HasReview
<1>3. CASE ReadPending(d) \/ ClaimTrigger(d) \/ SettleTrigger(d)
  <2>1. review' = review
    BY <1>3 DEF ReadPending, ClaimTrigger, SettleTrigger
  <2>2. \A x \in Triggers : HasReview(x)' <=> HasReview(x)
    BY <2>1 DEF HasReview
  <2>3. /\ LearningRows' /\ DrainFits(d)'
        /\ \A x \in Triggers : outbox'[x] = "processed" => HasReview(x)
    <3>1. CASE ReadPending(d)
      <4>1. drain'[d].pc = "next" /\ LearningRows'
        BY <1>0, <1>1, <2>1, <3>1 DEF LearningRows, DrainRow, ReadPending
      <4>2. QED
        BY <3>1, <4>1 DEF DrainFits, LearningIInv, ReadPending
    <3>2. CASE ClaimTrigger(d)
      <4>1. \/ outbox' = outbox /\ drain'[d].pc \in {"idle", "next"}
            \/ \E x \in Triggers : /\ outbox' = [outbox EXCEPT ![x] = "processing"]
                                   /\ drain'[d].pc = "enqueue" /\ drain'[d].item = x
        BY <1>0, <3>2 DEF LearningRows, DrainRow, ClaimTrigger, IdleDrain
      <4>2. LearningRows'
        BY <1>0, <1>1, <2>1, <3>2 DEF LearningRows, DrainRow, ClaimTrigger, IdleDrain
      <4>3. QED
        BY <1>0, <4>1, <4>2 DEF DrainFits, LearningIInv, LearningRows
    <3>3. CASE SettleTrigger(d)
      <4>1. drain[d].item \in Triggers /\ drain[d].pc \in {"mark", "return"}
        BY <1>0, <3>3 DEF SettleTrigger, DrainFits
      <4>2. drain'[d].pc \in {"next", "idle"} /\ LearningRows'
        <5>1. PICK place \in DrainRow : drain' = [drain EXCEPT ![d] = place] /\ place.pc \in {"next", "idle"}
          <6>1. /\ IdleDrain \in DrainRow /\ IdleDrain.pc = "idle"
                /\ [drain[d] EXCEPT !.pc = "next", !.item = "none"] \in DrainRow
                /\ [drain[d] EXCEPT !.pc = "next", !.item = "none"].pc = "next"
            BY <1>0 DEF DrainRow, IdleDrain
          <6>2. \/ drain' = [drain EXCEPT ![d] = IdleDrain]
                \/ drain' = [drain EXCEPT ![d] = [drain[d] EXCEPT !.pc = "next", !.item = "none"]]
            BY <3>3 DEF SettleTrigger
          <6>3. QED
            BY <6>1, <6>2
        <5>2. outbox' \in [Triggers -> {"none", "pending", "processing", "processed"}]
          BY <1>0, <3>3 DEF LearningRows, SettleTrigger
        <5>3. QED
          BY <1>0, <1>1, <2>1, <5>1, <5>2 DEF LearningRows
      <4>3. \A x \in Triggers : outbox'[x] = "processed" =>
              outbox[x] = "processed" \/ (x = drain[d].item /\ drain[d].pc = "mark")
        BY <1>0, <3>3, <4>1 DEF LearningRows, SettleTrigger
      <4>4. QED
        BY <1>0, <4>2, <4>3 DEF DrainFits, LearningIInv
    <3>4. QED
      BY <1>3, <3>1, <3>2, <3>3
  <2>4. \A e \in Drainers : DrainFits(e)'
    BY <1>1, <2>1, <2>3 DEF LearningIInv, DrainFits, HasReview
  <2>5. QED
    BY <1>1, <2>1, <2>2, <2>3, <2>4 DEF LearningIInv, WorkerFits, Apart, HasReview
<1>4. QED
  BY <1>2, <1>3

\* A worker's step changes the review that it has before or after the step.
ReviewerMoves(w) ==
  \E k \in ReviewKeys, asked \in ReviewRow, place \in WorkerRow :
     /\ worker' = [worker EXCEPT ![w] = place]
     /\ review' = [review EXCEPT ![k] = asked]
     /\ \/ worker[w].pc \in AtReview /\ worker[w].key = k
        \/ worker[w].pc = "idle" /\ review[k].state = "queued"
     /\ asked.state # "none" /\ asked.candidates <= 1
     /\ place.pc # "recovering"
     /\ place.pc \in AtReview => place.key = k /\ asked.state = "running"
     /\ place.pc = "create" => asked.candidates = 0

\* One worker's step changes the review it has in hand, if any.
LEMMA ReviewersKeep ==
  ASSUME LearningIInv, NEW w \in Reviewers,
         \/ ClaimReview(w) \/ EnterGate(w) \/ AnswerReview(w) \/ LookForCandidate(w)
         \/ CreateCandidate(w) \/ TryAutomatedPromotion(w) \/ AbortReview(w) \/ SettleReview(w)
  PROVE  LearningIInv'
<1>0. /\ LearningRows /\ WorkerFits(w) /\ worker[w] \in WorkerRow
      /\ \A k \in ReviewKeys : review[k].candidates <= 1
  BY DEF LearningIInv, LearningRows
<1>1. UNCHANGED <<outbox, revision, drain>>
  BY DEF ClaimReview, EnterGate, AnswerReview, LookForCandidate, CreateCandidate, TryAutomatedPromotion,
         AbortReview, SettleReview
<1>2. ReviewerMoves(w)
  <2>1. CASE ClaimReview(w)
    <3>1. PICK k \in ReviewKeys :
            /\ worker[w].pc = "idle" /\ review[k].state = "queued"
            /\ review' = [review EXCEPT ![k].state = "running"]
            /\ worker' = [worker EXCEPT ![w] = [pc |-> "gate", key |-> k]]
      BY <2>1 DEF ClaimReview
    <3>2. review[k] \in ReviewRow /\ review[k].candidates <= 1
      BY <1>0 DEF LearningRows
    <3> DEFINE asked == [review[k] EXCEPT !.state = "running"]
               place == [pc |-> "gate", key |-> k]
    <3>3. asked \in ReviewRow /\ asked.state = "running" /\ asked.candidates <= 1
      BY <3>2 DEF ReviewRow
    <3>4. place \in WorkerRow /\ place.pc = "gate" /\ place.key = k
      BY DEF WorkerRow, AtReview
    <3>5. review' = [review EXCEPT ![k] = asked] /\ worker' = [worker EXCEPT ![w] = place]
      BY <3>1
    <3> HIDE DEF asked, place
    <3>6. QED
      BY <3>1, <3>3, <3>4, <3>5 DEF ReviewerMoves
  <2>2. ASSUME worker[w].pc \in AtReview
        PROVE  /\ worker[w].key \in ReviewKeys /\ review[worker[w].key].state = "running"
               /\ review[worker[w].key] \in ReviewRow /\ review[worker[w].key].candidates <= 1
               /\ worker[w].pc = "create" => review[worker[w].key].candidates = 0
    BY <1>0, <2>2 DEF WorkerFits, LearningRows
  <2>3. ASSUME NEW p \in {"review", "complete", "look", "create", "requeue", "fail"},
               worker[w].pc \in AtReview, WorkerGoes(w, p), UNCHANGED review,
               p = "create" => review[worker[w].key].candidates = 0
        PROVE  ReviewerMoves(w)
    <3> DEFINE k == worker[w].key
               asked == review[k]
               place == [worker[w] EXCEPT !.pc = p]
    <3>1. /\ asked \in ReviewRow /\ asked.state = "running" /\ asked.candidates <= 1 /\ k \in ReviewKeys
          /\ p = "create" => asked.candidates = 0
      BY <2>2, <2>3
    <3>2. place \in WorkerRow /\ place.pc = p /\ place.key = k /\ p # "recovering"
      BY <1>0, <2>3 DEF WorkerRow, AtReview
    <3>3. review' = [review EXCEPT ![k] = asked] /\ worker' = [worker EXCEPT ![w] = place]
      BY <1>0, <2>3, <3>1 DEF WorkerGoes, LearningRows
    <3>4. worker[w].pc \in AtReview /\ worker[w].key = k
      BY <2>3
    <3> HIDE DEF k, asked, place
    <3>5. QED
      BY <3>1, <3>2, <3>3, <3>4 DEF ReviewerMoves
  <2>4. CASE EnterGate(w) \/ AnswerReview(w) \/ LookForCandidate(w) \/ TryAutomatedPromotion(w) \/ AbortReview(w)
    <3>1. /\ worker[w].pc \in AtReview /\ UNCHANGED review
          /\ \E p \in {"review", "complete", "look", "create", "requeue", "fail"} :
               /\ WorkerGoes(w, p)
               /\ p = "create" => ~(review[worker[w].key].candidates > 0)
      BY <2>4 DEF EnterGate, AnswerReview, LookForCandidate, TryAutomatedPromotion, AbortReview, AtReview
    <3>2. review[worker[w].key].candidates \in Nat
      BY <2>2, <3>1 DEF ReviewRow
    <3>3. QED
      BY <2>3, <3>1, <3>2
  <2>5. CASE CreateCandidate(w)
    <3> DEFINE k == worker[w].key
               asked == [review[k] EXCEPT !.candidates = @ + 1]
               place == [worker[w] EXCEPT !.pc = "promote"]
    <3>1. worker[w].pc = "create" /\ worker[w].pc \in AtReview
      BY <2>5 DEF CreateCandidate, AtReview
    <3>2. /\ asked \in ReviewRow /\ asked.state = "running" /\ asked.candidates <= 1 /\ k \in ReviewKeys
      BY <2>2, <3>1 DEF ReviewRow
    <3>3. place \in WorkerRow /\ place.pc = "promote" /\ place.key = k
      BY <1>0 DEF WorkerRow, AtReview
    <3>4. review' = [review EXCEPT ![k] = asked] /\ worker' = [worker EXCEPT ![w] = place]
      BY <2>5 DEF CreateCandidate, WorkerGoes
    <3>5. worker[w].key = k
      OBVIOUS
    <3> HIDE DEF k, asked, place
    <3>6. QED
      BY <3>1, <3>2, <3>3, <3>4, <3>5 DEF ReviewerMoves
  <2>6. CASE SettleReview(w)
    <3> DEFINE k == worker[w].key
    <3>1. worker[w].pc \in AtReview
      BY <2>6 DEF SettleReview, AtReview
    <3>2. PICK state \in {"completed", "queued", "failed", "running"} :
            review' = [review EXCEPT ![k] = [@ EXCEPT !.state = state]]
      <4>1. CASE UNCHANGED review
        <5>1. review' = [review EXCEPT ![k] = [@ EXCEPT !.state = "running"]]
          BY <1>0, <2>2, <3>1, <4>1 DEF LearningRows, ReviewRow
        <5>2. QED
          BY <5>1
      <4>2. CASE ~UNCHANGED review
        <5>1. PICK state \in {"completed", "queued", "failed"} :
                review' = [review EXCEPT ![k].state = IF @ = "running" THEN state ELSE @]
          BY <2>6, <4>2 DEF SettleReview
        <5>2. review' = [review EXCEPT ![k] = [@ EXCEPT !.state = state]]
          BY <2>2, <3>1, <5>1
        <5>3. QED
          BY <5>2
      <4>3. QED
        BY <4>1, <4>2
    <3> DEFINE asked == [review[k] EXCEPT !.state = state]
    <3>3. asked \in ReviewRow /\ asked.state # "none" /\ asked.candidates <= 1 /\ k \in ReviewKeys
      BY <2>2, <3>1 DEF ReviewRow
    <3>4. IdleWorker \in WorkerRow /\ IdleWorker.pc = "idle" /\ IdleWorker.pc \notin AtReview
      BY DEF WorkerRow, IdleWorker, AtReview
    <3>5. review' = [review EXCEPT ![k] = asked] /\ worker' = [worker EXCEPT ![w] = IdleWorker]
      BY <2>6, <3>2 DEF SettleReview
    <3>6. worker[w].key = k
      OBVIOUS
    <3> HIDE DEF k, asked
    <3>7. QED
      BY <3>1, <3>3, <3>4, <3>5, <3>6 DEF ReviewerMoves
  <2>7. QED
    BY <2>1, <2>4, <2>5, <2>6
<1>3. PICK k \in ReviewKeys, asked \in ReviewRow, place \in WorkerRow :
        /\ worker' = [worker EXCEPT ![w] = place]
        /\ review' = [review EXCEPT ![k] = asked]
        /\ \/ worker[w].pc \in AtReview /\ worker[w].key = k
           \/ worker[w].pc = "idle" /\ review[k].state = "queued"
        /\ asked.state # "none" /\ asked.candidates <= 1
        /\ place.pc # "recovering"
        /\ place.pc \in AtReview => place.key = k /\ asked.state = "running"
        /\ place.pc = "create" => asked.candidates = 0
  BY <1>2 DEF ReviewerMoves
<1>4. LearningRows'
  BY <1>0, <1>1, <1>3 DEF LearningRows
\* Nobody else has review k.
<1>5. ASSUME NEW v \in Reviewers \ {w}
      PROVE  /\ worker[v].pc \in AtReview => worker[v].key # k
             /\ worker'[v] = worker[v] /\ worker'[w] = place
             /\ worker[v].pc # "recovering"
  <2>1. WorkerFits(v) /\ Apart(v, w)
    BY DEF LearningIInv
  <2>2. QED
    BY <1>0, <1>3, <2>1 DEF WorkerFits, Apart, LearningRows, AtReview
<1>6. \A x \in Triggers : HasReview(x) => HasReview(x)'
  BY <1>0, <1>3, ReviewsStay DEF LearningRows
<1>7. \A v \in Reviewers : WorkerFits(v)'
  <2>1. WorkerFits(w)'
    BY <1>0, <1>3 DEF LearningRows, WorkerFits
  <2>2. ASSUME NEW v \in Reviewers \ {w} PROVE WorkerFits(v)'
    BY <1>0, <1>3, <1>5, <2>2 DEF LearningIInv, LearningRows, WorkerFits
  <2>3. QED
    BY <2>1, <2>2
<1>8. \A u, v \in Reviewers : Apart(u, v)'
  BY <1>3, <1>5 DEF LearningIInv, Apart
<1>9. QED
  BY <1>0, <1>1, <1>3, <1>4, <1>6, <1>7, <1>8 DEF LearningIInv, LearningRows, DrainFits, HasReview

\* Every step keeps the invariant.
LEMMA LearningStepKeeps ==
  ASSUME LearningIInv, [LearningNext]_learningVars
  PROVE  LearningIInv'
<1>0. LearningRows
  BY DEF LearningIInv
<1>1. ASSUME NEW x \in Triggers, StageTrigger(x) PROVE LearningIInv'
  BY <1>0, <1>1 DEF LearningIInv, LearningRows, StageTrigger, DrainFits, WorkerFits, Apart, HasReview
<1>2. CASE ForegroundArrives \/ ForegroundEnters \/ ForegroundLeaves \/ UNCHANGED learningVars
  BY <1>0, <1>2 DEF LearningIInv, LearningRows, DrainFits, WorkerFits, Apart, HasReview,
                    ForegroundArrives, ForegroundEnters, ForegroundLeaves, learningVars
<1>3. CASE RestartLearning
  <2>1. /\ UNCHANGED <<outbox, review>> /\ revision' \in 1..Revisions
        /\ drain' = [d \in Drainers |-> [pc |-> "idle", item |-> "none", rest |-> {}]]
        /\ worker' = [w \in Reviewers |-> [pc |-> "recovering", key |-> "none"]]
    BY <1>0, <1>3, LearningAssumption DEF RestartLearning, LearningRows, IdleDrain, IdleWorker
  <2>2. LearningRows'
    BY <1>0, <2>1 DEF LearningRows, DrainRow, WorkerRow
  <2>3. QED
    BY <2>1, <2>2 DEF LearningIInv, DrainFits, WorkerFits, Apart, HasReview, AtReview
<1>4. CASE RecoverLearning
  <2>1. /\ UNCHANGED <<revision, drain>>
        /\ outbox' = [x \in Triggers |-> IF outbox[x] = "processing" THEN "pending" ELSE outbox[x]]
        /\ review' = [k \in ReviewKeys |-> [review[k] EXCEPT !.state = IF @ = "running" THEN "queued" ELSE @]]
        /\ worker' = [w \in Reviewers |-> [pc |-> "idle", key |-> "none"]]
    BY <1>4 DEF RecoverLearning, IdleWorker
  <2>2. /\ \A k \in ReviewKeys :
             /\ review'[k] \in ReviewRow
             /\ review'[k].candidates = review[k].candidates
             /\ review[k].state # "none" => review'[k].state # "none"
        /\ review' \in [ReviewKeys -> ReviewRow]
    BY <1>0, <2>1 DEF LearningRows, ReviewRow
  <2>3. LearningRows'
    BY <1>0, <2>1, <2>2 DEF LearningRows, WorkerRow
  <2>4. \A x \in Triggers : HasReview(x) => HasReview(x)'
    <3>1. \A k \in ReviewKeys : review[k].state # "none" => review'[k].state # "none"
      BY <2>2
    <3>2. QED
      BY <3>1, ReviewsStay
  <2>5. \A w \in Reviewers : worker'[w].pc = "idle"
    BY <2>1
  <2>6. /\ \A w \in Reviewers : WorkerFits(w)'
        /\ \A v, w \in Reviewers : Apart(v, w)'
    BY <2>5 DEF WorkerFits, Apart, AtReview
  <2>7. \A d \in Drainers : DrainFits(d)'
    BY <2>1, <2>4 DEF LearningIInv, DrainFits, HasReview
  <2>8. \A x \in Triggers : outbox'[x] = "processed" => HasReview(x)'
    BY <1>0, <2>1, <2>4 DEF LearningIInv, LearningRows
  <2>9. \A k \in ReviewKeys : review'[k].candidates <= 1
    BY <2>2 DEF LearningIInv
  <2>10. QED
    BY <2>3, <2>6, <2>7, <2>8, <2>9 DEF LearningIInv
<1>5. QED
  BY <1>1, <1>2, <1>3, <1>4, DrainsKeep, ReviewersKeep DEF LearningNext

\* The invariant holds throughout.
LEMMA LearningHolds == LearningSpec => []LearningIInv
<1>1. LearningInit => LearningIInv
  <2> SUFFICES ASSUME LearningInit PROVE LearningIInv
    OBVIOUS
  <2>1. LearningRows
    BY LearningAssumption DEF LearningInit, LearningRows, ReviewRow, DrainRow, WorkerRow, NoReview, IdleDrain,
                              IdleWorker
  <2>2. QED
    BY <2>1 DEF LearningInit, LearningIInv, DrainFits, WorkerFits, Apart, NoReview, IdleDrain, IdleWorker, AtReview
<1>2. LearningIInv /\ [LearningNext]_learningVars => LearningIInv'
  BY LearningStepKeeps
<1>3. QED
  BY <1>1, <1>2, PTL DEF LearningSpec

\* Processed evidence has its review, and a review one candidate at most, for any
\* number of triggers, drains, workers and restarts (learning/service.go:82).
THEOREM EvidenceOnce == LearningSpec => []EvidenceReviewedOnce
<1>1. LearningIInv => EvidenceReviewedOnce
  BY DEF LearningIInv, HasReview, EvidenceReviewedOnce
<1>2. QED
  BY <1>1, LearningHolds, PTL

-----------------------------------------------------------------------------
(***************************************************************************)
(* The pool of a server's processes.                                       *)
(***************************************************************************)

EntryRow == [identity : Nat, process : {"none", "running", "exited"},
             holder : Callers \cup {NoCaller}, closing : BOOLEAN]
CallRow == [pc : {"idle", "acquire", "lock", "launch", "forget", "send", "done"},
            method : {"list", "tool"}, row : ServerRow, entry : EntryIds \cup {NoEntry},
            retried : BOOLEAN, sent : Nat]

\* A call has an entry that was made for its settings, and holds it while it talks
\* to the process; only the listing of a catalogue is sent again.
CallFits(c) ==
  /\ calls[c].pc \in {"lock", "launch", "send"} =>
       /\ calls[c].entry \in 1..pool.made
       /\ entries[calls[c].entry].identity = calls[c].row.identity
  /\ calls[c].pc \in {"launch", "send"} => entries[calls[c].entry].holder = c
  /\ calls[c].method = "tool" =>
       /\ calls[c].sent <= 1
       /\ calls[c].pc # "done" => calls[c].sent = 0
  /\ calls[c].pc = "idle" => calls[c].sent = 0

PoolRow == [live : EntryIds \cup {NoEntry}, made : 0..MaxEntries, stopped : BOOLEAN]

PoolIInv ==
  /\ PoolTypeOK
  /\ pool.live # NoEntry => pool.live \in 1..pool.made
  /\ \A c \in Callers : CallFits(c)

\* What becomes of the entries in a step of call c: nobody else loses his.
EntriesStay(c) ==
  \A e \in 1..pool.made :
    /\ entries'[e].identity = entries[e].identity
    /\ entries[e].holder \in Callers \ {c} => entries'[e].holder = entries[e].holder

\* An entry that was made is an entry.
LEMMA MadeAreEntries ==
  ASSUME PoolIInv, NEW e \in 1..pool.made
  PROVE  e \in EntryIds
BY McpPoolAssumption DEF PoolIInv, PoolTypeOK, EntryIds

\* A step of call c keeps what is said of the others.
LEMMA OtherCallersFit ==
  ASSUME PoolIInv, NEW c \in Callers, EntriesStay(c), pool'.made \in Nat, pool.made <= pool'.made,
         \A d \in Callers \ {c} : calls'[d] = calls[d]
  PROVE  \A d \in Callers \ {c} : CallFits(d)'
<1> SUFFICES ASSUME NEW d \in Callers \ {c} PROVE CallFits(d)'
  OBVIOUS
<1>1. CallFits(d) /\ pool.made \in Nat
  BY DEF PoolIInv, PoolTypeOK
<1>2. CASE calls[d].pc \in {"lock", "launch", "send"}
  <2>1. calls[d].entry \in 1..pool.made
    BY <1>1, <1>2 DEF CallFits
  <2>2. /\ calls'[d].entry \in 1..pool'.made
        /\ entries'[calls[d].entry].identity = entries[calls[d].entry].identity
        /\ entries[calls[d].entry].holder = d => entries'[calls[d].entry].holder = d
    BY <1>1, <2>1 DEF EntriesStay
  <2>3. QED
    BY <1>1, <1>2, <2>2 DEF CallFits
<1>3. CASE calls[d].pc \notin {"lock", "launch", "send"}
  BY <1>1, <1>3 DEF CallFits
<1>4. QED
  BY <1>2, <1>3

\* Dropping the live entry changes neither whose settings an entry runs under
\* nor who holds it.
LEMMA DroppedKeeps ==
  ASSUME PoolIInv
  PROVE  /\ Dropped \in [EntryIds -> EntryRow]
         /\ \A e \in EntryIds : Dropped[e].identity = entries[e].identity /\ Dropped[e].holder = entries[e].holder
<1> SUFFICES ASSUME NEW e \in EntryIds
             PROVE  /\ Dropped[e] \in EntryRow
                    /\ Dropped[e].identity = entries[e].identity /\ Dropped[e].holder = entries[e].holder
  BY DEF Dropped
<1> DEFINE closing == entries[e].closing \/ e = pool.live
<1>1. entries[e] \in EntryRow /\ Dropped[e] = [entries[e] EXCEPT !.closing = closing] /\ closing \in BOOLEAN
  BY DEF PoolIInv, PoolTypeOK, Dropped, EntryRow
<1> HIDE DEF closing
<1>2. QED
  BY <1>1 DEF EntryRow

\* The steps of a call.
LEMMA CallsKeep ==
  ASSUME PoolIInv, NEW c \in Callers,
         \/ StartCall(c) \/ Acquire(c) \/ AcquireRefused(c) \/ LockEntry(c) \/ LaunchServer(c)
         \/ Forget(c) \/ CallAnswered(c) \/ CallCancelled(c) \/ CallBroken(c)
  PROVE  PoolIInv'
<1>0. /\ CallFits(c) /\ calls[c] \in CallRow /\ pool.made \in Nat /\ settings \in ServerRow /\ saving \in BOOLEAN
      /\ entries \in [EntryIds -> EntryRow] /\ calls \in [Callers -> CallRow] /\ pool \in PoolRow
      /\ pool.live # NoEntry => pool.live \in 1..pool.made
      /\ NoCaller \notin Callers
  BY McpPoolAssumption DEF PoolIInv, PoolTypeOK, EntryRow, CallRow, PoolRow
<1>1. SUFFICES /\ UNCHANGED <<settings, saving>> /\ pool' \in PoolRow
               /\ entries' \in [EntryIds -> EntryRow] /\ calls' \in [Callers -> CallRow]
               /\ \A d \in Callers \ {c} : calls'[d] = calls[d]
               /\ EntriesStay(c) /\ pool.made <= pool'.made
               /\ pool'.live # NoEntry => pool'.live \in 1..pool'.made
               /\ CallFits(c)'
  <2>1. pool'.made \in Nat
    BY <1>1, McpPoolAssumption DEF PoolRow
  <2>2. \A d \in Callers : CallFits(d)'
    BY <1>1, <2>1, OtherCallersFit
  <2>3. PoolTypeOK'
    BY <1>0, <1>1 DEF PoolTypeOK, EntryRow, CallRow, PoolRow
  <2>4. QED
    BY <1>1, <2>2, <2>3 DEF PoolIInv
\* The calls that have no entry yet.
<1>2. CASE StartCall(c) \/ AcquireRefused(c)
  <2>1. UNCHANGED <<settings, saving, pool, entries>>
    BY <1>2 DEF StartCall, AcquireRefused
  <2>2. calls' \in [Callers -> CallRow] /\ \A d \in Callers \ {c} : calls'[d] = calls[d]
    BY <1>0, <1>2 DEF StartCall, AcquireRefused, CallGoes, CallRow
  <2>3. /\ calls'[c].pc \in {"acquire", "done"} /\ calls'[c].sent = calls[c].sent
        /\ calls[c].pc = "idle" \/ (calls[c].pc = "acquire" /\ calls'[c].method = calls[c].method)
    BY <1>0, <1>2 DEF StartCall, AcquireRefused, CallAt, CallGoes, CallRow
  <2>4. CallFits(c)'
    BY <1>0, <2>3 DEF CallFits
  <2>5. EntriesStay(c)
    BY <2>1 DEF EntriesStay
  <2>6. QED
    BY <1>0, <2>1, <2>2, <2>4, <2>5
<1>3. CASE Acquire(c)
  <2>1. calls[c].pc = "acquire" /\ UNCHANGED <<settings, saving>>
    BY <1>3 DEF Acquire, CallAt
  <2>2. CASE pool.live # NoEntry /\ entries[pool.live].identity = calls[c].row.identity
    <3>1. calls' = [calls EXCEPT ![c].pc = "lock", ![c].entry = pool.live] /\ UNCHANGED <<pool, entries>>
      BY <1>3, <2>2 DEF Acquire
    <3>2. /\ calls' \in [Callers -> CallRow] /\ \A d \in Callers \ {c} : calls'[d] = calls[d]
          /\ calls'[c].pc = "lock" /\ calls'[c].entry = pool.live /\ calls'[c].row = calls[c].row
          /\ calls'[c].method = calls[c].method /\ calls'[c].sent = calls[c].sent
      BY <1>0, <3>1 DEF CallRow, PoolRow
    <3>3. CallFits(c)'
      BY <1>0, <2>1, <2>2, <3>1, <3>2 DEF CallFits
    <3>4. EntriesStay(c)
      BY <3>1 DEF EntriesStay
    <3>5. QED
      BY <1>0, <2>1, <3>1, <3>2, <3>3, <3>4
  <2>3. CASE ~(pool.live # NoEntry /\ entries[pool.live].identity = calls[c].row.identity)
    <3> DEFINE e == pool.made + 1
               fresh == FreshEntry(calls[c].row.identity)
    <3>1. /\ pool.made < MaxEntries
          /\ pool' = [pool EXCEPT !.made = e, !.live = e]
          /\ entries' = [Dropped EXCEPT ![e] = fresh]
          /\ calls' = [calls EXCEPT ![c].pc = "lock", ![c].entry = e]
      BY <1>3, <2>3 DEF Acquire
    <3>2. /\ e \in EntryIds /\ e \in 1..e /\ pool.made <= e /\ e \in 0..MaxEntries
          /\ \A f \in 1..pool.made : f # e /\ f \in EntryIds
      BY <1>0, <3>1, McpPoolAssumption DEF EntryIds
    <3>3. fresh \in EntryRow /\ fresh.identity = calls[c].row.identity
      BY <1>0 DEF FreshEntry, EntryRow, CallRow, ServerRow
    <3> HIDE DEF e, fresh
    <3>4. /\ entries' \in [EntryIds -> EntryRow] /\ entries'[e].identity = calls[c].row.identity
          /\ EntriesStay(c)
      BY <3>1, <3>2, <3>3, DroppedKeeps DEF EntriesStay
    <3>5. /\ calls' \in [Callers -> CallRow] /\ \A d \in Callers \ {c} : calls'[d] = calls[d]
          /\ calls'[c].pc = "lock" /\ calls'[c].entry = e /\ calls'[c].row = calls[c].row
          /\ calls'[c].method = calls[c].method /\ calls'[c].sent = calls[c].sent
      BY <1>0, <3>1, <3>2 DEF CallRow
    <3>6. pool' \in PoolRow /\ pool'.made = e /\ pool'.live = e
      BY <1>0, <3>1, <3>2 DEF PoolRow
    <3>7. CallFits(c)'
      BY <1>0, <2>1, <3>2, <3>4, <3>5, <3>6 DEF CallFits
    <3>8. QED
      BY <2>1, <3>2, <3>4, <3>5, <3>6, <3>7
  <2>4. QED
    BY <2>2, <2>3
<1>4. CASE Forget(c)
  <2>1. /\ calls' = [calls EXCEPT ![c].pc = "done"] /\ UNCHANGED <<settings, saving>>
        /\ entries' = Dropped /\ pool' = [pool EXCEPT !.live = NoEntry] /\ calls[c].pc = "forget"
    BY <1>4 DEF Forget, CallAt, CallGoes
  <2>2. EntriesStay(c) /\ entries' \in [EntryIds -> EntryRow]
    BY <2>1, DroppedKeeps, MadeAreEntries DEF EntriesStay
  <2>3. /\ calls' \in [Callers -> CallRow] /\ \A d \in Callers \ {c} : calls'[d] = calls[d]
        /\ calls'[c].pc = "done" /\ calls'[c].method = calls[c].method /\ calls'[c].sent = calls[c].sent
    BY <1>0, <2>1 DEF CallRow
  <2>4. CallFits(c)'
    BY <1>0, <2>1, <2>3 DEF CallFits
  <2>5. pool' \in PoolRow /\ pool'.live = NoEntry /\ pool.made <= pool'.made
    BY <1>0, <2>1 DEF PoolRow
  <2>6. QED
    BY <2>1, <2>2, <2>3, <2>4, <2>5
\* The calls that have an entry, which is in nobody else's hands.
<1>5. CASE LockEntry(c) \/ LaunchServer(c) \/ CallAnswered(c) \/ CallCancelled(c) \/ CallBroken(c)
  <2> DEFINE e == calls[c].entry
  <2>1. calls[c].pc \in {"lock", "launch", "send"} /\ UNCHANGED <<settings, saving, pool>>
    BY <1>5 DEF LockEntry, LaunchServer, CallAnswered, CallCancelled, CallBroken, CallAt
  <2>2. /\ e \in 1..pool.made /\ entries[e].identity = calls[c].row.identity /\ e \in EntryIds
        /\ calls[c].pc \in {"launch", "send"} => entries[e].holder = c
    BY <1>0, <2>1, MadeAreEntries DEF CallFits
  <2>3. entries[e].holder \in {c, NoCaller}
    BY <1>5, <2>2 DEF LockEntry, LaunchServer, CallAnswered, CallCancelled, CallBroken, CallAt
  <2> HIDE DEF e
  <2>4. /\ entries' \in [EntryIds -> EntryRow] /\ \A f \in EntryIds \ {e} : entries'[f] = entries[f]
        /\ entries'[e].identity = entries[e].identity
    <3>1. \/ entries' = [entries EXCEPT ![e].holder = c]
          \/ entries' = [entries EXCEPT ![e].process = "running"]
          \/ entries' = [entries EXCEPT ![e].holder = NoCaller]
          \/ entries' = [entries EXCEPT ![e].holder = NoCaller, ![e].process = "none"]
      BY <1>5 DEF e, LockEntry, LaunchServer, CallAnswered, CallCancelled, CallBroken
    <3>2. QED
      BY <1>0, <2>2, <3>1 DEF EntryRow
  <2>5. EntriesStay(c)
    BY <1>0, <2>3, <2>4, MadeAreEntries DEF EntriesStay
  <2> DEFINE sent == [calls EXCEPT ![c].sent = @ + 1]
  <2>6. /\ sent \in [Callers -> CallRow] /\ \A d \in Callers \ {c} : sent[d] = calls[d]
        /\ sent[c] = [calls[c] EXCEPT !.sent = @ + 1]
    BY <1>0 DEF CallRow
  <2>7. /\ sent[c].entry = calls[c].entry /\ sent[c].row = calls[c].row
        /\ sent[c].method = calls[c].method /\ sent[c].sent = calls[c].sent + 1
    BY <1>0, <2>6 DEF CallRow
  <2>8. ASSUME CallAnswered(c) \/ CallCancelled(c) \/ CallBroken(c)
        PROVE  /\ calls' \in [Callers -> CallRow] /\ \A d \in Callers \ {c} : calls'[d] = calls[d]
               /\ calls'[c].entry = calls[c].entry /\ calls'[c].row = calls[c].row
               /\ calls'[c].method = calls[c].method /\ calls'[c].pc \in {"done", "acquire"}
               /\ \/ calls'[c].sent \in {calls[c].sent, calls[c].sent + 1} /\ calls'[c].pc = "done"
                  \/ calls'[c].pc = "acquire" /\ calls[c].method = "list"
    <3>1. PICK base \in {sent, calls}, pc \in {"done", "acquire"}, retried \in BOOLEAN :
            /\ calls' = [base EXCEPT ![c] = [base[c] EXCEPT !.pc = pc, !.retried = retried]]
            /\ pc = "acquire" => calls[c].method = "list"
      <4>1. ASSUME NEW base \in {sent, calls}
            PROVE  [base EXCEPT ![c].pc = "done"]
                      = [base EXCEPT ![c] = [base[c] EXCEPT !.pc = "done", !.retried = base[c].retried]]
        <5>1. base[c] \in CallRow
          BY <1>0, <2>6
        <5>2. [base[c] EXCEPT !.pc = "done"] = [base[c] EXCEPT !.pc = "done", !.retried = base[c].retried]
          BY <5>1 DEF CallRow
        <5>3. QED
          BY <5>2
      <4>2. sent[c].retried \in BOOLEAN /\ calls[c].retried \in BOOLEAN
        BY <1>0, <2>6 DEF CallRow
      <4>3. CASE CallAnswered(c)
        <5>1. calls' = [sent EXCEPT ![c].pc = "done"]
          BY <4>3 DEF CallAnswered, Sent
        <5>2. QED
          BY <4>1, <4>2, <5>1
      <4>4. CASE CallCancelled(c)
        <5>1. \E base \in {sent, calls} : calls' = [base EXCEPT ![c].pc = "done"]
          BY <4>4 DEF CallCancelled, Sent
        <5>2. QED
          BY <4>1, <4>2, <5>1
      <4>5. CASE CallBroken(c)
        <5>1. \E base \in {sent, calls}, pc \in {"done", "acquire"} :
                /\ calls' = [base EXCEPT ![c].pc = pc, ![c].retried = TRUE]
                /\ pc = "acquire" => calls[c].method = "list"
          BY <4>5 DEF CallBroken, Retried, Sent
        <5>2. PICK base \in {sent, calls}, pc \in {"done", "acquire"} :
                /\ calls' = [base EXCEPT ![c].pc = pc, ![c].retried = TRUE]
                /\ pc = "acquire" => calls[c].method = "list"
          BY <5>1
        <5>3. base \in [Callers -> CallRow]
          BY <1>0, <2>6
        <5>4. calls' = [base EXCEPT ![c] = [base[c] EXCEPT !.pc = pc, !.retried = TRUE]]
          BY <5>2, <5>3
        <5>5. QED
          BY <5>2, <5>4
      <4>6. QED
        BY <2>8, <4>3, <4>4, <4>5
    <3> HIDE DEF sent
    <3>2. base \in [Callers -> CallRow] /\ base[c] \in CallRow /\ \A d \in Callers \ {c} : base[d] = calls[d]
      BY <1>0, <2>6
    <3>3. QED
      BY <1>0, <2>7, <3>1, <3>2 DEF CallRow
  <2>9. /\ calls' \in [Callers -> CallRow] /\ \A d \in Callers \ {c} : calls'[d] = calls[d]
        /\ calls'[c].entry = e /\ calls'[c].row = calls[c].row /\ calls'[c].method = calls[c].method
        /\ \/ calls'[c].sent = calls[c].sent /\ calls'[c].pc \in {"launch", "send", "forget"}
           \/ calls'[c].sent \in {calls[c].sent, calls[c].sent + 1} /\ calls'[c].pc = "done"
           \/ calls'[c].pc = "acquire" /\ calls[c].method = "list"
    <3>1. CASE LockEntry(c) \/ LaunchServer(c)
      BY <1>0, <3>1 DEF e, LockEntry, LaunchServer, CallGoes, CallRow
    <3>2. QED
      BY <1>5, <2>8, <3>1 DEF e
  <2>10. calls'[c].pc \in {"launch", "send"} => entries'[e].holder = c
    <3>1. CASE LockEntry(c)
      BY <1>0, <2>2, <3>1 DEF e, LockEntry, EntryRow
    <3>2. CASE LaunchServer(c)
      BY <1>0, <2>2, <3>2 DEF e, LaunchServer, CallAt, CallGoes, CallRow, EntryRow
    <3>3. QED
      BY <1>5, <2>8, <3>1, <3>2
  <2>11. calls[c].sent \in Nat /\ calls[c].pc \notin {"done", "idle"}
    BY <1>0, <2>1 DEF CallRow
  <2>12. CallFits(c)'
    BY <1>0, <2>1, <2>2, <2>4, <2>9, <2>10, <2>11 DEF CallFits
  <2>13. QED
    BY <1>0, <2>1, <2>4, <2>5, <2>9, <2>12
<1>6. QED
  BY <1>2, <1>3, <1>4, <1>5

\* The steps of everybody else leave the calls alone, and who holds what.
LEMMA PoolStepKeeps ==
  ASSUME PoolIInv, [PoolNext]_poolVars
  PROVE  PoolIInv'
<1>0. /\ settings \in ServerRow /\ saving \in BOOLEAN /\ pool.made \in Nat
      /\ entries \in [EntryIds -> EntryRow] /\ calls \in [Callers -> CallRow] /\ pool \in PoolRow
      /\ pool.live # NoEntry => pool.live \in 1..pool.made
      /\ \A c \in Callers : CallFits(c)
  BY McpPoolAssumption DEF PoolIInv, PoolTypeOK, EntryRow, CallRow, PoolRow
<1>1. CASE PoolNext /\ ~\E c \in Callers :
             \/ StartCall(c) \/ Acquire(c) \/ AcquireRefused(c) \/ LockEntry(c) \/ LaunchServer(c)
             \/ Forget(c) \/ CallAnswered(c) \/ CallCancelled(c) \/ CallBroken(c)
  <2>1. /\ settings' \in ServerRow /\ saving' \in BOOLEAN /\ calls' = calls
        /\ pool' \in PoolRow /\ pool'.made = pool.made /\ pool'.live \in {pool.live, NoEntry}
    <3>1. CASE SweepIdle \/ CloseServer \/ ClosePool
      <4>1. /\ settings' = settings /\ saving' \in {saving, FALSE} /\ calls' = calls
            /\ \/ pool' = [pool EXCEPT !.live = NoEntry]
               \/ pool' = [pool EXCEPT !.live = NoEntry, !.stopped = TRUE]
        BY <3>1 DEF SweepIdle, CloseServer, ClosePool
      <4>2. QED
        BY <1>0, <4>1 DEF PoolRow
    <3>2. CASE SaveSettings \/ \E e \in EntryIds : ServerExits(e) \/ CloseEntry(e)
      <4>1. settings' \in ServerRow /\ calls' = calls /\ pool' = pool
        <5>1. CASE SaveSettings
          <6>1. PICK field \in {"identity", "timeout"} : settings' = [settings EXCEPT ![field] = @ + 1]
            BY <5>1 DEF SaveSettings
          <6>2. QED
            BY <1>0, <5>1, <6>1 DEF SaveSettings, ServerRow
        <5>2. CASE \E e \in EntryIds : ServerExits(e) \/ CloseEntry(e)
          BY <1>0, <5>2 DEF ServerExits, CloseEntry
        <5>3. QED
          BY <3>2, <5>1, <5>2
      <4>2. saving' \in BOOLEAN
        BY <1>0, <3>2 DEF ServerExits, CloseEntry, SaveSettings
      <4>3. QED
        BY <1>0, <4>1, <4>2
    <3>3. SweepIdle \/ CloseServer \/ ClosePool \/ SaveSettings \/ \E e \in EntryIds : ServerExits(e) \/ CloseEntry(e)
      BY <1>1 DEF PoolNext
    <3>4. QED
      BY <3>1, <3>2, <3>3
  <2>2. /\ entries' \in [EntryIds -> EntryRow]
        /\ \A e \in EntryIds : entries'[e].identity = entries[e].identity /\ entries'[e].holder = entries[e].holder
    <3>1. CASE \E e \in EntryIds : ServerExits(e) \/ CloseEntry(e)
      <4>1. PICK e \in EntryIds, row \in EntryRow :
              /\ entries' = [entries EXCEPT ![e] = row]
              /\ row.identity = entries[e].identity /\ row.holder = entries[e].holder
        <5>1. PICK e \in EntryIds : ServerExits(e) \/ CloseEntry(e)
          BY <3>1
        <5>2. /\ [entries[e] EXCEPT !.process = "exited"] \in EntryRow
              /\ [entries[e] EXCEPT !.process = "exited"].identity = entries[e].identity
              /\ [entries[e] EXCEPT !.process = "exited"].holder = entries[e].holder
              /\ [entries[e] EXCEPT !.closing = FALSE, !.process = "none"] \in EntryRow
              /\ [entries[e] EXCEPT !.closing = FALSE, !.process = "none"].identity = entries[e].identity
              /\ [entries[e] EXCEPT !.closing = FALSE, !.process = "none"].holder = entries[e].holder
          BY <1>0 DEF EntryRow
        <5>3. \/ entries' = [entries EXCEPT ![e] = [entries[e] EXCEPT !.process = "exited"]]
              \/ entries' = [entries EXCEPT ![e] = [entries[e] EXCEPT !.closing = FALSE, !.process = "none"]]
          BY <5>1 DEF ServerExits, CloseEntry
        <5>4. QED
          BY <5>2, <5>3
      <4>2. QED
        BY <1>0, <4>1
    <3>2. CASE entries' = entries \/ entries' = Dropped
      BY <1>0, <3>2, DroppedKeeps
    <3>3. QED
      BY <1>1, <3>1, <3>2 DEF PoolNext, SweepIdle, SaveSettings, CloseServer, ClosePool
  <2>3. \A c \in Callers : CallFits(c)'
    BY <1>0, <2>1, <2>2, MadeAreEntries DEF CallFits
  <2>4. PoolTypeOK'
    BY <1>0, <2>1, <2>2 DEF PoolTypeOK, EntryRow, CallRow, PoolRow
  <2>5. QED
    BY <1>0, <2>1, <2>3, <2>4 DEF PoolIInv
<1>2. CASE UNCHANGED poolVars
  BY <1>2 DEF PoolIInv, PoolTypeOK, CallFits, poolVars, EntryIds
<1>3. QED
  BY <1>1, <1>2, CallsKeep DEF PoolNext

\* The invariant holds throughout.
LEMMA PoolHolds == PoolSpec => []PoolIInv
<1>1. PoolInit => PoolIInv
  <2> SUFFICES ASSUME PoolInit PROVE PoolIInv
    OBVIOUS
  <2>1. PoolTypeOK
    <3>1. pool \in PoolRow
      BY McpPoolAssumption DEF PoolInit, PoolRow
    <3>2. entries \in [EntryIds -> EntryRow] /\ calls \in [Callers -> CallRow]
      BY McpPoolAssumption DEF PoolInit, EntryRow, CallRow, FreshEntry, IdleCall, FirstRow, ServerRow
    <3>3. QED
      BY <3>1, <3>2 DEF PoolInit, PoolTypeOK, PoolRow, EntryRow, CallRow, FirstRow, ServerRow
  <2>2. QED
    BY <2>1 DEF PoolInit, PoolIInv, CallFits, IdleCall
<1>2. PoolIInv /\ [PoolNext]_poolVars => PoolIInv'
  BY PoolStepKeeps
<1>3. QED
  BY <1>1, <1>2, PTL DEF PoolSpec

\* Whoever talks to a process holds its entry, which was made for the settings he
\* has, and a tool call is sent once at most: for any number of callers, processes
\* and saves (pool.go:54, :188).
THEOREM PoolAnswersOnce == PoolSpec => []AnsweredOnceUnderOwnSettings
<1>1. PoolIInv => AnsweredOnceUnderOwnSettings
  BY DEF PoolIInv, CallFits, AnsweredOnceUnderOwnSettings
<1>2. QED
  BY <1>1, PoolHolds, PTL

-----------------------------------------------------------------------------
(***************************************************************************)
(* A run of a team.                                                        *)
(***************************************************************************)

TeamTaskStates == Waiting \cup NotDone \cup {"queued", "running", "completed"}
ExecutorPlaces == {"none", "start", "read", "pause", "block", "wait", "settle", "finish"}
ExecutorRow == [pc : ExecutorPlaces, cut : BOOLEAN,
                seen : [TeamTasks -> TeamTaskStates], todo : SUBSET TeamTasks, wave : SUBSET TeamTasks]
ChildRow == [pc : {"none", "start", "turn", "save"},
             outcome : {"none", "completed", "failed", "awaiting_approval"}, starts : Nat]
DecisionRow == [pc : {"none", "claim", "register", "turn", "save", "count", "stay", "resume", "schedule"},
                outcome : {"none", "completed", "failed", "awaiting_approval"}]

TeamRows ==
  /\ teamTask \in [TeamTasks -> TeamTaskStates]
  /\ executor \in ExecutorRow
  /\ child \in [TeamTasks -> ChildRow]
  /\ decision \in [TeamTasks -> DecisionRow]

NoneQueued == \A t \in TeamTasks : teamTask[t] # "queued"
DepsDone(t) == \A d \in DependsOn[t] : teamTask[d] = "completed"
UnderWay == {"running", "awaiting_approval", "resolving_approval", "completed"}

\* Task, child turn and prompt.
ChildFits(t) ==
  /\ child[t].starts <= 1
  /\ child[t].starts = 1 => DepsDone(t)
  /\ teamTask[t] = "queued" => child[t].starts = 0
  /\ teamTask[t] \in UnderWay => child[t].starts = 1
  /\ child[t].pc \in {"turn", "save"} => child[t].starts = 1
  /\ child[t].pc = "save" => child[t].outcome # "none"
  /\ decision[t].pc = "save" => decision[t].outcome # "none"

\* A child is alive only under the executor that waits for it, or when the run has
\* been cancelled; then no task is queued any more.
ExecutorFits(t) ==
  /\ child[t].pc # "none" => NoneQueued \/ (executor.pc = "wait" /\ t \in executor.wave)
  /\ t \in executor.todo => executor.pc = "block" /\ child[t].starts = 0
  /\ t \in executor.wave /\ executor.pc \in {"block", "wait"} => DepsDone(t)

TeamIInv ==
  /\ TeamRows
  /\ \A t \in TeamTasks : ChildFits(t) /\ ExecutorFits(t)
  /\ canceller \/ executor.cut => NoneQueued

\* What an update of the executor's row keeps and sets.
ExecutorWith(pc, seen, todo, wave) ==
  [executor EXCEPT !.pc = pc, !.seen = seen, !.todo = todo, !.wave = wave]

\* What ExecutorWith leaves of the executor.
LEMMA ExecutorUpdated ==
  ASSUME executor \in ExecutorRow, NEW pc \in ExecutorPlaces, NEW seen \in [TeamTasks -> TeamTaskStates],
         NEW todo \in SUBSET TeamTasks, NEW wave \in SUBSET TeamTasks,
         executor' = ExecutorWith(pc, seen, todo, wave)
  PROVE  /\ executor' \in ExecutorRow
         /\ executor'.cut = executor.cut
         /\ executor'.pc = pc /\ executor'.seen = seen /\ executor'.todo = todo /\ executor'.wave = wave
<1>1. executor' \in ExecutorRow
  BY DEF ExecutorRow, ExecutorWith
<1>2. executor'.cut = executor.cut
  BY DEF ExecutorRow, ExecutorWith
<1>3. executor'.pc = pc /\ executor'.seen = seen /\ executor'.todo = todo /\ executor'.wave = wave
  BY DEF ExecutorRow, ExecutorWith
<1>4. QED
  BY <1>1, <1>2, <1>3

\* The executor's row, field by field.
LEMMA ExecutorIsItsFields ==
  ASSUME NEW e \in ExecutorRow
  PROVE  /\ e = [pc |-> e.pc, cut |-> e.cut, seen |-> e.seen, todo |-> e.todo, wave |-> e.wave]
         /\ e.pc \in ExecutorPlaces /\ e.seen \in [TeamTasks -> TeamTaskStates]
         /\ e.todo \subseteq TeamTasks /\ e.wave \subseteq TeamTasks
BY DEF ExecutorRow

\* How a step may move the tasks.
TasksMove ==
  \A t \in TeamTasks :
    /\ teamTask'[t] = "queued" => teamTask[t] = "queued"
    /\ teamTask[t] = "completed" => teamTask'[t] = "completed"
    /\ teamTask'[t] \in UnderWay => teamTask[t] \in UnderWay \/ child'[t].starts = 1

\* What is kept, whoever moves, when the tasks move as they may.
LEMMA DepsStay ==
  ASSUME TasksMove, NEW t \in TeamTasks
  PROVE  (DepsDone(t) => DepsDone(t)') /\ (NoneQueued => NoneQueued')
BY TeamRunAssumption DEF TasksMove, DepsDone, NoneQueued

\* The prompts are where they were.
PromptsStay ==
  \A t \in TeamTasks :
    /\ child'[t].starts = child[t].starts
    /\ child'[t].pc \in {"turn", "save"} => child[t].pc \in {"turn", "save"}
    /\ child'[t].pc = "save" => child'[t].outcome # "none"
    /\ decision'[t].pc = "save" => decision'[t].outcome # "none"

\* A child goes on fitting when the tasks move forward and no prompt is sent.
LEMMA ChildrenFit ==
  ASSUME TeamIInv, TasksMove, PromptsStay
  PROVE  \A t \in TeamTasks : ChildFits(t)'
<1> SUFFICES ASSUME NEW t \in TeamTasks PROVE ChildFits(t)'
  OBVIOUS
<1>1. ChildFits(t) /\ child[t].starts \in Nat
  BY DEF TeamIInv, TeamRows, ChildRow
<1>2. DepsDone(t) => DepsDone(t)'
  BY DepsStay
<1>3. QED
  BY <1>1, <1>2 DEF ChildFits, TasksMove, PromptsStay

\* A step that leaves the executor where it is.
LEMMA RowsMove ==
  ASSUME TeamIInv, TeamRows', TasksMove, PromptsStay,
         \A t \in TeamTasks : child'[t].pc # "none" => child[t].pc # "none",
         executor' = executor \/ (executor' = [executor EXCEPT !.cut = TRUE] /\ canceller),
         canceller' => canceller \/ NoneQueued'
  PROVE  TeamIInv'
<1>0. /\ TeamRows /\ \A t \in TeamTasks : ChildFits(t) /\ ExecutorFits(t)
      /\ canceller \/ executor.cut => NoneQueued
  BY DEF TeamIInv
<1>1. NoneQueued => NoneQueued'
  BY DEF TasksMove, NoneQueued
<1>2. /\ executor'.pc = executor.pc /\ executor'.todo = executor.todo /\ executor'.wave = executor.wave
      /\ executor'.cut => executor.cut \/ canceller
  BY <1>0 DEF TeamRows, ExecutorRow
<1>3. ASSUME NEW t \in TeamTasks PROVE ExecutorFits(t)'
  <2>1. ExecutorFits(t) /\ (DepsDone(t) => DepsDone(t)')
    BY <1>0, DepsStay
  <2>2. QED
    BY <1>1, <1>2, <2>1 DEF ExecutorFits, PromptsStay
<1>4. QED
  BY <1>0, <1>1, <1>2, <1>3, ChildrenFit DEF TeamIInv

\* A step of the executor to a place where it waits for nobody.
LEMMA ExecutorMoves ==
  ASSUME TeamIInv, TeamRows', TasksMove, PromptsStay, UNCHANGED <<child, canceller>>,
         \/ executor.pc # "wait" \/ executor.cut
         \/ \A t \in executor.wave : child[t].pc = "none",
         executor'.pc # "wait", executor'.cut => executor.cut,
         \A t \in executor'.todo : executor'.pc = "block" /\ (t \in executor.todo \/ teamTask[t] = "queued"),
         executor'.pc = "block" =>
           \A t \in executor'.wave : (t \in executor.wave /\ executor.pc = "block") \/ DepsDone(t)
  PROVE  TeamIInv'
<1>0. /\ TeamRows /\ \A t \in TeamTasks : ChildFits(t) /\ ExecutorFits(t)
      /\ canceller \/ executor.cut => NoneQueued
  BY DEF TeamIInv
<1>1. NoneQueued => NoneQueued'
  BY DEF TasksMove, NoneQueued
<1>2. ASSUME NEW t \in TeamTasks PROVE ExecutorFits(t)'
  <2>1. ChildFits(t) /\ ExecutorFits(t) /\ (DepsDone(t) => DepsDone(t)')
    BY <1>0, DepsStay
  <2>2. QED
    BY <1>0, <1>1, <2>1 DEF ExecutorFits, ChildFits
<1>3. QED
  BY <1>0, <1>1, <1>2, ChildrenFit DEF TeamIInv

\* The executor's steps keep the invariant.
LEMMA ExecutorKeeps ==
  ASSUME TeamIInv, ExecuteTeamRun
  PROVE  TeamIInv'
<1>0. /\ TeamRows /\ \A t \in TeamTasks : ChildFits(t) /\ ExecutorFits(t)
      /\ executor \in ExecutorRow
      /\ canceller \/ executor.cut => NoneQueued
      /\ NoExecutor \in ExecutorRow /\ NoExecutor.pc = "none" /\ NoExecutor.todo = {} /\ NoExecutor.cut = FALSE
  BY DEF TeamIInv, TeamRows, NoExecutor, ExecutorRow, ExecutorPlaces, TeamTaskStates
<1>1. ASSUME UNCHANGED teamTask PROVE TasksMove
  BY <1>1 DEF TasksMove
<1>2. ASSUME UNCHANGED <<child, decision>> PROVE PromptsStay
  BY <1>0, <1>2 DEF PromptsStay, ChildFits
<1>3. executor.pc # "block" => executor.todo = {}
  BY <1>0 DEF ExecutorFits, TeamRows, ExecutorRow
\* Its end.
<1>4. ASSUME UNCHANGED <<teamTask, child, decision, canceller>>, executor' = NoExecutor,
             executor.pc # "wait" \/ executor.cut
      PROVE  TeamIInv'
  BY <1>0, <1>1, <1>2, <1>4, ExecutorMoves DEF TeamRows
\* A place at which it has nothing in hand.
<1>5. ASSUME UNCHANGED <<teamTask, child, decision, canceller>>,
             NEW pc \in {"read", "pause", "finish"}, NEW seen \in [TeamTasks -> TeamTaskStates],
             executor' = [executor EXCEPT !.pc = pc, !.seen = seen], executor.pc \notin {"wait", "block"}
      PROVE  TeamIInv'
  <2>0. executor' = ExecutorWith(pc, seen, executor.todo, executor.wave)
    BY <1>0, <1>5, ExecutorIsItsFields DEF ExecutorWith
  <2>1. /\ executor' \in ExecutorRow /\ executor'.pc = pc /\ executor'.cut = executor.cut
        /\ executor'.todo = {}
    BY <1>0, <1>3, <1>5, <2>0, ExecutorIsItsFields, ExecutorUpdated DEF ExecutorPlaces
  <2>2. TeamRows'
    BY <1>0, <1>5, <2>1 DEF TeamRows
  <2>3. QED
    BY <1>0, <1>1, <1>2, <1>5, <2>1, <2>2, ExecutorMoves
<1>6. CASE BeginTeamRun \/ PauseForApproval \/ ReadForSettling \/ FinishTeamRun
  <2>1. UNCHANGED <<teamTask, child, decision, canceller>> /\ executor.pc \in {"start", "pause", "settle", "finish"}
    BY <1>6 DEF BeginTeamRun, PauseForApproval, ReadForSettling, FinishTeamRun, ExecutorAt
  <2>2. \/ executor' = NoExecutor
        \/ executor' = [executor EXCEPT !.pc = "read"]
        \/ executor' = [executor EXCEPT !.pc = "finish", !.seen = teamTask]
    BY <1>6 DEF BeginTeamRun, PauseForApproval, ReadForSettling, FinishTeamRun, ExecutorGoes, ExecutorEnds
  <2>3. [executor EXCEPT !.pc = "read"] = [executor EXCEPT !.pc = "read", !.seen = executor.seen]
    BY <1>0, ExecutorIsItsFields
  <2>4. executor.seen \in [TeamTasks -> TeamTaskStates] /\ teamTask \in [TeamTasks -> TeamTaskStates]
    BY <1>0 DEF ExecutorRow, TeamRows
  <2>5. QED
    BY <1>4, <1>5, <2>1, <2>2, <2>3, <2>4
<1>7. CASE ReadTeamRun
  <2>1. UNCHANGED <<teamTask, child, decision, canceller>> /\ executor.pc = "read"
    BY <1>7 DEF ReadTeamRun, ExecutorAt
  <2>2. CASE executor.cut
    BY <1>4, <1>7, <2>1, <2>2 DEF ReadTeamRun, ExecutorEnds
  <2>3. CASE ~executor.cut
    <3>1. PICK wave \in SUBSET {t \in TeamTasks : Ready(t)} :
            \/ executor' = [executor EXCEPT !.pc = "pause"]
            \/ executor' = [executor EXCEPT !.pc = "block", !.todo = BlockedTasks, !.wave = wave]
      BY <1>7, <2>3 DEF ReadTeamRun
    <3>2. CASE executor' = [executor EXCEPT !.pc = "pause"]
      <4>1. executor' = [executor EXCEPT !.pc = "pause", !.seen = executor.seen]
        BY <1>0, <3>2, ExecutorIsItsFields
      <4>2. QED
        BY <1>0, <1>5, <2>1, <4>1, ExecutorIsItsFields
    <3>3. CASE executor' = [executor EXCEPT !.pc = "block", !.todo = BlockedTasks, !.wave = wave]
      <4>1. BlockedTasks \subseteq TeamTasks /\ \A t \in BlockedTasks : teamTask[t] = "queued"
        BY DEF BlockedTasks
      <4>2. wave \subseteq TeamTasks /\ \A t \in wave : DepsDone(t)
        BY DEF Ready, DepsDone
      <4>0. executor' = ExecutorWith("block", executor.seen, BlockedTasks, wave)
        BY <1>0, <3>3, ExecutorIsItsFields DEF ExecutorWith
      <4>3. /\ executor' \in ExecutorRow /\ executor'.pc = "block" /\ executor'.cut = executor.cut
            /\ executor'.todo = BlockedTasks /\ executor'.wave = wave
        BY <1>0, <4>0, <4>1, <4>2, ExecutorIsItsFields, ExecutorUpdated DEF ExecutorPlaces
      <4>4. TeamRows'
        BY <1>0, <2>1, <4>3 DEF TeamRows
      <4>5. QED
        BY <1>1, <1>2, <2>1, <4>1, <4>2, <4>3, <4>4, ExecutorMoves
    <3>4. QED
      BY <3>1, <3>2, <3>3
  <2>4. QED
    BY <2>2, <2>3
<1>8. CASE AwaitWave
  <2>1. UNCHANGED <<teamTask, child, decision, canceller>> /\ executor.pc = "wait"
    BY <1>8 DEF AwaitWave, ExecutorAt
  <2>2. CASE executor' = [executor EXCEPT !.pc = "read", !.wave = {}] /\ \A t \in executor.wave : child[t].pc = "none"
    <3>0. executor' = ExecutorWith("read", executor.seen, executor.todo, {})
      BY <1>0, <2>2, ExecutorIsItsFields DEF ExecutorWith
    <3>1. /\ executor' \in ExecutorRow /\ executor'.pc = "read" /\ executor'.cut = executor.cut
          /\ executor'.todo = {}
      BY <1>0, <1>3, <2>1, <3>0, ExecutorIsItsFields, ExecutorUpdated DEF ExecutorPlaces
    <3>2. TeamRows'
      BY <1>0, <2>1, <3>1 DEF TeamRows
    <3>3. QED
      BY <1>1, <1>2, <2>1, <2>2, <3>1, <3>2, ExecutorMoves
  <2>3. QED
    BY <1>4, <1>8, <2>1, <2>2 DEF AwaitWave, ExecutorEnds
<1>9. ASSUME NEW t \in TeamTasks, BlockTask(t) PROVE TeamIInv'
  <2>1. /\ executor.pc = "block" /\ t \in executor.todo /\ UNCHANGED <<child, decision, canceller>>
        /\ executor' = [executor EXCEPT !.todo = @ \ {t}]
        /\ teamTask' = teamTask \/ teamTask' = [teamTask EXCEPT ![t] = "blocked"]
    BY <1>9 DEF BlockTask, ExecutorAt
  <2>2. teamTask[t] \notin UnderWay
    BY <1>0, <2>1 DEF ExecutorFits, ChildFits
  <2>3. TasksMove
    BY <1>0, <2>1, <2>2 DEF TasksMove, TeamRows, UnderWay
  <2>0. executor' = ExecutorWith(executor.pc, executor.seen, executor.todo \ {t}, executor.wave)
    BY <1>0, <2>1, ExecutorIsItsFields DEF ExecutorWith
  <2>4. /\ executor' \in ExecutorRow /\ executor'.pc = "block" /\ executor'.cut = executor.cut
        /\ executor'.todo = executor.todo \ {t} /\ executor'.wave = executor.wave
    <3>1. /\ executor.pc \in ExecutorPlaces /\ executor.seen \in [TeamTasks -> TeamTaskStates]
          /\ executor.todo \ {t} \in SUBSET TeamTasks /\ executor.wave \in SUBSET TeamTasks
      BY <1>0, ExecutorIsItsFields
    <3>2. PICK todo \in SUBSET TeamTasks : /\ todo = executor.todo \ {t}
                                           /\ executor' = ExecutorWith(executor.pc, executor.seen, todo, executor.wave)
      BY <2>0, <3>1
    <3>3. executor' \in ExecutorRow /\ executor'.cut = executor.cut
      BY <1>0, <3>1, <3>2, ExecutorUpdated
    <3>4. executor'.pc = executor.pc /\ executor'.todo = todo /\ executor'.wave = executor.wave
      <4>1. PICK pc \in ExecutorPlaces : pc = executor.pc /\ executor' = ExecutorWith(pc, executor.seen, todo, executor.wave)
        BY <3>1, <3>2
      <4>2. QED
        BY <1>0, <3>1, <4>1, ExecutorUpdated
    <3>5. QED
      BY <2>1, <3>2, <3>3, <3>4
  <2>5. TeamRows'
    BY <1>0, <2>1, <2>4 DEF TeamRows, TeamTaskStates, NotDone
  <2>6. QED
    BY <1>2, <2>1, <2>3, <2>4, <2>5, ExecutorMoves
<1>10. CASE LaunchWave
  <2>1. /\ executor.pc = "block" /\ executor.todo = {} /\ UNCHANGED <<teamTask, decision, canceller>>
        /\ executor' = [executor EXCEPT !.pc = IF executor.wave = {} THEN "settle" ELSE "wait"]
        /\ child' = [t \in TeamTasks |-> IF t \in executor.wave THEN [child[t] EXCEPT !.pc = "start"] ELSE child[t]]
    BY <1>10 DEF LaunchWave, ExecutorAt, ExecutorGoes
  <2>0. PICK pc \in {"settle", "wait"} :
          /\ executor.wave # {} => pc = "wait"
          /\ executor' = ExecutorWith(pc, executor.seen, executor.todo, executor.wave)
    BY <1>0, <2>1, ExecutorIsItsFields DEF ExecutorWith
  <2>2. /\ executor' \in ExecutorRow /\ executor'.todo = {} /\ executor'.wave = executor.wave
        /\ executor'.cut = executor.cut /\ (executor.wave # {} => executor'.pc = "wait")
    BY <1>0, <2>0, <2>1, ExecutorIsItsFields, ExecutorUpdated DEF ExecutorPlaces
  <2>3. child' \in [TeamTasks -> ChildRow] /\ PromptsStay
        /\ \A t \in TeamTasks \ executor.wave : child'[t] = child[t]
    BY <1>0, <2>1 DEF TeamRows, ChildRow, PromptsStay, ChildFits
  <2>4. ASSUME NEW t \in TeamTasks PROVE ExecutorFits(t)'
    <3>1. ExecutorFits(t) /\ (DepsDone(t) <=> DepsDone(t)') /\ (NoneQueued <=> NoneQueued')
      BY <1>0, <2>1 DEF DepsDone, NoneQueued
    <3>2. QED
      BY <2>1, <2>2, <2>3, <3>1 DEF ExecutorFits
  <2>5. TeamRows'
    BY <1>0, <2>1, <2>2, <2>3 DEF TeamRows
  <2>6. QED
    BY <1>0, <1>1, <2>1, <2>2, <2>3, <2>4, <2>5, ChildrenFit DEF TeamIInv, NoneQueued
<1>11. QED
  BY <1>6, <1>7, <1>8, <1>9, <1>10 DEF ExecuteTeamRun

\* So do the steps of a child it waits for.
LEMMA TeamChildrenKeep ==
  ASSUME TeamIInv, NEW t \in TeamTasks, StartTeamTask(t) \/ EndTeamTurn(t) \/ SaveTeamTask(t)
  PROVE  TeamIInv'
<1>0. /\ TeamRows /\ \A u \in TeamTasks : ChildFits(u) /\ ExecutorFits(u)
      /\ child[t] \in ChildRow /\ teamTask[t] \in TeamTaskStates
      /\ canceller \/ executor.cut => NoneQueued
  BY DEF TeamIInv, TeamRows
<1>1. CASE EndTeamTurn(t) \/ SaveTeamTask(t)
  <2>1. UNCHANGED <<executor, decision, canceller>>
    BY <1>1 DEF EndTeamTurn, SaveTeamTask
  <2>2. PICK pc \in {"save", "none"}, outcome \in {"completed", "failed", "awaiting_approval"} :
          /\ child' = [child EXCEPT ![t] = [@ EXCEPT !.pc = pc, !.outcome = outcome]]
          /\ teamTask' = teamTask \/ teamTask' = [teamTask EXCEPT ![t] = outcome]
          /\ child[t].pc \in {"turn", "save"} /\ (teamTask' # teamTask =>
               child[t].pc = "save" /\ (outcome # "completed" => teamTask[t] = "running"))
    <3>1. CASE EndTeamTurn(t)
      BY <3>1 DEF EndTeamTurn
    <3>2. CASE SaveTeamTask(t)
      <4>1. /\ child[t].outcome \in {"completed", "failed", "awaiting_approval"}
            /\ [child[t] EXCEPT !.pc = "none"] = [child[t] EXCEPT !.pc = "none", !.outcome = child[t].outcome]
        BY <1>0, <3>2 DEF SaveTeamTask, ChildFits, ChildRow
      <4>2. child' = [child EXCEPT ![t] = [@ EXCEPT !.pc = "none", !.outcome = child[t].outcome]]
        BY <3>2, <4>1 DEF SaveTeamTask
      <4>3. QED
        BY <3>2, <4>1, <4>2 DEF SaveTeamTask
    <3>3. QED
      BY <1>1, <3>1, <3>2
  <2>3. /\ child'[t].starts = child[t].starts /\ child'[t].pc = pc /\ child'[t].outcome = outcome
        /\ child' \in [TeamTasks -> ChildRow] /\ \A u \in TeamTasks \ {t} : child'[u] = child[u]
    BY <1>0, <2>2 DEF TeamRows, ChildRow
  <2>4. PromptsStay /\ \A u \in TeamTasks : child'[u].pc # "none" => child[u].pc # "none"
    BY <1>0, <2>1, <2>2, <2>3 DEF PromptsStay, ChildFits
  <2>5. TasksMove /\ teamTask' \in [TeamTasks -> TeamTaskStates]
    BY <1>0, <2>2, <2>3 DEF TasksMove, TeamRows, ChildFits, UnderWay, TeamTaskStates, Waiting, NotDone
  <2>6. TeamRows'
    BY <1>0, <2>1, <2>3, <2>5 DEF TeamRows
  <2>7. QED
    BY <2>1, <2>4, <2>5, <2>6, RowsMove
<1>2. CASE StartTeamTask(t)
  <2>1. UNCHANGED <<executor, decision, canceller>> /\ child[t].pc = "start"
    BY <1>2 DEF StartTeamTask
  <2>2. CASE teamTask[t] = "queued" /\ ~executor.cut
    <3>1. /\ teamTask' = [teamTask EXCEPT ![t] = "running"]
          /\ child' = [child EXCEPT ![t] = [pc |-> "turn", outcome |-> "none", starts |-> child[t].starts + 1]]
      BY <1>2, <2>2 DEF StartTeamTask
    <3>2. /\ child[t].starts = 0 /\ DepsDone(t) /\ ~NoneQueued
          /\ executor.pc = "wait" /\ t \in executor.wave
      BY <1>0, <2>1, <2>2 DEF ChildFits, ExecutorFits, NoneQueued
    <3>3. /\ child'[t] = [pc |-> "turn", outcome |-> "none", starts |-> 1]
          /\ child' \in [TeamTasks -> ChildRow] /\ \A u \in TeamTasks \ {t} : child'[u] = child[u]
      BY <1>0, <3>1, <3>2 DEF TeamRows, ChildRow
    <3>4. TasksMove /\ teamTask' \in [TeamTasks -> TeamTaskStates] /\ teamTask'[t] = "running"
      BY <1>0, <2>2, <3>1, <3>3 DEF TasksMove, TeamRows, TeamTaskStates
    <3>5. TeamRows'
      BY <1>0, <2>1, <3>3, <3>4 DEF TeamRows
    <3>6. ASSUME NEW u \in TeamTasks PROVE ChildFits(u)' /\ ExecutorFits(u)'
      <4>1. ChildFits(u) /\ ExecutorFits(u) /\ (DepsDone(u) => DepsDone(u)')
        BY <1>0, <3>4, DepsStay
      <4>2. CASE u = t
        BY <2>1, <3>2, <3>3, <3>4, <4>1, <4>2 DEF ChildFits, ExecutorFits
      <4>3. CASE u # t
        BY <2>1, <3>2, <3>3, <3>4, <4>1, <4>3 DEF ChildFits, ExecutorFits, TasksMove
      <4>4. QED
        BY <4>2, <4>3
    <3>7. QED
      BY <1>0, <2>1, <3>2, <3>5, <3>6 DEF TeamIInv
  <2>3. CASE ~(teamTask[t] = "queued" /\ ~executor.cut)
    <3>1. UNCHANGED teamTask /\ child' = [child EXCEPT ![t].pc = "none"]
      BY <1>2, <2>3 DEF StartTeamTask
    <3>2. TasksMove /\ PromptsStay /\ TeamRows' /\ \A u \in TeamTasks : child'[u].pc # "none" => child[u].pc # "none"
      BY <1>0, <2>1, <3>1 DEF TasksMove, PromptsStay, ChildFits, TeamRows, ChildRow
    <3>3. QED
      BY <2>1, <3>2, RowsMove
  <2>4. QED
    BY <2>2, <2>3
<1>3. QED
  BY <1>1, <1>2

\* So do the steps of a decision.
LEMMA TeamDecisionsKeep ==
  ASSUME TeamIInv, NEW t \in TeamTasks,
         \/ ReadForDecision(t) \/ ClaimApproval(t) \/ RegisterDecision(t) \/ EndDecidedTurn(t) \/ SaveDecision(t)
         \/ CountWaiting(t) \/ StayAwaiting(t) \/ ResumeTeamRun(t) \/ ScheduleTeamRun(t)
  PROVE  TeamIInv'
<1>0. /\ TeamRows /\ \A u \in TeamTasks : ChildFits(u) /\ ExecutorFits(u)
      /\ decision[t] \in DecisionRow /\ teamTask[t] \in TeamTaskStates
      /\ NoDecision \in DecisionRow /\ NoDecision.pc = "none"
  BY DEF TeamIInv, TeamRows, NoDecision, DecisionRow
\* A step of a decision that leaves its task where it is, or moves it from one
\* that has had its prompt.
<1>1. ASSUME UNCHANGED <<child, canceller>>, NEW row \in DecisionRow, row.pc = "save" => row.outcome # "none",
             decision' = [decision EXCEPT ![t] = row],
             \/ UNCHANGED teamTask
             \/ /\ teamTask[t] \in Waiting
                /\ \E state \in {"resolving_approval", "awaiting_approval", "completed", "failed"} :
                     teamTask' = [teamTask EXCEPT ![t] = state]
      PROVE  PromptsStay /\ TasksMove /\ (executor' \in ExecutorRow => TeamRows')
  <2>1. PromptsStay /\ decision' \in [TeamTasks -> DecisionRow]
    BY <1>0, <1>1 DEF PromptsStay, ChildFits, TeamRows
  <2>2. TasksMove /\ teamTask' \in [TeamTasks -> TeamTaskStates]
    <3>1. CASE UNCHANGED teamTask
      BY <1>0, <3>1 DEF TasksMove, TeamRows
    <3>2. ASSUME teamTask[t] \in Waiting,
                 NEW state \in {"resolving_approval", "awaiting_approval", "completed", "failed"},
                 teamTask' = [teamTask EXCEPT ![t] = state]
          PROVE  TasksMove /\ teamTask' \in [TeamTasks -> TeamTaskStates]
      <4>1. teamTask'[t] = state /\ \A u \in TeamTasks \ {t} : teamTask'[u] = teamTask[u]
        BY <1>0, <3>2 DEF TeamRows
      <4>2. teamTask[t] \in UnderWay /\ teamTask[t] # "completed"
        BY <3>2 DEF UnderWay, Waiting
      <4>3. state \in TeamTaskStates /\ state # "queued"
        BY <3>2 DEF TeamTaskStates, Waiting, NotDone
      <4>4. QED
        BY <1>0, <3>2, <4>1, <4>2, <4>3 DEF TasksMove, TeamRows
    <3>3. QED
      BY <1>1, <3>1, <3>2
  <2>3. QED
    BY <1>0, <1>1, <2>1, <2>2 DEF TeamRows
<1>2. ASSUME UNCHANGED <<child, canceller, teamTask>>, NEW pc \in {"claim", "register", "turn", "count", "stay", "resume", "schedule"},
             decision' = [decision EXCEPT ![t].pc = pc]
      PROVE  PromptsStay /\ TasksMove /\ (executor' \in ExecutorRow => TeamRows')
  <2>1. /\ [decision[t] EXCEPT !.pc = pc] \in DecisionRow /\ [decision[t] EXCEPT !.pc = pc].pc = pc
    BY <1>0 DEF DecisionRow
  <2>2. QED
    BY <1>1, <1>2, <2>1
<1>3. CASE ScheduleTeamRun(t)
  <2>1. Started \in ExecutorRow /\ Started.pc = "start" /\ ~Started.cut /\ Started.todo = {}
    BY DEF Started, NoExecutor, ExecutorRow, ExecutorPlaces, TeamTaskStates
  <2>2. executor.pc = "none" /\ executor' = Started /\ UNCHANGED <<child, canceller, teamTask>>
        /\ decision' = [decision EXCEPT ![t] = NoDecision]
    BY <1>3 DEF ScheduleTeamRun, ExecutorAt
  <2>3. PromptsStay /\ TasksMove /\ TeamRows'
    BY <1>0, <1>1, <2>1, <2>2
  <2>4. QED
    BY <2>1, <2>2, <2>3, ExecutorMoves
<1>4. CASE \/ ReadForDecision(t) \/ ClaimApproval(t) \/ RegisterDecision(t) \/ EndDecidedTurn(t)
           \/ SaveDecision(t) \/ CountWaiting(t) \/ StayAwaiting(t) \/ ResumeTeamRun(t)
  <2>1. UNCHANGED <<executor, child, canceller>> /\ executor \in ExecutorRow
    BY <1>0, <1>4 DEF ReadForDecision, ClaimApproval, RegisterDecision, EndDecidedTurn, SaveDecision,
       CountWaiting, StayAwaiting, ResumeTeamRun, TeamRows
  <2>2. PromptsStay /\ TasksMove /\ TeamRows'
    <3>1. CASE ReadForDecision(t) \/ RegisterDecision(t)
      BY <1>2, <2>1, <3>1 DEF ReadForDecision, RegisterDecision
    <3>2. CASE CountWaiting(t)
      <4>1. PICK pc \in {"stay", "resume"} : decision' = [decision EXCEPT ![t].pc = pc]
        BY <3>2 DEF CountWaiting
      <4>2. UNCHANGED teamTask
        BY <3>2 DEF CountWaiting
      <4>3. QED
        BY <1>2, <2>1, <4>1, <4>2
    <3>3. CASE StayAwaiting(t)
      BY <1>0, <1>1, <2>1, <3>3 DEF StayAwaiting, DecisionEnds
    <3>4. CASE ResumeTeamRun(t)
      <4>1. UNCHANGED teamTask
        BY <3>4 DEF ResumeTeamRun
      <4>2. \/ decision' = [decision EXCEPT ![t].pc = "schedule"]
            \/ decision' = [decision EXCEPT ![t] = NoDecision]
        BY <3>4 DEF ResumeTeamRun, DecisionEnds
      <4>3. QED
        BY <1>0, <1>1, <1>2, <2>1, <4>1, <4>2
    <3>5. CASE EndDecidedTurn(t)
      <4>1. PICK outcome \in {"completed", "failed", "awaiting_approval"} :
              decision' = [decision EXCEPT ![t] = [@ EXCEPT !.pc = "save", !.outcome = outcome]]
        BY <3>5 DEF EndDecidedTurn
      <4>2. /\ [decision[t] EXCEPT !.pc = "save", !.outcome = outcome] \in DecisionRow
            /\ [decision[t] EXCEPT !.pc = "save", !.outcome = outcome].outcome = outcome
        BY <1>0 DEF DecisionRow
      <4>3. UNCHANGED teamTask
        BY <3>5 DEF EndDecidedTurn
      <4>4. QED
        BY <1>1, <2>1, <4>1, <4>2, <4>3
    <3>6. CASE ClaimApproval(t)
      <4>1. CASE teamTask[t] = "awaiting_approval"
        <5>1. /\ [decision[t] EXCEPT !.pc = "register"] \in DecisionRow
              /\ [decision[t] EXCEPT !.pc = "register"].pc = "register"
          BY <1>0 DEF DecisionRow
        <5>2. /\ teamTask[t] \in Waiting /\ teamTask' = [teamTask EXCEPT ![t] = "resolving_approval"]
              /\ decision' = [decision EXCEPT ![t] = [decision[t] EXCEPT !.pc = "register"]]
          BY <3>6, <4>1 DEF ClaimApproval, Waiting
        <5>3. QED
          BY <1>1, <2>1, <5>1, <5>2
      <4>2. CASE teamTask[t] # "awaiting_approval"
        BY <1>0, <1>1, <2>1, <3>6, <4>2 DEF ClaimApproval
      <4>3. QED
        BY <4>1, <4>2
    <3>7. CASE SaveDecision(t)
      <4>1. decision[t].pc = "save" /\ decision[t].outcome \in {"completed", "failed", "awaiting_approval"}
        BY <1>0, <3>7 DEF SaveDecision, ChildFits, DecisionRow
      <4>2. \/ UNCHANGED teamTask
            \/ teamTask[t] \in Waiting /\ teamTask' = [teamTask EXCEPT ![t] = decision[t].outcome]
        BY <3>7 DEF SaveDecision, Waiting
      <4>3. \/ decision' = [decision EXCEPT ![t] = [decision[t] EXCEPT !.pc = "count"]]
            \/ decision' = [decision EXCEPT ![t] = NoDecision]
        BY <3>7 DEF SaveDecision, DecisionEnds
      <4>4. [decision[t] EXCEPT !.pc = "count"] \in DecisionRow /\ [decision[t] EXCEPT !.pc = "count"].pc = "count"
        BY <1>0 DEF DecisionRow
      <4>5. PICK row \in {NoDecision, [decision[t] EXCEPT !.pc = "count"]} : decision' = [decision EXCEPT ![t] = row]
        BY <4>3
      <4>6. row \in DecisionRow /\ row.pc # "save"
        BY <1>0, <4>4
      <4>7. QED
        BY <1>1, <2>1, <4>1, <4>2, <4>5, <4>6
    <3>8. QED
      BY <1>4, <3>1, <3>2, <3>3, <3>4, <3>5, <3>6, <3>7
  <2>3. QED
    BY <2>1, <2>2, RowsMove
<1>5. QED
  BY <1>3, <1>4

\* So do the cancellation of the run and a restart of the process.
LEMMA TeamEndsKeep ==
  ASSUME TeamIInv, CancelTeamRun \/ SignalCancellation \/ RestartTeam
  PROVE  TeamIInv'
<1>0. /\ TeamRows /\ \A t \in TeamTasks : ChildFits(t) /\ ExecutorFits(t)
      /\ executor \in ExecutorRow
  BY DEF TeamIInv, TeamRows
<1>1. CASE CancelTeamRun
  <2>1. /\ UNCHANGED <<executor, child, decision>>
        /\ teamTask' = [t \in TeamTasks |->
                          IF teamTask[t] \in Waiting \cup {"queued", "running"} THEN "cancelled" ELSE teamTask[t]]
    BY <1>1 DEF CancelTeamRun
  <2>2. TasksMove /\ NoneQueued' /\ teamTask' \in [TeamTasks -> TeamTaskStates]
    BY <1>0, <2>1 DEF TasksMove, NoneQueued, TeamRows, Waiting, NotDone, UnderWay, TeamTaskStates
  <2>3. PromptsStay /\ TeamRows'
    BY <1>0, <2>1, <2>2 DEF PromptsStay, ChildFits, TeamRows
  <2>4. QED
    BY <2>1, <2>2, <2>3, RowsMove
<1>2. CASE SignalCancellation
  <2>1. canceller /\ ~canceller' /\ UNCHANGED <<teamTask, child, decision>>
        /\ (executor' = executor \/ executor' = [executor EXCEPT !.cut = TRUE])
    BY <1>2 DEF SignalCancellation
  <2>2. executor' \in ExecutorRow
    BY <1>0, <2>1 DEF ExecutorRow
  <2>3. TasksMove /\ PromptsStay /\ TeamRows'
    BY <1>0, <2>1, <2>2 DEF TasksMove, PromptsStay, ChildFits, TeamRows
  <2>4. QED
    BY <2>1, <2>3, RowsMove
<1>3. CASE RestartTeam
  <2>1. /\ executor' = NoExecutor /\ ~canceller' /\ decision' = [t \in TeamTasks |-> NoDecision]
        /\ child' = [t \in TeamTasks |-> [child[t] EXCEPT !.pc = "none"]]
    BY <1>3 DEF RestartTeam
  <2>2. /\ teamTask' \in [TeamTasks -> TeamTaskStates]
        /\ \A t \in TeamTasks : teamTask'[t] = teamTask[t]
             \/ (teamTask'[t] = "interrupted" /\ teamTask[t] \in {"running", "resolving_approval", "queued"})
    <3>1. teamTask' = [t \in TeamTasks |->
                        IF \/ teamTask[t] \in {"running", "resolving_approval"}
                           \/ teamTask[t] = "queued" /\ team \in {"queued", "running"}
                          THEN "interrupted" ELSE teamTask[t]]
      BY <1>3 DEF RestartTeam
    <3>2. QED
      BY <1>0, <3>1 DEF TeamRows, TeamTaskStates, NotDone
  <2>3. TasksMove
    BY <2>2 DEF TasksMove, UnderWay
  <2>4. child' \in [TeamTasks -> ChildRow] /\ decision' \in [TeamTasks -> DecisionRow]
        /\ \A t \in TeamTasks : child'[t].pc = "none" /\ decision'[t].pc = "none"
    BY <1>0, <2>1 DEF TeamRows, ChildRow, DecisionRow, NoDecision
  <2>5. PromptsStay
    BY <1>0, <2>1, <2>4 DEF TeamRows, ChildRow, PromptsStay
  <2>6. /\ executor' \in ExecutorRow /\ executor'.pc = "none" /\ executor'.todo = {} /\ executor'.cut = FALSE
    BY <2>1 DEF NoExecutor, ExecutorRow, ExecutorPlaces, TeamTaskStates
  <2>7. TeamRows' /\ \A t \in TeamTasks : ExecutorFits(t)'
    BY <2>2, <2>4, <2>6 DEF TeamRows, ExecutorFits
  <2>8. QED
    BY <2>1, <2>3, <2>5, <2>6, <2>7, ChildrenFit DEF TeamIInv
<1>4. QED
  BY <1>1, <1>2, <1>3

\* The invariant holds throughout.
LEMMA TeamRunHolds ==
  TeamSpec => []TeamIInv
<1>1. TeamInit => TeamIInv
  <2>1. SUFFICES ASSUME TeamInit PROVE TeamIInv
    OBVIOUS
  <2>2. Started \in ExecutorRow /\ Started.pc = "start" /\ ~Started.cut /\ Started.todo = {}
    BY DEF Started, NoExecutor, ExecutorRow, ExecutorPlaces, TeamTaskStates
  <2>3. NoDecision \in DecisionRow /\ NoDecision.pc = "none"
    BY DEF NoDecision, DecisionRow
  <2>4. /\ teamTask \in [TeamTasks -> TeamTaskStates] /\ \A t \in TeamTasks : teamTask[t] = "queued"
    BY <2>1 DEF TeamInit, TeamTaskStates
  <2>5. /\ child \in [TeamTasks -> ChildRow]
        /\ \A t \in TeamTasks : child[t].pc = "none" /\ child[t].starts = 0
    BY <2>1 DEF TeamInit, ChildRow
  <2>6. executor = Started /\ ~canceller /\ decision = [t \in TeamTasks |-> NoDecision]
    BY <2>1 DEF TeamInit
  <2>7. TeamRows
    BY <2>2, <2>3, <2>4, <2>5, <2>6 DEF TeamRows
  <2>8. ASSUME NEW t \in TeamTasks PROVE ChildFits(t) /\ ExecutorFits(t)
    BY <2>2, <2>3, <2>4, <2>5, <2>6 DEF ChildFits, ExecutorFits, UnderWay
  <2>9. QED
    BY <2>2, <2>6, <2>7, <2>8 DEF TeamIInv
<1>2. TeamIInv /\ [TeamNext]_teamVars => TeamIInv'
  <2>1. SUFFICES ASSUME TeamIInv, [TeamNext]_teamVars PROVE TeamIInv'
    OBVIOUS
  <2>2. CASE UNCHANGED teamVars
    BY <2>1, <2>2 DEF teamVars, TeamIInv, TeamRows, ChildFits, ExecutorFits, NoneQueued, DepsDone
  <2>3. CASE TeamNext
    BY <2>1, <2>3, ExecutorKeeps, TeamChildrenKeep, TeamDecisionsKeep, TeamEndsKeep DEF TeamNext
  <2>4. QED
    BY <2>1, <2>2, <2>3
<1>3. QED
  BY <1>1, <1>2, PTL DEF TeamSpec

\* A child's prompt is sent once, and after the tasks whose output it takes are
\* completed: executeTeamRun starts no second child beside one that is alive, and
\* every way to end a run leaves no task queued.
THEOREM PromptsOnceInOrder == TeamSpec => []ChildrenOnceInOrder
<1>1. TeamIInv => ChildrenOnceInOrder
  BY DEF TeamIInv, ChildFits, DepsDone, ChildrenOnceInOrder
<1>2. QED
  BY <1>1, TeamRunHolds, PTL

-----------------------------------------------------------------------------
(***************************************************************************)
(* The collection of blobs.                                                *)
(***************************************************************************)

OnRecord == {"applying", "quarantined", "partial_quarantine"}
GcRow == [state : GcStates, rows : SUBSET BlobIds, files : SUBSET BlobIds]
KeeperRow == [op : {"none", "apply", "restore"},
              pc : {"idle", "list", "claim", "move", "unmove", "restore"},
              run : GcRuns \cup {0}, seen : SUBSET BlobIds, todo : SUBSET BlobIds,
              moved : SUBSET BlobIds, torn : BOOLEAN]

BlobRows ==
  /\ active \subseteq BlobIds /\ refs \subseteq BlobIds
  /\ gc \in [GcRuns -> GcRow]
  /\ quarantine \in [GcRuns -> SUBSET BlobIds]
  /\ keeper \in [Keepers -> KeeperRow]
  /\ saver \in [Savers -> BlobIds \cup {NoBlob}]

Mover(k) == keeper[k].pc \in {"move", "unmove"}

KeeperFits(k) ==
  /\ keeper[k].op = "apply" <=> keeper[k].pc \in {"list", "claim", "move", "unmove"}
  /\ keeper[k].pc # "idle" => /\ keeper[k].run \in GcRuns
                              /\ gc[keeper[k].run].state \notin {"none", "reading"}
  /\ keeper[k].pc = "move" => /\ gc[keeper[k].run].state = "applying"
                              /\ keeper[k].todo \subseteq Candidates(keeper[k].run)
  /\ keeper[k].pc = "unmove" => gc[keeper[k].run].state \in {"applying", "quarantined", "restored"}
  /\ keeper[k].pc = "restore" => gc[keeper[k].run].state \in {"quarantined", "partial_quarantine", "restored"}

\* What an application may move.
KeeperSees(k) ==
  keeper[k].op = "apply" =>
    refs \ exposed \subseteq (IF keeper[k].pc = "list" THEN keeper[k].seen ELSE gc[keeper[k].run].rows)

GcFits(n) ==
  /\ quarantine[n] \subseteq Candidates(n)
  /\ gc[n].state \in {"none", "reading"} => quarantine[n] = {}

OneMover == \A k, l \in Keepers : Mover(k) /\ Mover(l) /\ keeper[k].run = keeper[l].run => k = l

\* Nobody who works on run n has lost sight of the blob.
InHand(b, k) ==
  /\ keeper[k].pc = "move" => b \in keeper[k].moved
  /\ keeper[k].pc = "unmove" /\ ~keeper[k].torn => b \in keeper[k].todo
  /\ keeper[k].pc = "restore" => b \in keeper[k].todo

Answers(n, b) ==
  /\ b \in quarantine[n] /\ gc[n].state \in OnRecord
  /\ \A k \in Keepers : keeper[k].run = n => InHand(b, k)

BlobIInv ==
  /\ BlobRows
  /\ \A k \in Keepers : KeeperFits(k) /\ KeeperSees(k)
  /\ \A n \in GcRuns : GcFits(n)
  /\ OneMover
  /\ \A b \in stored \ active : \E n \in GcRuns : Answers(n, b)
  /\ refs \ active \subseteq exposed

\* The first of some blobs is one of them: sizes of the ids are well founded.
LEMMA FirstIsIn ==
  ASSUME NEW S \in SUBSET BlobIds, S # {}
  PROVE  First(S) \in S
<1>1. S \in SUBSET Nat
  BY BlobAssumption DEF BlobIds
<1>2. PICK b \in S : \A x \in S : <<x, b>> \notin OpToRel(<, Nat)
  BY <1>1, NatLessThanWellFounded, WFMin
<1>3. ASSUME NEW x \in S PROVE b <= x
  <2>1. /\ b \in Nat /\ x \in Nat /\ <<x, b>>[1] = x /\ <<x, b>>[2] = b
        /\ <<x, b>> \in Nat \X Nat
    BY <1>1
  <2>2. ~(x < b)
    BY <1>2, <2>1 DEF OpToRel
  <2>3. QED
    BY <2>1, <2>2
<1>4. QED
  BY <1>3 DEF First

\* What a step of keeper k on run n leaves alone.
KeeperSteps(k, n) ==
  /\ \A l \in Keepers \ {k} : keeper'[l] = keeper[l]
  /\ \A m \in GcRuns \ {n} : gc'[m] = gc[m]
  /\ gc'[n].rows = gc[n].rows /\ gc'[n].files = gc[n].files

\* How the state of run n may change under it.
RunMoves(k, n) ==
  \/ gc'[n].state = gc[n].state
  \/ /\ Mover(k) /\ keeper[k].run = n /\ gc[n].state = "applying"
     /\ gc'[n].state \in {"quarantined", "planned", "partial_quarantine"}
  \/ gc[n].state = "planned" /\ gc'[n].state = "applying"
  \/ gc[n].state \in {"quarantined", "partial_quarantine"} /\ gc'[n].state = "restored"

\* The other calls stand where they stood.
LEMMA OtherKeepersFit ==
  ASSUME BlobIInv, NEW k \in Keepers, NEW n \in GcRuns, KeeperSteps(k, n), RunMoves(k, n),
         UNCHANGED <<refs, exposed>>
  PROVE  \A l \in Keepers \ {k} : KeeperFits(l)' /\ KeeperSees(l)'
<1> SUFFICES ASSUME NEW l \in Keepers \ {k} PROVE KeeperFits(l)' /\ KeeperSees(l)'
  OBVIOUS
<1>1. KeeperFits(l) /\ KeeperSees(l) /\ keeper'[l] = keeper[l]
  BY DEF BlobIInv, KeeperSteps
<1>2. keeper[l].pc # "idle" => /\ gc'[keeper[l].run].rows = gc[keeper[l].run].rows
                               /\ gc'[keeper[l].run].files = gc[keeper[l].run].files
  BY <1>1 DEF KeeperFits, KeeperSteps
<1>3. KeeperSees(l)'
  BY <1>1, <1>2 DEF KeeperSees, KeeperFits
<1>6. CASE keeper[l].run # n \/ keeper[l].pc = "idle"
  BY <1>1, <1>2, <1>3, <1>6 DEF KeeperFits, KeeperSteps, Candidates
<1>7. CASE keeper[l].run = n /\ keeper[l].pc # "idle"
  <2>1. Mover(l) => ~(Mover(k) /\ keeper[k].run = n)
    BY <1>7 DEF BlobIInv, OneMover
  <2>2. Mover(l) => gc[n].state # "planned"
    BY <1>1, <1>7 DEF Mover, KeeperFits
  <2>3. keeper[l].pc = "move" => gc'[n].state = "applying"
    BY <1>1, <1>7, <2>1, <2>2 DEF RunMoves, KeeperFits, Mover
  <2>4. keeper[l].pc = "unmove" => gc'[n].state \in {"applying", "quarantined", "restored"}
    BY <1>1, <1>7, <2>1, <2>2 DEF RunMoves, KeeperFits, Mover
  <2>5. keeper[l].pc = "restore" => gc'[n].state \in {"quarantined", "partial_quarantine", "restored"}
    BY <1>1, <1>7 DEF RunMoves, KeeperFits
  <2>6. gc'[n].state \notin {"none", "reading"}
    BY <1>1, <1>7 DEF RunMoves, KeeperFits
  <2>7. QED
    BY <1>1, <1>2, <1>3, <1>7, <2>3, <2>4, <2>5, <2>6 DEF KeeperFits, Candidates
<1>8. QED
  BY <1>6, <1>7

\* A step of keeper k that keeps the invariant, from what it does to k, to its
\* run and to the missing blobs.
LEMMA KeeperStepKeeps ==
  ASSUME BlobIInv, NEW k \in Keepers, NEW n \in GcRuns, KeeperSteps(k, n), RunMoves(k, n),
         UNCHANGED <<refs, exposed, stored>>, BlobRows',
         KeeperFits(k)', KeeperSees(k)',
         keeper'[k].pc \in {"move", "unmove"} =>
           \/ Mover(k) /\ keeper'[k].run = keeper[k].run
           \/ gc[keeper'[k].run].state = "planned",
         \A m \in GcRuns \ {n} : quarantine'[m] = quarantine[m],
         quarantine'[n] \subseteq Candidates(n), quarantine'[n] = quarantine[n] \/ gc[n].state \notin {"none", "reading"},
         \A b \in refs \ active' : b \in exposed,
         \A b \in stored \ active' : \E m \in GcRuns : Answers(m, b)'
  PROVE  BlobIInv'
<1>0. /\ BlobRows /\ \A l \in Keepers : KeeperFits(l)
      /\ \A m \in GcRuns : GcFits(m)
  BY DEF BlobIInv
<1>1. \A l \in Keepers : KeeperFits(l)' /\ KeeperSees(l)'
  BY OtherKeepersFit
<1>2. ASSUME NEW m \in GcRuns PROVE GcFits(m)'
  <2>1. Candidates(m)' = Candidates(m) /\ GcFits(m)
    BY <1>0 DEF KeeperSteps, Candidates
  <2>2. gc'[m].state \in {"none", "reading"} => gc[m].state = gc'[m].state
    BY DEF KeeperSteps, RunMoves
  <2>3. QED
    BY <2>1, <2>2 DEF GcFits
<1>3. OneMover'
  <2>1. ASSUME NEW l \in Keepers \ {k}, Mover(l)', Mover(k)', keeper'[l].run = keeper'[k].run PROVE FALSE
    <3>1. keeper'[l] = keeper[l] /\ Mover(l)
      BY <2>1 DEF KeeperSteps, Mover
    <3>2. gc[keeper[l].run].state # "planned"
      BY <1>0, <3>1 DEF KeeperFits, Mover
    <3>3. Mover(k) /\ keeper'[k].run = keeper[k].run
      BY <2>1, <3>1, <3>2 DEF Mover
    <3>4. QED
      BY <2>1, <3>1, <3>3 DEF BlobIInv, OneMover
  <2>2. ASSUME NEW l \in Keepers \ {k}, NEW j \in Keepers \ {k}, Mover(l)', Mover(j)', keeper'[l].run = keeper'[j].run
        PROVE  l = j
    BY <2>2 DEF BlobIInv, OneMover, KeeperSteps, Mover
  <2>3. QED
    BY <2>1, <2>2 DEF OneMover
<1>4. QED
  BY <1>1, <1>2, <1>3 DEF BlobIInv

\* A blob that is accounted for stays so when the rows it depends on do.
LEMMA StillAnswers ==
  ASSUME BlobIInv, NEW k \in Keepers, NEW n \in GcRuns, KeeperSteps(k, n), RunMoves(k, n),
         NEW b, NEW m \in GcRuns, Answers(m, b), b \in quarantine'[m],
         m = n => gc'[n].state \in OnRecord,
         keeper'[k].run = m => InHand(b, k)'
  PROVE  Answers(m, b)'
<1>1. gc'[m].state \in OnRecord
  BY DEF Answers, KeeperSteps
<1>2. ASSUME NEW l \in Keepers, keeper'[l].run = m PROVE InHand(b, l)'
  <2>1. CASE l = k
    BY <1>2, <2>1
  <2>2. CASE l # k
    BY <1>2, <2>2 DEF Answers, InHand, KeeperSteps
  <2>3. QED
    BY <2>1, <2>2
<1>3. QED
  BY <1>1, <1>2 DEF Answers

\* What a step of keeper k starts from.
LEMMA AtWork ==
  ASSUME BlobIInv, NEW k \in Keepers
  PROVE  /\ BlobRows /\ keeper[k] \in KeeperRow /\ KeeperFits(k) /\ KeeperSees(k)
         /\ refs \ active \subseteq exposed
         /\ keeper[k].pc # "idle" => /\ keeper[k].run \in GcRuns /\ gc[keeper[k].run] \in GcRow
                                     /\ GcFits(keeper[k].run)
BY DEF BlobIInv, BlobRows, KeeperFits

\* Keeper k ends, or goes somewhere where it has moved nothing; the blobs stay.
LEMMA ReadsKeep ==
  ASSUME BlobIInv, NEW k \in Keepers, StartApplication(k) \/ CompareSnapshot(k) \/ StartRestoration(k)
  PROVE  BlobIInv'
<1>0. /\ BlobRows /\ keeper[k] \in KeeperRow /\ KeeperFits(k) /\ KeeperSees(k)
      /\ refs \ active \subseteq exposed
      /\ \A n \in GcRuns : GcFits(n) /\ gc[n] \in GcRow
      /\ IdleKeeper \in KeeperRow
  BY AtWork DEF BlobIInv, BlobRows, IdleKeeper, KeeperRow
<1>1. UNCHANGED <<active, stored, refs, exposed, gc, quarantine, saver>>
  BY DEF StartApplication, CompareSnapshot, StartRestoration
\* Of row and run of the call it is enough to know that it stands in no one's way.
<1>2. ASSUME NEW n \in GcRuns, NEW row \in KeeperRow, keeper' = [keeper EXCEPT ![k] = row],
             row.pc \in {"idle", "list", "claim", "restore"}, row.op = "apply" <=> row.pc \in {"list", "claim"},
             row.pc # "idle" => row.run = n /\ gc[n].state \notin {"none", "reading"},
             row.pc = "list" => refs \subseteq row.seen,
             row.pc = "claim" => refs \ exposed \subseteq gc[n].rows,
             row.pc = "restore" => /\ gc[n].state \in {"quarantined", "partial_quarantine"}
                                   /\ quarantine[n] \subseteq row.todo
      PROVE  BlobIInv'
  <2>1. /\ keeper' \in [Keepers -> KeeperRow] /\ keeper'[k] = row
        /\ \A l \in Keepers \ {k} : keeper'[l] = keeper[l]
    BY <1>0, <1>2 DEF BlobRows
  <2>2. KeeperSteps(k, n) /\ RunMoves(k, n) /\ BlobRows'
    BY <1>0, <1>1, <2>1 DEF KeeperSteps, RunMoves, BlobRows
  <2>3. KeeperFits(k)' /\ KeeperSees(k)'
    BY <1>1, <1>2, <2>1 DEF KeeperFits, KeeperSees
  <2>4. ASSUME NEW b \in stored \ active' PROVE \E m \in GcRuns : Answers(m, b)'
    <3>1. PICK m \in GcRuns : Answers(m, b)
      BY <1>1, <2>4 DEF BlobIInv
    <3>2. b \in quarantine'[m] /\ (m = n => gc'[n].state \in OnRecord)
      BY <1>1, <3>1 DEF Answers
    <3>3. keeper'[k].run = m => InHand(b, k)'
      <4>1. ASSUME row.pc = "restore", row.run = m PROVE b \in row.todo
        BY <1>1, <1>2, <3>2, <4>1
      <4>2. QED
        BY <1>2, <2>1, <4>1 DEF InHand
    <3>4. QED
      BY <2>2, <3>1, <3>2, <3>3, StillAnswers
  <2>5. GcFits(n)
    BY <1>0
  <2>6. QED
    BY <1>0, <1>1, <1>2, <2>1, <2>2, <2>3, <2>4, <2>5, KeeperStepKeeps DEF GcFits
<1>3. CASE StartApplication(k)
  <2>1. PICK n \in GcRuns :
          /\ gc[n].state = "planned"
          /\ keeper' = [keeper EXCEPT ![k] = [IdleKeeper EXCEPT !.op = "apply", !.pc = "list", !.run = n, !.seen = refs]]
    BY <1>3 DEF StartApplication
  <2>2. PICK row : row = [IdleKeeper EXCEPT !.op = "apply", !.pc = "list", !.run = n, !.seen = refs]
    OBVIOUS
  <2>3. row \in KeeperRow /\ row.op = "apply" /\ row.pc = "list" /\ row.run = n /\ row.seen = refs
    BY <1>0, <2>2 DEF IdleKeeper, KeeperRow, BlobRows
  <2>4. QED
    BY <1>2, <2>1, <2>2, <2>3
<1>4. CASE StartRestoration(k)
  <2>1. PICK n \in GcRuns :
          /\ gc[n].state \in {"quarantined", "partial_quarantine"}
          /\ keeper' = [keeper EXCEPT ![k] = [IdleKeeper EXCEPT !.op = "restore", !.pc = "restore", !.run = n,
                                                               !.todo = Candidates(n)]]
    BY <1>4 DEF StartRestoration
  <2>2. PICK row : row = [IdleKeeper EXCEPT !.op = "restore", !.pc = "restore", !.run = n, !.todo = Candidates(n)]
    OBVIOUS
  <2>3. row \in KeeperRow /\ row.op = "restore" /\ row.pc = "restore" /\ row.run = n /\ row.todo = Candidates(n)
    <3>1. Candidates(n) \in SUBSET BlobIds
      BY <1>0 DEF Candidates, GcRow
    <3>2. QED
      BY <1>0, <2>2, <3>1 DEF IdleKeeper, KeeperRow, BlobRows
  <2>4. quarantine[n] \subseteq row.todo /\ keeper' = [keeper EXCEPT ![k] = row]
    BY <1>0, <2>1, <2>2, <2>3 DEF GcFits
  <2>5. gc[n].state \in {"quarantined", "partial_quarantine"}
    BY <2>1
  <2>6. QED
    BY <1>2, <2>3, <2>4, <2>5
<1>5. CASE CompareSnapshot(k)
  <2>1. keeper[k].pc = "list" /\ keeper[k].op = "apply" /\ keeper[k].run \in GcRuns
        /\ gc[keeper[k].run].state \notin {"none", "reading"} /\ refs \ exposed \subseteq keeper[k].seen
    BY <1>0, <1>5 DEF CompareSnapshot, KeeperAt, KeeperFits, KeeperSees
  <2>2. CASE keeper' = [keeper EXCEPT ![k] = IdleKeeper]
    BY <1>0, <1>2, <2>1, <2>2 DEF IdleKeeper
  <2>3. CASE /\ keeper' = [keeper EXCEPT ![k].pc = "claim", ![k].seen = {}]
             /\ keeper[k].seen = gc[keeper[k].run].rows
    <3>1. PICK row : row = [keeper[k] EXCEPT !.pc = "claim", !.seen = {}]
      OBVIOUS
    <3>2. row \in KeeperRow /\ row.op = "apply" /\ row.pc = "claim" /\ row.run = keeper[k].run
      BY <1>0, <2>1, <3>1 DEF KeeperRow
    <3>3. keeper' = [keeper EXCEPT ![k] = row]
      BY <1>0, <2>3, <3>1 DEF BlobRows, KeeperRow
    <3>4. QED
      BY <1>2, <2>1, <2>3, <3>2, <3>3
  <2>4. QED
    BY <1>5, <2>2, <2>3 DEF CompareSnapshot, KeeperEnds
<1>6. QED
  BY <1>3, <1>4, <1>5

\* ApplyBlobGCDryRun takes the run.
LEMMA ClaimKeeps ==
  ASSUME BlobIInv, NEW k \in Keepers, ClaimGc(k)
  PROVE  BlobIInv'
<1> DEFINE n == keeper[k].run
<1>0. /\ BlobRows /\ keeper[k] \in KeeperRow /\ KeeperFits(k) /\ KeeperSees(k)
      /\ keeper[k].pc = "claim" /\ n \in GcRuns /\ gc[n] \in GcRow /\ GcFits(n)
      /\ IdleKeeper \in KeeperRow /\ refs \ active \subseteq exposed
  BY AtWork DEF ClaimGc, KeeperAt, IdleKeeper, KeeperRow
<1>1. UNCHANGED <<active, stored, refs, exposed, quarantine, saver>>
  BY DEF ClaimGc
<1>2. ASSUME NEW row \in KeeperRow, NEW state \in {gc[n].state, "applying"},
             keeper' = [keeper EXCEPT ![k] = row], gc' = [gc EXCEPT ![n].state = state],
             \/ row = IdleKeeper /\ state = gc[n].state
             \/ /\ gc[n].state = "planned" /\ state = "applying"
                /\ row.pc = "move" /\ row.op = "apply" /\ row.run = n /\ row.todo = Candidates(n)
      PROVE  BlobIInv'
  <2>1. /\ keeper' \in [Keepers -> KeeperRow] /\ keeper'[k] = row
        /\ \A l \in Keepers \ {k} : keeper'[l] = keeper[l]
    BY <1>0, <1>2 DEF BlobRows
  <2>2. /\ gc' \in [GcRuns -> GcRow] /\ \A m \in GcRuns \ {n} : gc'[m] = gc[m]
        /\ gc'[n].state = state /\ gc'[n].rows = gc[n].rows /\ gc'[n].files = gc[n].files
    BY <1>0, <1>2 DEF BlobRows, GcRow, GcStates
  <2>3. KeeperSteps(k, n) /\ RunMoves(k, n) /\ BlobRows'
    BY <1>0, <1>1, <1>2, <2>1, <2>2 DEF KeeperSteps, RunMoves, BlobRows
  <2>4. CASE row = IdleKeeper /\ state = gc[n].state
    <3>1. KeeperFits(k)' /\ KeeperSees(k)' /\ keeper'[k].pc = "idle" /\ keeper'[k].run = 0
      BY <2>1, <2>4 DEF KeeperFits, KeeperSees, IdleKeeper
    <3>2. ASSUME NEW b \in stored \ active' PROVE \E m \in GcRuns : Answers(m, b)'
      <4>1. PICK m \in GcRuns : Answers(m, b)
        BY <1>1, <3>2 DEF BlobIInv
      <4>2. b \in quarantine'[m] /\ (m = n => gc'[n].state \in OnRecord) /\ InHand(b, k)'
        BY <1>1, <2>2, <2>4, <3>1, <4>1 DEF Answers, InHand
      <4>3. QED
        BY <1>0, <2>3, <4>1, <4>2, StillAnswers
    <3>3. QED
      BY <1>0, <1>1, <2>3, <3>1, <3>2, KeeperStepKeeps DEF GcFits
  <2>5. CASE /\ gc[n].state = "planned" /\ state = "applying"
             /\ row.pc = "move" /\ row.op = "apply" /\ row.run = n /\ row.todo = Candidates(n)
    <3>1. KeeperFits(k)' /\ KeeperSees(k)'
      BY <1>0, <1>1, <2>1, <2>2, <2>5 DEF KeeperFits, KeeperSees, Candidates
    \* Before the claim nothing was accounted for by a planned run.
    <3>2. ASSUME NEW b \in stored \ active' PROVE \E m \in GcRuns : Answers(m, b)'
      <4>1. PICK m \in GcRuns : Answers(m, b)
        BY <1>1, <3>2 DEF BlobIInv
      <4>2. m # n /\ b \in quarantine'[m]
        BY <1>1, <2>5, <4>1 DEF Answers, OnRecord
      <4>3. QED
        BY <1>0, <2>1, <2>3, <2>5, <4>1, <4>2, StillAnswers
    <3>3. QED
      BY <1>0, <1>1, <2>1, <2>3, <2>5, <3>1, <3>2, KeeperStepKeeps DEF GcFits
  <2>6. QED
    BY <1>2, <2>4, <2>5
<1>3. CASE gc[n].state = "planned"
  <2>1. PICK row : row = [keeper[k] EXCEPT !.pc = "move", !.todo = Candidates(n)]
    OBVIOUS
  <2>2. Candidates(n) \in SUBSET BlobIds
    BY <1>0 DEF Candidates, GcRow
  <2>3. row \in KeeperRow /\ row.op = "apply" /\ row.pc = "move" /\ row.run = n /\ row.todo = Candidates(n)
    BY <1>0, <2>1, <2>2 DEF KeeperRow, KeeperFits
  <2>4. keeper' = [keeper EXCEPT ![k] = row] /\ gc' = [gc EXCEPT ![n].state = "applying"]
    BY <1>0, <1>3, <2>1 DEF ClaimGc, SetGc, BlobRows, KeeperRow
  <2>5. QED
    BY <1>2, <1>3, <2>3, <2>4
<1>4. CASE gc[n].state # "planned"
  <2>1. keeper' = [keeper EXCEPT ![k] = IdleKeeper] /\ gc' = gc
    BY <1>4 DEF ClaimGc, KeeperEnds
  <2>2. gc' = [gc EXCEPT ![n].state = gc[n].state]
    BY <1>0, <2>1 DEF BlobRows, GcRow
  <2>3. QED
    BY <1>0, <1>2, <2>1, <2>2
<1>5. QED
  BY <1>3, <1>4

\* It moves the next blob of the run.
LEMMA QuarantineKeeps ==
  ASSUME BlobIInv, NEW k \in Keepers, Quarantine(k)
  PROVE  BlobIInv'
<1> DEFINE n == keeper[k].run
           c == First(keeper[k].todo)
<1>0. /\ BlobRows /\ keeper[k] \in KeeperRow /\ KeeperFits(k) /\ KeeperSees(k)
      /\ keeper[k].pc = "move" /\ n \in GcRuns /\ gc[n] \in GcRow /\ GcFits(n)
      /\ refs \ active \subseteq exposed
  BY AtWork DEF Quarantine, KeeperAt
<1>1. /\ UNCHANGED <<stored, refs, exposed, gc, saver>>
      /\ active' = active \ {c} /\ quarantine' = [quarantine EXCEPT ![n] = @ \cup {c}] /\ c \in active
  BY DEF Quarantine
<1>2. c \in keeper[k].todo /\ c \in BlobIds
  BY <1>0, FirstIsIn DEF Quarantine, KeeperRow
<1>3. c \in Candidates(n) /\ gc[n].state = "applying" /\ keeper[k].op = "apply"
  BY <1>0, <1>2 DEF KeeperFits
<1>4. /\ keeper' \in [Keepers -> KeeperRow] /\ \A l \in Keepers \ {k} : keeper'[l] = keeper[l]
      /\ keeper'[k].op = "apply" /\ keeper'[k].pc = "move" /\ keeper'[k].run = n
      /\ keeper'[k].todo = keeper[k].todo \ {c} /\ keeper'[k].moved = keeper[k].moved \cup {c}
  <2>1. PICK row : row = [keeper[k] EXCEPT !.todo = keeper[k].todo \ {c}, !.moved = keeper[k].moved \cup {c}]
    OBVIOUS
  <2>2. keeper[k].todo \ {c} \in SUBSET BlobIds /\ keeper[k].moved \cup {c} \in SUBSET BlobIds
    BY <1>0, <1>2 DEF KeeperRow
  <2>3. /\ row \in KeeperRow /\ row.op = "apply" /\ row.pc = "move" /\ row.run = n
        /\ row.todo = keeper[k].todo \ {c} /\ row.moved = keeper[k].moved \cup {c}
    BY <1>0, <1>3, <2>1, <2>2 DEF KeeperRow
  <2>4. keeper' = [keeper EXCEPT ![k] = row]
    BY <1>0, <2>1 DEF Quarantine, BlobRows, KeeperRow
  <2>5. QED
    BY <1>0, <2>3, <2>4 DEF BlobRows
<1>5. /\ quarantine' \in [GcRuns -> SUBSET BlobIds] /\ \A m \in GcRuns \ {n} : quarantine'[m] = quarantine[m]
      /\ quarantine'[n] = quarantine[n] \cup {c}
  BY <1>0, <1>1, <1>2 DEF BlobRows
<1>6. KeeperSteps(k, n) /\ RunMoves(k, n) /\ BlobRows'
  BY <1>0, <1>1, <1>4, <1>5 DEF KeeperSteps, RunMoves, BlobRows
<1>7. KeeperFits(k)' /\ KeeperSees(k)'
  BY <1>0, <1>1, <1>3, <1>4 DEF KeeperFits, KeeperSees, Candidates
\* The one blob that comes to be missing is in the hands of k alone.
<1>8. ASSUME NEW b \in stored \ active' PROVE \E m \in GcRuns : Answers(m, b)'
  <2>1. CASE b = c
    <3>1. ASSUME NEW l \in Keepers \ {k}, keeper[l].run = n PROVE keeper[l].pc \notin {"move", "unmove", "restore"}
      BY <1>0, <1>3, <3>1 DEF BlobIInv, OneMover, Mover, KeeperFits
    <3>2. PICK m \in GcRuns : m = n
      BY <1>0
    <3>3. b \in quarantine'[m] /\ gc'[m].state \in OnRecord
      BY <1>1, <1>3, <1>5, <2>1, <3>2 DEF OnRecord
    <3>4. ASSUME NEW l \in Keepers, keeper'[l].run = m PROVE InHand(b, l)'
      <4>1. CASE l = k
        BY <1>4, <2>1, <4>1 DEF InHand
      <4>2. CASE l # k
        BY <1>4, <3>1, <3>2, <3>4, <4>2 DEF InHand
      <4>3. QED
        BY <4>1, <4>2
    <3>5. QED
      BY <3>3, <3>4 DEF Answers
  <2>2. CASE b # c
    <3>1. PICK m \in GcRuns : Answers(m, b)
      BY <1>1, <1>8, <2>2 DEF BlobIInv
    <3>2. b \in quarantine'[m] /\ gc'[n].state \in OnRecord
      BY <1>1, <1>3, <1>5, <3>1 DEF Answers, OnRecord
    <3>3. keeper'[k].run = m => InHand(b, k)'
      BY <1>0, <1>4, <2>2, <3>1 DEF Answers, InHand
    <3>4. QED
      BY <1>0, <1>6, <3>1, <3>2, <3>3, StillAnswers
  <2>3. QED
    BY <2>1, <2>2
<1>9. c \in refs => c \in exposed
  BY <1>0, <1>3 DEF KeeperSees, Candidates
<1>10. quarantine'[n] \subseteq Candidates(n) /\ gc[n].state \notin {"none", "reading"}
  BY <1>0, <1>3, <1>5 DEF GcFits
<1>11. Mover(k) /\ keeper'[k].run = keeper[k].run
  BY <1>0, <1>4 DEF Mover
<1>12. QED
  BY <1>0, <1>1, <1>5, <1>6, <1>7, <1>8, <1>9, <1>10, <1>11, KeeperStepKeeps

\* A failure in the middle: what was moved is still in hand.
LEMMA TurnBackKeeps ==
  ASSUME BlobIInv, NEW k \in Keepers, QuarantineFails(k) \/ CommitQuarantine(k)
  PROVE  BlobIInv'
<1> DEFINE n == keeper[k].run
<1>0. /\ BlobRows /\ keeper[k] \in KeeperRow /\ KeeperFits(k) /\ KeeperSees(k)
      /\ keeper[k].pc = "move" /\ n \in GcRuns /\ gc[n] \in GcRow /\ GcFits(n)
      /\ refs \ active \subseteq exposed /\ IdleKeeper \in KeeperRow
  BY AtWork DEF QuarantineFails, CommitQuarantine, KeeperAt, IdleKeeper, KeeperRow
<1>1. UNCHANGED <<active, stored, refs, exposed, quarantine, saver>> /\ gc[n].state = "applying"
  BY <1>0 DEF QuarantineFails, CommitQuarantine, KeeperFits
<1>2. ASSUME NEW row \in KeeperRow, NEW state \in {"applying", "quarantined"},
             keeper' = [keeper EXCEPT ![k] = row], gc' = [gc EXCEPT ![n].state = state],
             \/ row = IdleKeeper
             \/ row.pc = "unmove" /\ row.op = "apply" /\ row.run = n /\ row.todo = keeper[k].moved
      PROVE  BlobIInv'
  <2>1. /\ keeper' \in [Keepers -> KeeperRow] /\ keeper'[k] = row
        /\ \A l \in Keepers \ {k} : keeper'[l] = keeper[l]
    BY <1>0, <1>2 DEF BlobRows
  <2>2. /\ gc' \in [GcRuns -> GcRow] /\ \A m \in GcRuns \ {n} : gc'[m] = gc[m]
        /\ gc'[n].state = state /\ gc'[n].rows = gc[n].rows /\ gc'[n].files = gc[n].files
    BY <1>0, <1>2 DEF BlobRows, GcRow, GcStates
  <2>3. Mover(k)
    BY <1>0 DEF Mover
  <2>4. KeeperSteps(k, n) /\ RunMoves(k, n) /\ BlobRows'
    BY <1>0, <1>1, <1>2, <2>1, <2>2, <2>3 DEF KeeperSteps, RunMoves, BlobRows
  <2>5. KeeperFits(k)' /\ KeeperSees(k)'
    <3>1. CASE row = IdleKeeper
      BY <2>1, <3>1 DEF KeeperFits, KeeperSees, IdleKeeper
    <3>2. CASE row.pc = "unmove" /\ row.op = "apply" /\ row.run = n
      BY <1>0, <1>1, <2>1, <2>2, <3>2 DEF KeeperFits, KeeperSees
    <3>3. QED
      BY <1>2, <3>1, <3>2
  <2>6. ASSUME NEW b \in stored \ active' PROVE \E m \in GcRuns : Answers(m, b)'
    <3>1. PICK m \in GcRuns : Answers(m, b)
      BY <1>1, <2>6 DEF BlobIInv
    <3>2. b \in quarantine'[m] /\ gc'[n].state \in OnRecord
      BY <1>1, <2>2, <3>1 DEF Answers, OnRecord
    <3>3. keeper'[k].run = m => InHand(b, k)'
      <4>1. CASE row = IdleKeeper
        BY <2>1, <4>1 DEF InHand, IdleKeeper
      <4>2. CASE row.pc = "unmove" /\ row.run = n /\ row.todo = keeper[k].moved
        BY <1>0, <2>1, <3>1, <4>2 DEF Answers, InHand
      <4>3. QED
        BY <1>2, <4>1, <4>2
    <3>4. QED
      BY <1>0, <2>4, <3>1, <3>2, <3>3, StillAnswers
  <2>7. keeper'[k].pc \in {"move", "unmove"} => keeper'[k].run = keeper[k].run
    BY <1>2, <2>1 DEF IdleKeeper
  <2>8. QED
    BY <1>0, <1>1, <2>3, <2>4, <2>5, <2>6, <2>7, KeeperStepKeeps DEF GcFits
<1>3. PICK row : row = [keeper[k] EXCEPT !.pc = "unmove", !.todo = keeper[k].moved]
  OBVIOUS
<1>4. row \in KeeperRow /\ row.op = "apply" /\ row.pc = "unmove" /\ row.run = n /\ row.todo = keeper[k].moved
  BY <1>0, <1>3 DEF KeeperRow, KeeperFits
<1>5. gc = [gc EXCEPT ![n].state = "applying"]
  BY <1>0, <1>1 DEF BlobRows, GcRow
<1>6. [gc EXCEPT ![n].state = IF @ = "applying" THEN "quarantined" ELSE @] = [gc EXCEPT ![n].state = "quarantined"]
  BY <1>1
<1>7. PICK state \in {"applying", "quarantined"} : gc' = [gc EXCEPT ![n].state = state]
  <2>1. gc' \in {gc, [gc EXCEPT ![n].state = IF @ = "applying" THEN "quarantined" ELSE @]}
    BY DEF QuarantineFails, CommitQuarantine
  <2>2. QED
    BY <1>5, <1>6, <2>1
<1>8. \/ keeper' = [keeper EXCEPT ![k] = IdleKeeper]
      \/ keeper' = [keeper EXCEPT ![k].pc = "unmove", ![k].todo = keeper[k].moved]
  BY DEF QuarantineFails, CommitQuarantine, KeeperEnds
<1>9. [keeper EXCEPT ![k].pc = "unmove", ![k].todo = keeper[k].moved] = [keeper EXCEPT ![k] = row]
  BY <1>0, <1>3 DEF BlobRows, KeeperRow
<1>10. QED
  BY <1>0, <1>2, <1>4, <1>7, <1>8, <1>9

\* A blob is put back, or the attempt fails.
LEMMA BringBackKeeps ==
  ASSUME BlobIInv, NEW k \in Keepers, BringBack(k) \/ RestoreBlob(k)
  PROVE  BlobIInv'
<1> DEFINE n == keeper[k].run
           c == First(keeper[k].todo)
<1>0. /\ BlobRows /\ keeper[k] \in KeeperRow /\ KeeperFits(k) /\ KeeperSees(k)
      /\ keeper[k].pc \in {"unmove", "restore"} /\ n \in GcRuns /\ gc[n] \in GcRow /\ GcFits(n)
      /\ refs \ active \subseteq exposed /\ keeper[k].todo # {}
      /\ UNCHANGED <<stored, refs, exposed, gc, saver>>
  BY AtWork DEF BringBack, RestoreBlob, KeeperAt
<1>1. c \in keeper[k].todo /\ c \in BlobIds
  BY <1>0, FirstIsIn DEF KeeperRow
\* Of the files it is enough that no blob goes missing.
<1>2. ASSUME NEW row \in KeeperRow, keeper' = [keeper EXCEPT ![k] = row],
             active \subseteq active', active' \subseteq BlobIds,
             quarantine' \in [GcRuns -> SUBSET BlobIds], quarantine'[n] \subseteq quarantine[n],
             \A m \in GcRuns \ {n} : quarantine'[m] = quarantine[m],
             quarantine[n] \ quarantine'[n] \subseteq active',
             \/ row.pc = "idle" /\ row.op = "none"
             \/ /\ row.pc = keeper[k].pc /\ row.op = keeper[k].op /\ row.run = n
                /\ row.pc = "restore" => keeper[k].todo \ active' \subseteq row.todo
                /\ ~row.torn => ~keeper[k].torn /\ keeper[k].todo \ active' \subseteq row.todo
      PROVE  BlobIInv'
  <2>1. /\ keeper' \in [Keepers -> KeeperRow] /\ keeper'[k] = row
        /\ \A l \in Keepers \ {k} : keeper'[l] = keeper[l]
    BY <1>0, <1>2 DEF BlobRows
  <2>2. KeeperSteps(k, n) /\ RunMoves(k, n) /\ BlobRows'
    BY <1>0, <1>2, <2>1 DEF KeeperSteps, RunMoves, BlobRows
  <2>3. KeeperFits(k)' /\ KeeperSees(k)'
    BY <1>0, <1>2, <2>1 DEF KeeperFits, KeeperSees
  <2>4. ASSUME NEW b \in stored \ active' PROVE \E m \in GcRuns : Answers(m, b)'
    <3>1. PICK m \in GcRuns : Answers(m, b)
      BY <1>2, <2>4 DEF BlobIInv
    <3>2. b \in quarantine'[m] /\ gc'[m].state \in OnRecord
      BY <1>0, <1>2, <2>4, <3>1 DEF Answers
    <3>3. ASSUME keeper'[k].run = m PROVE InHand(b, k)'
      <4>1. CASE row.pc = "idle"
        BY <2>1, <4>1 DEF InHand
      <4>2. CASE /\ row.pc = keeper[k].pc /\ row.run = n
                 /\ row.pc = "restore" => keeper[k].todo \ active' \subseteq row.todo
                 /\ ~row.torn => ~keeper[k].torn /\ keeper[k].todo \ active' \subseteq row.todo
        <5>1. InHand(b, k) /\ b \notin active'
          BY <2>1, <2>4, <3>1, <3>3, <4>2 DEF Answers
        <5>2. QED
          BY <1>0, <2>1, <4>2, <5>1 DEF InHand
      <4>3. QED
        BY <1>2, <4>1, <4>2
    <3>4. QED
      BY <1>0, <2>2, <3>1, <3>2, <3>3, StillAnswers
  <2>5. keeper'[k].pc \in {"move", "unmove"} => Mover(k) /\ keeper'[k].run = keeper[k].run
    BY <1>2, <2>1 DEF Mover
  <2>6. quarantine'[n] \subseteq Candidates(n) /\ (quarantine'[n] = quarantine[n] \/ gc[n].state \notin {"none", "reading"})
    BY <1>0, <1>2 DEF GcFits, KeeperFits
  <2>7. \A b \in refs \ active' : b \in exposed
    BY <1>0, <1>2
  <2>8. QED
    BY <1>0, <1>2, <2>2, <2>3, <2>4, <2>5, <2>6, <2>7, KeeperStepKeeps
<1>3. /\ UNCHANGED <<active, quarantine>>
         \/ /\ c \in active \/ c \in quarantine[n]
            /\ active' = active \cup {c}
            /\ quarantine' = IF c \in active THEN quarantine ELSE [quarantine EXCEPT ![n] = @ \ {c}]
      /\ \/ c \in active' /\ keeper' = [keeper EXCEPT ![k].todo = @ \ {c}]
         \/ keeper[k].pc = "unmove" /\ keeper' = [keeper EXCEPT ![k].todo = @ \ {c}, ![k].torn = TRUE]
         \/ keeper' = [keeper EXCEPT ![k] = IdleKeeper]
  BY DEF BringBack, RestoreBlob, KeeperAt, KeeperEnds
<1>4. /\ active \subseteq active' /\ active' \subseteq BlobIds
      /\ quarantine' \in [GcRuns -> SUBSET BlobIds] /\ quarantine'[n] \subseteq quarantine[n]
      /\ \A m \in GcRuns \ {n} : quarantine'[m] = quarantine[m]
      /\ quarantine[n] \ quarantine'[n] \subseteq active'
  <2>1. active \subseteq BlobIds /\ quarantine \in [GcRuns -> SUBSET BlobIds]
    BY <1>0 DEF BlobRows
  <2>2. CASE UNCHANGED <<active, quarantine>>
    BY <1>0, <2>1, <2>2
  <2>3. CASE c \in active /\ UNCHANGED quarantine /\ active' = active \cup {c}
    BY <1>0, <2>1, <2>3
  <2>4. CASE /\ c \in quarantine[n] /\ active' = active \cup {c}
             /\ quarantine' = [quarantine EXCEPT ![n] = @ \ {c}]
    BY <1>0, <1>1, <2>1, <2>4
  <2>5. QED
    BY <1>3, <2>2, <2>3, <2>4
<1>5. CASE keeper' = [keeper EXCEPT ![k] = IdleKeeper]
  <2>1. IdleKeeper \in KeeperRow /\ IdleKeeper.pc = "idle" /\ IdleKeeper.op = "none"
    BY DEF IdleKeeper, KeeperRow
  <2>2. QED
    BY <1>2, <1>4, <1>5, <2>1
<1>6. ASSUME NEW torn \in BOOLEAN, ~torn => ~keeper[k].torn /\ c \in active', keeper[k].pc = "restore" => c \in active',
             keeper' = [keeper EXCEPT ![k].todo = @ \ {c}, ![k].torn = torn]
      PROVE  BlobIInv'
  <2>1. PICK todo \in SUBSET BlobIds : todo = keeper[k].todo \ {c}
    BY <1>0 DEF KeeperRow
  <2>2. PICK row : row = [keeper[k] EXCEPT !.todo = todo, !.torn = torn]
    OBVIOUS
  <2>3. /\ row \in KeeperRow /\ row.pc = keeper[k].pc /\ row.op = keeper[k].op /\ row.run = n
        /\ row.todo = todo
    BY <1>0, <2>2 DEF KeeperRow
  <2>4. row.torn = torn
    BY <1>0, <2>2 DEF KeeperRow
  <2>5. keeper' = [keeper EXCEPT ![k] = row]
    BY <1>0, <1>6, <2>1, <2>2 DEF BlobRows, KeeperRow
  <2>6. row.pc = "restore" => keeper[k].todo \ active' \subseteq row.todo
    BY <1>6, <2>1, <2>3
  <2>7. ~row.torn => ~keeper[k].torn /\ keeper[k].todo \ active' \subseteq row.todo
    BY <1>6, <2>1, <2>3, <2>4
  <2>8. QED
    BY <1>2, <1>4, <2>3, <2>5, <2>6, <2>7
<1>7. CASE c \in active' /\ keeper' = [keeper EXCEPT ![k].todo = @ \ {c}]
  <2>1. PICK torn \in BOOLEAN : torn = keeper[k].torn
    BY <1>0 DEF KeeperRow
  <2>2. keeper' = [keeper EXCEPT ![k].todo = @ \ {c}, ![k].torn = torn]
    BY <1>0, <1>7, <2>1 DEF BlobRows, KeeperRow
  <2>3. (~torn => ~keeper[k].torn /\ c \in active') /\ (keeper[k].pc = "restore" => c \in active')
    BY <1>7, <2>1
  <2>4. QED
    BY <1>6, <2>2, <2>3
<1>8. CASE keeper[k].pc = "unmove" /\ keeper' = [keeper EXCEPT ![k].todo = @ \ {c}, ![k].torn = TRUE]
  BY <1>6, <1>8
<1>9. QED
  BY <1>3, <1>5, <1>7, <1>8

\* Keeper k ends, and its run gets another state.
LEMMA EndsKeep ==
  ASSUME BlobIInv, NEW k \in Keepers, ReleaseClaim(k) \/ FinishRestoration(k)
  PROVE  BlobIInv'
<1> DEFINE n == keeper[k].run
<1>0. /\ BlobRows /\ keeper[k] \in KeeperRow /\ KeeperFits(k) /\ keeper[k].todo = {}
      /\ keeper[k].pc \in {"unmove", "restore"} /\ n \in GcRuns /\ gc[n] \in GcRow /\ GcFits(n)
      /\ refs \ active \subseteq exposed /\ keeper' = [keeper EXCEPT ![k] = IdleKeeper]
      /\ UNCHANGED <<active, stored, refs, exposed, quarantine, saver>>
  BY AtWork DEF ReleaseClaim, FinishRestoration, KeeperAt, KeeperEnds
<1>1. /\ keeper' \in [Keepers -> KeeperRow] /\ keeper'[k] = IdleKeeper
      /\ \A l \in Keepers \ {k} : keeper'[l] = keeper[l]
  BY <1>0 DEF BlobRows, IdleKeeper, KeeperRow
<1>2. PICK state \in GcStates :
        /\ gc' = [gc EXCEPT ![n].state = state]
        /\ \/ state = gc[n].state
           \/ /\ keeper[k].pc = "unmove" /\ gc[n].state = "applying"
              /\ state = IF keeper[k].torn THEN "partial_quarantine" ELSE "planned"
           \/ /\ keeper[k].pc = "restore" /\ gc[n].state \in {"quarantined", "partial_quarantine"}
              /\ state = "restored"
  <2>1. gc = [gc EXCEPT ![n].state = gc[n].state] /\ gc[n].state \in GcStates
    BY <1>0 DEF BlobRows, GcRow
  <2>2. CASE ReleaseClaim(k)
    <3>1. CASE gc' = gc
      BY <2>1, <3>1
    <3>2. CASE gc' = [gc EXCEPT ![n].state = IF @ = "applying" THEN
                        (IF keeper[k].torn THEN "partial_quarantine" ELSE "planned") ELSE @]
      BY <2>1, <2>2, <3>2 DEF GcStates, ReleaseClaim, KeeperAt
    <3>3. QED
      BY <2>2, <3>1, <3>2 DEF ReleaseClaim
  <2>3. CASE FinishRestoration(k)
    BY <2>1, <2>3 DEF FinishRestoration, KeeperAt, GcStates
  <2>4. QED
    BY <2>2, <2>3
<1>3. /\ gc' \in [GcRuns -> GcRow] /\ \A m \in GcRuns \ {n} : gc'[m] = gc[m]
      /\ gc'[n].state = state /\ gc'[n].rows = gc[n].rows /\ gc'[n].files = gc[n].files
  BY <1>0, <1>2 DEF BlobRows, GcRow
<1>4. KeeperSteps(k, n) /\ RunMoves(k, n) /\ BlobRows'
  <2>1. keeper[k].pc = "unmove" => Mover(k)
    BY DEF Mover
  <2>2. QED
    BY <1>0, <1>1, <1>2, <1>3, <2>1 DEF KeeperSteps, RunMoves, BlobRows
<1>5. KeeperFits(k)' /\ KeeperSees(k)' /\ keeper'[k].pc = "idle"
  BY <1>1 DEF KeeperFits, KeeperSees, IdleKeeper
\* With nothing left in hand, nothing is accounted for by the run alone.
<1>6. ASSUME NEW b \in stored \ active' PROVE \E m \in GcRuns : Answers(m, b)'
  <2>1. PICK m \in GcRuns : Answers(m, b)
    BY <1>0, <1>6 DEF BlobIInv
  <2>2. m = n => keeper[k].pc = "unmove" /\ keeper[k].torn
    BY <1>0, <2>1 DEF Answers, InHand
  <2>3. m = n => gc'[n].state \in OnRecord
    BY <1>2, <1>3, <2>1, <2>2 DEF Answers, OnRecord
  <2>4. b \in quarantine'[m] /\ InHand(b, k)'
    BY <1>0, <1>5, <2>1 DEF Answers, InHand
  <2>5. QED
    BY <1>0, <1>4, <2>1, <2>3, <2>4, StillAnswers
<1>7. QED
  BY <1>0, <1>4, <1>5, <1>6, KeeperStepKeeps DEF GcFits

\* Those who know nothing of the collector.
LEMMA ServingKeeps ==
  ASSUME BlobIInv, (\E w \in Savers : Put(w) \/ CommitReference(w)) \/ (\E b \in BlobIds : DropReference(b))
  PROVE  BlobIInv'
<1>0. /\ BlobRows /\ UNCHANGED <<gc, quarantine, keeper>>
      /\ \A k \in Keepers : KeeperFits(k) /\ KeeperSees(k)
      /\ \A n \in GcRuns : GcFits(n)
      /\ refs \ active \subseteq exposed
  BY DEF BlobIInv, Put, CommitReference, DropReference
<1>1. /\ \A k \in Keepers : KeeperFits(k)'
      /\ \A n \in GcRuns : GcFits(n)'
      /\ OneMover'
  BY <1>0 DEF BlobIInv, KeeperFits, GcFits, Candidates, OneMover, Mover
<1>2. ASSUME stored' \ active' \subseteq stored \ active PROVE \A b \in stored' \ active' : \E n \in GcRuns : Answers(n, b)'
  <2>1. \A b, n : Answers(n, b) => Answers(n, b)'
    BY <1>0 DEF Answers, InHand
  <2>2. QED
    BY <1>2, <2>1 DEF BlobIInv
<1>3. ASSUME refs' \ exposed' \subseteq refs \ exposed \/ \A k \in Keepers : keeper[k].op # "apply"
      PROVE  \A k \in Keepers : KeeperSees(k)'
  BY <1>0, <1>3 DEF KeeperSees
<1>4. ASSUME NEW w \in Savers, Put(w) PROVE BlobIInv'
  <2>1. PICK b \in BlobIds : /\ saver' = [saver EXCEPT ![w] = b]
                             /\ active' = active \cup {b} /\ stored' = stored \cup {b}
    BY <1>4 DEF Put
  <2>2. UNCHANGED <<refs, exposed>>
    BY <1>4 DEF Put
  <2>3. BlobRows'
    BY <1>0, <2>1, <2>2 DEF BlobRows
  <2>4. QED
    BY <1>0, <1>1, <1>2, <1>3, <2>1, <2>2, <2>3 DEF BlobIInv
<1>5. ASSUME NEW w \in Savers, CommitReference(w) PROVE BlobIInv'
  <2>1. /\ saver[w] # NoBlob /\ saver' = [saver EXCEPT ![w] = NoBlob]
        /\ refs' = refs \cup {saver[w]} /\ UNCHANGED <<active, stored>>
    BY <1>5 DEF CommitReference
  <2>2. saver[w] \in BlobIds
    BY <1>0, <2>1 DEF BlobRows
  <2>3. BlobRows'
    BY <1>0, <2>1, <2>2 DEF BlobRows
  <2>4. exposed \subseteq exposed' /\ refs' \ active' \subseteq exposed'
    BY <1>0, <1>5, <2>1 DEF CommitReference
  <2>5. refs' \ exposed' \subseteq refs \ exposed \/ \A k \in Keepers : keeper[k].op # "apply"
    BY <1>5, <2>1, <2>4 DEF CommitReference
  <2>6. QED
    BY <1>1, <1>2, <1>3, <2>1, <2>3, <2>4, <2>5 DEF BlobIInv
<1>6. ASSUME NEW b \in BlobIds, DropReference(b) PROVE BlobIInv'
  <2>1. refs' = refs \ {b} /\ exposed' = exposed \ {b} /\ UNCHANGED <<active, stored, saver>>
    BY <1>6 DEF DropReference
  <2>2. BlobRows'
    BY <1>0, <2>1 DEF BlobRows
  <2>3. QED
    BY <1>0, <1>1, <1>2, <1>3, <2>1, <2>2 DEF BlobIInv
<1>7. QED
  BY <1>4, <1>5, <1>6

\* A dry run reads the rows and the files.
LEMMA DryRunsKeep ==
  ASSUME BlobIInv, NEW n \in GcRuns, DryRunRows(n) \/ DryRunFiles(n)
  PROVE  BlobIInv'
<1>0. /\ BlobRows /\ UNCHANGED <<active, stored, refs, exposed, quarantine, keeper, saver>>
      /\ \A k \in Keepers : KeeperFits(k) /\ KeeperSees(k)
      /\ \A m \in GcRuns : GcFits(m)
      /\ refs \ active \subseteq exposed /\ gc[n] \in GcRow
  BY DEF BlobIInv, BlobRows, DryRunRows, DryRunFiles
<1>1. /\ gc[n].state \in {"none", "reading"}
      /\ gc' \in [GcRuns -> GcRow] /\ \A m \in GcRuns \ {n} : gc'[m] = gc[m]
  <2>1. CASE DryRunRows(n)
    BY <1>0, <2>1 DEF DryRunRows, NoGcRun, BlobRows, GcRow, GcStates
  <2>2. CASE DryRunFiles(n)
    BY <1>0, <2>2 DEF DryRunFiles, BlobRows, GcRow, GcStates
  <2>3. QED
    BY <2>1, <2>2
<1>2. quarantine[n] = {} /\ \A k \in Keepers : keeper[k].pc # "idle" => keeper[k].run # n
  BY <1>0, <1>1 DEF GcFits, KeeperFits
<1>3. \A k \in Keepers : KeeperFits(k)' /\ KeeperSees(k)'
  BY <1>0, <1>1, <1>2 DEF KeeperFits, KeeperSees, Candidates
<1>4. \A m \in GcRuns : GcFits(m)'
  BY <1>0, <1>1, <1>2 DEF GcFits, Candidates
<1>5. OneMover'
  BY <1>0 DEF BlobIInv, OneMover, Mover
<1>6. \A b, m : m \in GcRuns /\ Answers(m, b) => Answers(m, b)'
  BY <1>0, <1>1, <1>2 DEF Answers, InHand
<1>7. QED
  BY <1>0, <1>1, <1>3, <1>4, <1>5, <1>6 DEF BlobIInv, BlobRows

\* The process stops.
LEMMA StopKeeps ==
  ASSUME BlobIInv, StopCollector
  PROVE  BlobIInv'
<1>0. /\ BlobRows /\ UNCHANGED <<active, stored, refs, exposed, quarantine>>
      /\ \A m \in GcRuns : GcFits(m) /\ gc[m] \in GcRow
      /\ refs \ active \subseteq exposed
      /\ keeper' = [k \in Keepers |-> IdleKeeper] /\ saver' = [w \in Savers |-> NoBlob]
      /\ gc' = [n \in GcRuns |-> IF gc[n].state = "reading" THEN NoGcRun ELSE gc[n]]
  BY DEF BlobIInv, BlobRows, StopCollector
<1>1. IdleKeeper \in KeeperRow /\ IdleKeeper.pc = "idle" /\ IdleKeeper.op = "none" /\ NoGcRun \in GcRow
  BY DEF IdleKeeper, KeeperRow, NoGcRun, GcRow, GcStates
<1>2. BlobRows'
  BY <1>0, <1>1 DEF BlobRows
<1>3. \A k \in Keepers : KeeperFits(k)' /\ KeeperSees(k)' /\ keeper'[k].pc = "idle"
  BY <1>0, <1>1 DEF KeeperFits, KeeperSees
<1>4. ASSUME NEW m \in GcRuns PROVE GcFits(m)'
  <2>1. GcFits(m)
    BY <1>0
  <2>2. CASE gc[m].state = "reading"
    BY <1>0, <2>1, <2>2 DEF GcFits, Candidates
  <2>3. CASE gc[m].state # "reading"
    BY <1>0, <2>1, <2>3 DEF GcFits, Candidates
  <2>4. QED
    BY <2>2, <2>3
<1>5. OneMover'
  BY <1>3 DEF OneMover, Mover
<1>6. \A b, m : m \in GcRuns /\ Answers(m, b) => Answers(m, b)'
  BY <1>0, <1>3 DEF Answers, InHand, OnRecord
<1>7. QED
  BY <1>0, <1>2, <1>3, <1>4, <1>5, <1>6 DEF BlobIInv

\* The invariant holds throughout.
LEMMA BlobsHold ==
  BlobSpec => []BlobIInv
<1>1. BlobInit => BlobIInv
  <2>1. SUFFICES ASSUME BlobInit PROVE BlobIInv
    OBVIOUS
  <2>2. IdleKeeper \in KeeperRow /\ IdleKeeper.pc = "idle" /\ IdleKeeper.op = "none" /\ NoGcRun \in GcRow
    BY DEF IdleKeeper, KeeperRow, NoGcRun, GcRow, GcStates
  <2>3. BlobRows
    BY <2>1, <2>2 DEF BlobInit, BlobRows
  <2>4. \A k \in Keepers : KeeperFits(k) /\ KeeperSees(k) /\ ~Mover(k)
    BY <2>1, <2>2 DEF BlobInit, KeeperFits, KeeperSees, Mover
  <2>5. QED
    BY <2>1, <2>3, <2>4 DEF BlobInit, BlobIInv, GcFits, OneMover
<1>2. BlobIInv /\ [BlobNext]_blobVars => BlobIInv'
  <2>1. SUFFICES ASSUME BlobIInv, [BlobNext]_blobVars PROVE BlobIInv'
    OBVIOUS
  <2>2. CASE UNCHANGED blobVars
    BY <2>1, <2>2 DEF blobVars, BlobIInv, BlobRows, KeeperFits, KeeperSees, GcFits, Candidates, OneMover, Mover,
       Answers, InHand
  <2>3. CASE BlobNext
    BY <2>1, <2>3, ReadsKeep, ClaimKeeps, QuarantineKeeps, TurnBackKeeps, BringBackKeeps, EndsKeep, ServingKeeps,
       DryRunsKeep, StopKeeps DEF BlobNext
  <2>4. QED
    BY <2>1, <2>2, <2>3
<1>3. QED
  BY <1>1, <1>2, PTL DEF BlobSpec

\* No blob is lost without a row that says where it is, and none that an
\* application could have known to be referenced is moved (ApplyGC).
THEOREM MissingOnRecord == BlobSpec => []MissingBlobsAreOnRecord
<1>1. BlobIInv => MissingBlobsAreOnRecord
  BY DEF BlobIInv, Answers, OnRecord, MissingBlobsAreOnRecord
<1>2. QED
  BY <1>1, BlobsHold, PTL

-----------------------------------------------------------------------------
(***************************************************************************)
(* The change of a proposal.                                               *)
(***************************************************************************)

CallOps == {"none", "apply", "verify", "review"}
CallPlaces ==
  {"idle", "done", "plan", "begin", "dispatch", "abandon", "receipt", "write", "writing", "undo", "conclude",
   "guard", "run", "reguard", "finish", "bind", "restore", "close", "failattempt", "failstep", "look", "ask",
   "accept", "record", "insert", "complete", "completestep", "verify"}
EffectStates == {"none", "planned", "dispatched", "uncertain", "observed", "abandoned", "reconciled"}
CallOutcomes ==
  {"none", "written", "clean", "dirty", "unlaunched", "pass", "fail", "unanswered", "stale", "approve", "reject"}
CallInFlow == [op : CallOps, pc : CallPlaces, lease : Nat, effect : EffectStates, todo : SUBSET Files,
             outcome : CallOutcomes]
SourceStates == {"before", "after", "edited"}
RunLeases == [state : {"running", "paused", "failed"}, number : Nat]

FlowRows ==
  /\ flow \in [Calls -> CallInFlow]
  /\ source \in [Files -> SourceStates]
  /\ lease \in RunLeases

Changed == {f \in Files : source[f] = "after"}
Dispatched(i) == flow[i].effect \notin {"none", "planned", "abandoned"}
Applied(i) == flow[i].op = "apply" /\ Dispatched(i)

\* An effect that is no longer under way, and one that tells of a change left behind.
Closed == {"observed", "uncertain", "reconciled"}
Torn(i) == /\ flow[i].op = "apply" /\ flow[i].effect \in Closed
           /\ flow[i].effect = "observed" => flow[i].outcome = "dirty"

ApplyPlaces == {"begin", "write", "writing", "undo", "conclude"}

\* A call that has the proposal in hand.
Begun(i) == flow[i].op = "apply" /\ flow[i].pc \in (ApplyPlaces \ {"begin"}) \cup {"dispatch", "receipt"}

CallFitsOp(i) ==
  /\ flow[i].pc # "idle" => flow[i].op \in {"apply", "verify", "review"}
  /\ flow[i].op = "apply" => flow[i].pc \in ApplyPlaces \cup {"plan", "dispatch", "abandon", "receipt", "done"}
  /\ flow[i].pc \in ApplyPlaces => flow[i].op = "apply"
  /\ flow[i].pc \in {"idle", "guard", "look", "plan"} => flow[i].effect = "none"

CallFitsReceipt(i) ==
  /\ flow[i].op = "apply" /\ flow[i].pc \in {"write", "writing", "undo", "receipt"} => Dispatched(i)
  /\ flow[i].op = "apply" /\ flow[i].pc \in {"receipt", "conclude"} => flow[i].outcome \in {"clean", "dirty", "written"}
  /\ flow[i].op # "apply" /\ flow[i].pc = "receipt" => flow[i].outcome \notin {"clean", "dirty", "written"}
  /\ flow[i].pc \in {"accept", "record", "insert"} => flow[i].outcome \in {"approve", "reject"}
  /\ flow[i].pc = "undo" => flow[i].outcome \in {"clean", "dirty"}
  /\ flow[i].pc = "conclude" /\ flow[i].outcome # "clean" => flow[i].effect \in Closed

CallFitsFiles(i) ==
  Begun(i) =>
    /\ flow[i].pc \in {"dispatch", "write"} => Changed = {}
    /\ flow[i].pc = "writing" => Changed \cap flow[i].todo = {}
    /\ flow[i].pc = "undo" /\ flow[i].outcome = "clean" => Changed \subseteq flow[i].todo
    /\ flow[i].pc \in {"receipt", "conclude"} /\ flow[i].outcome = "clean" => Changed = {}

OneApplies ==
  /\ \A i \in Calls : Begun(i) => proposal = "applying"
  /\ \A i, j \in Calls : Begun(i) /\ Begun(j) => i = j

ChangeFits ==
  Changed # {} =>
    /\ proposal # "approved"
    /\ \E i \in Calls : Applied(i)
    /\ proposal = "apply_failed" => \E i \in Calls : Torn(i)

ProposalIInv ==
  /\ FlowRows
  /\ \A i \in Calls : CallFitsOp(i) /\ CallFitsReceipt(i) /\ CallFitsFiles(i)
  /\ OneApplies
  /\ ChangeFits

\* Call i goes on with what it is given, and nobody else does.
FlowGoes(i, pc, effect, todo, outcome) ==
  /\ flow' \in [Calls -> CallInFlow] /\ \A j \in Calls \ {i} : flow'[j] = flow[j]
  /\ flow'[i].op = flow[i].op /\ flow'[i].pc = pc /\ flow'[i].effect = effect
  /\ flow'[i].todo = todo /\ flow'[i].outcome = outcome

\* A call whose fields are assigned goes on with them.
LEMMA CallUpdated ==
  ASSUME FlowRows, NEW i \in Calls, NEW pc \in CallPlaces, NEW effect \in EffectStates, NEW todo \in SUBSET Files,
         NEW outcome \in CallOutcomes,
         flow' = [flow EXCEPT ![i] = [@ EXCEPT !.pc = pc, !.effect = effect, !.todo = todo, !.outcome = outcome]]
  PROVE  FlowGoes(i, pc, effect, todo, outcome)
<1>1. PICK row : row = [flow[i] EXCEPT !.pc = pc, !.effect = effect, !.todo = todo, !.outcome = outcome]
  OBVIOUS
<1>2. row \in CallInFlow /\ row.op = flow[i].op
  BY <1>1 DEF FlowRows, CallInFlow
<1>3. row.pc = pc /\ row.effect = effect /\ row.todo = todo /\ row.outcome = outcome
  BY <1>1 DEF FlowRows, CallInFlow
<1>4. flow' = [flow EXCEPT ![i] = row]
  BY <1>1
<1>5. QED
  BY <1>2, <1>3, <1>4 DEF FlowRows, FlowGoes

\* A call's row, field by field.
LEMMA CallIsItsFields ==
  ASSUME FlowRows, NEW i \in Calls
  PROVE  /\ flow[i] = [op |-> flow[i].op, pc |-> flow[i].pc, lease |-> flow[i].lease, effect |-> flow[i].effect,
                       todo |-> flow[i].todo, outcome |-> flow[i].outcome]
         /\ flow[i].op \in CallOps /\ flow[i].pc \in CallPlaces /\ flow[i].effect \in EffectStates
         /\ flow[i].todo \in SUBSET Files /\ flow[i].outcome \in CallOutcomes
BY DEF FlowRows, CallInFlow

\* Continue changes the place alone.
LEMMA CallContinues ==
  ASSUME FlowRows, NEW i \in Calls, NEW pc \in CallPlaces, Continue(i, pc)
  PROVE  FlowGoes(i, pc, flow[i].effect, flow[i].todo, flow[i].outcome)
<1>1. flow' = [flow EXCEPT ![i] = [@ EXCEPT !.pc = pc, !.effect = flow[i].effect, !.todo = flow[i].todo,
                                            !.outcome = flow[i].outcome]]
  BY CallIsItsFields DEF Continue
<1>2. QED
  BY <1>1, CallIsItsFields, CallUpdated

\* Hand changes the place and the outcome.
LEMMA CallHands ==
  ASSUME FlowRows, NEW i \in Calls, NEW pc \in CallPlaces, NEW outcome \in CallOutcomes, Hand(i, pc, outcome)
  PROVE  FlowGoes(i, pc, flow[i].effect, flow[i].todo, outcome)
<1>1. flow' = [flow EXCEPT ![i] = [@ EXCEPT !.pc = pc, !.effect = flow[i].effect, !.todo = flow[i].todo,
                                            !.outcome = outcome]]
  BY CallIsItsFields DEF Hand
<1>2. QED
  BY <1>1, CallIsItsFields, CallUpdated

\* How call i may move the proposal.
ProposalMoves(i) ==
  \/ proposal' = proposal
  \/ proposal = "approved" /\ proposal' = "applying" /\ Begun(i)'
  \/ /\ Begun(i) /\ ~Begun(i)' /\ proposal' \in {"applied", "apply_failed"}
     /\ Changed' # {} => Applied(i)'
     /\ Changed' # {} /\ proposal' = "apply_failed" => Torn(i)'
  \/ /\ proposal \notin {"approved", "applying", "apply_failed"}
     /\ proposal' \notin {"approved", "applying", "apply_failed"}

\* A step of call i keeps the invariant, from what it does to i, to the proposal
\* and to the files.
LEMMA CallStepKeeps ==
  ASSUME ProposalIInv, NEW i \in Calls, FlowRows', \A j \in Calls \ {i} : flow'[j] = flow[j],
         CallFitsOp(i)', CallFitsReceipt(i)', CallFitsFiles(i)',
         Applied(i) => Applied(i)', Torn(i) /\ ~Begun(i) => Torn(i)',
         Changed' \subseteq Changed \/ (Begun(i) /\ Applied(i)'),
         Begun(i)' => proposal' = "applying" /\ (Begun(i) \/ proposal = "approved"),
         ProposalMoves(i)
  PROVE  ProposalIInv'
<1>0. /\ \A j \in Calls : CallFitsOp(j) /\ CallFitsReceipt(j) /\ CallFitsFiles(j)
      /\ OneApplies /\ ChangeFits
  BY DEF ProposalIInv
<1>1. ASSUME NEW j \in Calls \ {i}
      PROVE  /\ CallFitsOp(j)' /\ CallFitsReceipt(j)'
             /\ Begun(j)' <=> Begun(j)
             /\ Applied(j)' <=> Applied(j)
             /\ Torn(j)' <=> Torn(j)
  BY <1>0 DEF CallFitsOp, CallFitsReceipt, Begun, Applied, Torn, Dispatched
<1>2. ASSUME NEW j \in Calls \ {i}, Begun(j) PROVE ~Begun(i) /\ proposal = "applying" /\ proposal' = "applying"
  BY <1>0, <1>2 DEF OneApplies, ProposalMoves
<1>3. ASSUME NEW j \in Calls \ {i} PROVE CallFitsFiles(j)'
  <2>1. SUFFICES ASSUME Begun(j) PROVE CallFitsFiles(j)'
    BY <1>1 DEF CallFitsFiles
  <2>2. Changed' \subseteq Changed
    BY <1>2, <2>1
  <2>3. QED
    BY <1>0, <2>1, <2>2 DEF CallFitsFiles
<1>4. OneApplies'
  <2>1. \A j \in Calls : Begun(j)' => proposal' = "applying"
    BY <1>1, <1>2
  <2>2. ASSUME NEW j \in Calls, NEW k \in Calls, Begun(j)', Begun(k)' PROVE j = k
    BY <1>0, <1>1, <1>2, <2>2 DEF OneApplies
  <2>3. QED
    BY <2>1, <2>2 DEF OneApplies
<1>5. ASSUME Changed' # {} PROVE proposal' # "approved" /\ \E j \in Calls : Applied(j)'
  <2>1. CASE Changed' \subseteq Changed
    <3>1. proposal # "approved" /\ \E j \in Calls : Applied(j)
      BY <1>0, <1>5, <2>1 DEF ChangeFits
    <3>2. QED
      BY <1>1, <3>1 DEF ProposalMoves
  <2>2. CASE Begun(i) /\ Applied(i)'
    BY <1>0, <2>2 DEF OneApplies, ProposalMoves
  <2>3. QED
    BY <2>1, <2>2
<1>6. ASSUME Changed' # {}, proposal' = "apply_failed" PROVE \E j \in Calls : Torn(j)'
  <2>1. CASE proposal = "apply_failed"
    <3>1. ~Begun(i) /\ Changed' \subseteq Changed
      BY <1>0, <2>1 DEF OneApplies
    <3>2. \E j \in Calls : Torn(j)
      BY <1>0, <1>6, <2>1, <3>1 DEF ChangeFits
    <3>3. QED
      BY <1>1, <3>1, <3>2
  <2>2. CASE proposal # "apply_failed"
    BY <1>6, <2>2 DEF ProposalMoves
  <2>3. QED
    BY <2>1, <2>2
<1>7. QED
  BY <1>1, <1>3, <1>4, <1>5, <1>6 DEF ProposalIInv, ChangeFits

\* A call that applies nothing, before and after the step.
LEMMA OtherCallKeeps ==
  ASSUME ProposalIInv, NEW i \in Calls, NEW pc, NEW effect, NEW todo, NEW outcome,
         FlowGoes(i, pc, effect, todo, outcome), flow[i].op # "apply", flow[i].pc # "idle",
         pc \notin ApplyPlaces \cup {"idle"}, pc \in {"plan", "guard", "look"} => effect = "none",
         pc = "receipt" => outcome \notin {"clean", "dirty", "written"},
         pc \in {"accept", "record", "insert"} => outcome \in {"approve", "reject"},
         source' \in [Files -> SourceStates], Changed' \subseteq Changed, lease' = lease \/ lease' \in RunLeases,
         \/ proposal' = proposal
         \/ /\ proposal \notin {"approved", "applying", "apply_failed"}
            /\ proposal' \notin {"approved", "applying", "apply_failed"}
  PROVE  ProposalIInv'
<1>1. CallFitsOp(i) /\ FlowRows
  BY DEF ProposalIInv
<1>2. FlowRows' /\ \A j \in Calls \ {i} : flow'[j] = flow[j]
  BY <1>1 DEF FlowRows, FlowGoes
<1>3. flow'[i].op \in {"verify", "review"} /\ flow'[i].op = flow[i].op
  BY <1>1 DEF CallFitsOp, FlowGoes
<1>4. CallFitsOp(i)' /\ CallFitsReceipt(i)'
  BY <1>3 DEF CallFitsOp, CallFitsReceipt, FlowGoes, ApplyPlaces
<1>5. ~Begun(i)' /\ ~Begun(i) /\ ~Applied(i) /\ ~Torn(i) /\ CallFitsFiles(i)'
  BY <1>3 DEF Begun, Applied, Torn, CallFitsFiles
<1>6. QED
  BY <1>2, <1>4, <1>5, CallStepKeeps DEF ProposalMoves

\* A call that applies, or would, and does not touch the proposal.
LEMMA ApplyingCallKeeps ==
  ASSUME ProposalIInv, NEW i \in Calls, NEW pc, NEW effect, NEW todo, NEW outcome,
         FlowGoes(i, pc, effect, todo, outcome), flow[i].op = "apply",
         pc \in ApplyPlaces \cup {"dispatch", "abandon", "receipt", "done"},
         Dispatched(i) => effect \notin {"none", "planned", "abandoned"},
         pc \in {"write", "writing", "undo", "receipt"} => effect \notin {"none", "planned", "abandoned"},
         pc \in {"receipt", "conclude"} => outcome \in {"clean", "dirty", "written"},
         pc = "undo" => outcome \in {"clean", "dirty"},
         pc = "conclude" /\ outcome # "clean" => effect \in Closed,
         flow[i].effect \in Closed => effect = flow[i].effect,
         pc \in {"dispatch", "write"} => Changed' = {},
         pc = "writing" => Changed' \cap todo = {},
         pc = "undo" /\ outcome = "clean" => Changed' \subseteq todo,
         pc \in {"receipt", "conclude"} /\ outcome = "clean" => Changed' = {},
         pc \notin {"begin", "abandon", "done"} => Begun(i),
         Begun(i) \/ outcome = flow[i].outcome,
         source' \in [Files -> SourceStates], lease' = lease \/ lease' \in RunLeases, proposal' = proposal,
         Changed' \subseteq Changed \/ (Begun(i) /\ effect \notin {"none", "planned", "abandoned"})
  PROVE  ProposalIInv'
<1>1. FlowRows /\ OneApplies
  BY DEF ProposalIInv
<1>2. FlowRows' /\ \A j \in Calls \ {i} : flow'[j] = flow[j]
  BY <1>1 DEF FlowRows, FlowGoes
<1>3. flow'[i].op = "apply" /\ flow'[i].pc = pc /\ flow'[i].effect = effect /\ flow'[i].todo = todo
      /\ flow'[i].outcome = outcome
  BY DEF FlowGoes
<1>4. CallFitsOp(i)'
  BY <1>3 DEF CallFitsOp, ApplyPlaces
<1>5. CallFitsReceipt(i)'
  BY <1>3 DEF CallFitsReceipt, Dispatched, ApplyPlaces
<1>6. CallFitsFiles(i)'
  BY <1>3 DEF CallFitsFiles
<1>7. (Applied(i) => Applied(i)') /\ (Torn(i) /\ ~Begun(i) => Torn(i)')
  BY <1>3 DEF Applied, Torn, Dispatched, Closed
<1>8. Begun(i)' => Begun(i) /\ proposal' = "applying"
  BY <1>1, <1>3 DEF Begun, OneApplies, ApplyPlaces
<1>9. Begun(i) /\ effect \notin {"none", "planned", "abandoned"} => Applied(i)'
  BY <1>3 DEF Applied, Dispatched
<1>10. QED
  BY <1>2, <1>4, <1>5, <1>6, <1>7, <1>8, <1>9, CallStepKeeps DEF ProposalMoves

\* A call starts.
LEMMA StartKeeps ==
  ASSUME ProposalIInv, NEW i \in Calls, StartApply(i) \/ StartVerify(i) \/ StartReview(i)
  PROVE  ProposalIInv'
<1>0. FlowRows /\ CallFitsOp(i)
  BY DEF ProposalIInv
<1>1. PICK op \in {"apply", "verify", "review"}, pc \in {"plan", "guard", "look"} :
        Start(i, op, pc) /\ (op = "apply" <=> pc = "plan")
  BY DEF StartApply, StartVerify, StartReview
<1>2. flow[i].pc = "idle" /\ flow[i].effect = "none" /\ UNCHANGED <<proposal, lease, source>>
  BY <1>0, <1>1 DEF Start, Stands, CallFitsOp, proposalRows
<1>3. /\ flow' \in [Calls -> CallInFlow] /\ \A j \in Calls \ {i} : flow'[j] = flow[j]
      /\ flow'[i].op = op /\ flow'[i].pc = pc /\ flow'[i].effect = "none"
  <2>1. PICK row : row = [flow[i] EXCEPT !.op = op, !.pc = pc, !.lease = lease.number]
    OBVIOUS
  <2>2. row \in CallInFlow /\ row.op = op /\ row.pc = pc /\ row.effect = "none"
    BY <1>0, <1>2, <2>1 DEF FlowRows, RunLeases, CallInFlow, CallOps, CallPlaces
  <2>3. flow' = [flow EXCEPT ![i] = row]
    BY <1>1, <2>1 DEF Start
  <2>4. QED
    BY <1>0, <2>2, <2>3 DEF FlowRows
<1>4. FlowRows'
  BY <1>0, <1>2, <1>3 DEF FlowRows
<1>5. CallFitsOp(i)' /\ CallFitsReceipt(i)' /\ ~Begun(i)' /\ ~Applied(i)
  BY <1>1, <1>2, <1>3 DEF CallFitsOp, CallFitsReceipt, ApplyPlaces, Begun, Applied, Dispatched
<1>6. Changed' = Changed /\ CallFitsFiles(i)' /\ ~Torn(i)
  BY <1>2, <1>5 DEF CallFitsFiles, Changed, Torn, Closed
<1>7. QED
  BY <1>2, <1>3, <1>4, <1>5, <1>6, CallStepKeeps DEF ProposalMoves

\* The facts about call i that its steps use.
LEMMA FlowFacts ==
  ASSUME ProposalIInv, NEW i \in Calls
  PROVE  /\ FlowRows /\ CallFitsOp(i) /\ CallFitsReceipt(i) /\ CallFitsFiles(i)
         /\ Begun(i) => proposal = "applying"
         /\ proposal = "approved" => Changed = {}
BY DEF ProposalIInv, OneApplies, ChangeFits

\* The steps of the effect that every call plans, dispatches and observes.
LEMMA EffectsKeep ==
  ASSUME ProposalIInv, NEW i \in Calls, CallEffects(i)
  PROVE  ProposalIInv'
<1>0. FlowRows /\ CallFitsOp(i) /\ CallFitsReceipt(i) /\ CallFitsFiles(i)
  BY FlowFacts
<1>1. UNCHANGED <<proposal, lease, source>> /\ Changed' = Changed /\ source' \in [Files -> SourceStates]
  BY <1>0 DEF CallEffects, PlanCallEffect, DispatchCallEffect, AbandonCallEffect, ObserveCallEffect, proposalRows,
     Changed, FlowRows
<1>2. CASE PlanCallEffect(i)
  <2>1. flow[i].pc = "plan" /\ flow[i].op \in {"apply", "verify", "review"} /\ flow[i].effect = "none"
    BY <1>0, <1>2 DEF PlanCallEffect, Stands, CallFitsOp
  <2>2. ~Dispatched(i) /\ flow[i].effect \notin Closed
    BY <2>1 DEF Dispatched, Closed
  <2>3. CASE Continue(i, "done")
    <3>1. FlowGoes(i, "done", flow[i].effect, flow[i].todo, flow[i].outcome)
      BY <1>0, <2>3, CallContinues DEF CallPlaces
    <3>2. CASE flow[i].op = "apply"
      BY <1>1, <2>2, <3>1, <3>2, ApplyingCallKeeps
    <3>3. CASE flow[i].op # "apply"
      BY <1>1, <2>1, <3>1, <3>3, OtherCallKeeps DEF ApplyPlaces
    <3>4. QED
      BY <3>2, <3>3
  <2>4. CASE ~Continue(i, "done")
    <3>1. PICK pc \in {"begin", "dispatch"} :
            /\ flow' = [flow EXCEPT ![i].effect = "planned", ![i].pc = pc]
            /\ flow[i].op = "apply" <=> pc = "begin"
      BY <1>2, <2>4 DEF PlanCallEffect
    <3>2. flow' = [flow EXCEPT ![i] = [@ EXCEPT !.pc = pc, !.effect = "planned", !.todo = flow[i].todo,
                                                !.outcome = flow[i].outcome]]
      BY <1>0, <3>1, CallIsItsFields
    <3>3. FlowGoes(i, pc, "planned", flow[i].todo, flow[i].outcome)
      BY <1>0, <3>2, CallIsItsFields, CallUpdated DEF CallPlaces, EffectStates
    <3>4. CASE flow[i].op = "apply"
      BY <1>1, <2>2, <3>1, <3>3, <3>4, ApplyingCallKeeps DEF ApplyPlaces
    <3>5. CASE flow[i].op # "apply"
      BY <1>1, <2>1, <3>1, <3>3, <3>5, OtherCallKeeps DEF ApplyPlaces
    <3>6. QED
      BY <3>4, <3>5
  <2>5. QED
    BY <2>3, <2>4
<1>3. CASE DispatchCallEffect(i)
  <2>1. flow[i].pc = "dispatch" /\ flow[i].op \in {"apply", "verify", "review"}
    BY <1>0, <1>3 DEF DispatchCallEffect, Stands, CallFitsOp
  <2>2. CASE flow[i].op = "apply"
    <3>1. Begun(i) /\ Changed = {}
      BY <1>0, <2>1, <2>2 DEF Begun, CallFitsFiles, ApplyPlaces
    <3>2. CASE flow[i].effect = "planned" /\ flow' = [flow EXCEPT ![i].effect = "dispatched", ![i].pc = "write"]
      <4>1. flow' = [flow EXCEPT ![i] = [@ EXCEPT !.pc = "write", !.effect = "dispatched", !.todo = flow[i].todo,
                                                  !.outcome = flow[i].outcome]]
        BY <1>0, <3>2, CallIsItsFields
      <4>2. FlowGoes(i, "write", "dispatched", flow[i].todo, flow[i].outcome)
        BY <1>0, <4>1, CallIsItsFields, CallUpdated DEF CallPlaces, EffectStates
      <4>3. QED
        BY <1>1, <2>2, <3>1, <3>2, <4>2, ApplyingCallKeeps DEF ApplyPlaces, Closed
    <3>3. CASE flow' = [flow EXCEPT ![i].pc = "conclude", ![i].outcome = "clean"]
      <4>1. FlowGoes(i, "conclude", flow[i].effect, flow[i].todo, "clean")
        BY <1>0, <3>3, CallHands DEF Hand, CallPlaces, CallOutcomes
      <4>2. QED
        BY <1>1, <2>2, <3>1, <4>1, ApplyingCallKeeps DEF ApplyPlaces, Dispatched
    <3>4. QED
      BY <1>3, <2>2, <3>2, <3>3 DEF DispatchCallEffect
  <2>3. CASE flow[i].op # "apply"
    <3>1. PICK pc \in {"run", "ask", "done", "abandon"}, effect \in {"dispatched", flow[i].effect},
               outcome \in {"clean", flow[i].outcome} :
            flow' = [flow EXCEPT ![i] = [@ EXCEPT !.pc = pc, !.effect = effect, !.todo = flow[i].todo,
                                                  !.outcome = outcome]]
      <4>1. CASE \E pc \in {"run", "ask"} : flow' = [flow EXCEPT ![i].effect = "dispatched", ![i].pc = pc]
        <5>1. PICK pc \in {"run", "ask"} : flow' = [flow EXCEPT ![i].effect = "dispatched", ![i].pc = pc]
          BY <4>1
        <5>2. flow' = [flow EXCEPT ![i] = [@ EXCEPT !.pc = pc, !.effect = "dispatched", !.todo = flow[i].todo,
                                                    !.outcome = flow[i].outcome]]
          BY <1>0, <5>1, CallIsItsFields
        <5>3. QED
          BY <5>2
      <4>2. CASE \E pc \in {"done", "abandon"} : flow' = [flow EXCEPT ![i].pc = pc, ![i].outcome = "clean"]
        <5>1. PICK pc \in {"done", "abandon"} : flow' = [flow EXCEPT ![i].pc = pc, ![i].outcome = "clean"]
          BY <4>2
        <5>2. flow' = [flow EXCEPT ![i] = [@ EXCEPT !.pc = pc, !.effect = flow[i].effect, !.todo = flow[i].todo,
                                                    !.outcome = "clean"]]
          BY <1>0, <5>1, CallIsItsFields
        <5>3. QED
          BY <5>2
      <4>3. QED
        BY <1>3, <2>1, <2>3, <4>1, <4>2 DEF DispatchCallEffect
    <3>2. effect \in EffectStates /\ outcome \in CallOutcomes /\ pc \in CallPlaces
      BY <1>0, CallIsItsFields DEF CallPlaces, EffectStates, CallOutcomes
    <3>3. FlowGoes(i, pc, effect, flow[i].todo, outcome)
      BY <1>0, <3>1, <3>2, CallIsItsFields, CallUpdated DEF CallPlaces, EffectStates
    <3>4. QED
      BY <1>1, <2>1, <2>3, <3>3, OtherCallKeeps DEF ApplyPlaces
  <2>4. QED
    BY <2>2, <2>3
<1>4. CASE AbandonCallEffect(i)
  <2>1. flow[i].pc = "abandon" /\ flow[i].op \in {"apply", "verify", "review"}
    BY <1>0, <1>4 DEF AbandonCallEffect, Stands, CallFitsOp
  <2>2. PICK effect \in EffectStates :
          /\ flow' = [flow EXCEPT ![i].effect = effect, ![i].pc = "done"]
          /\ Dispatched(i) => effect \notin {"none", "planned", "abandoned"}
          /\ flow[i].effect \in Closed => effect = flow[i].effect
    <3>1. CASE flow[i].effect = "planned"
      BY <1>4, <3>1 DEF AbandonCallEffect, Dispatched, EffectStates, Closed
    <3>2. CASE flow[i].effect # "planned"
      BY <1>0, <1>4, <3>2, CallIsItsFields DEF AbandonCallEffect, Dispatched, EffectStates
    <3>3. QED
      BY <3>1, <3>2
  <2>3. flow' = [flow EXCEPT ![i] = [@ EXCEPT !.pc = "done", !.effect = effect, !.todo = flow[i].todo,
                                              !.outcome = flow[i].outcome]]
    BY <1>0, <2>2, CallIsItsFields
  <2>4. FlowGoes(i, "done", effect, flow[i].todo, flow[i].outcome)
    BY <1>0, <2>3, CallIsItsFields, CallUpdated DEF CallPlaces, EffectStates
  <2>5. CASE flow[i].op = "apply"
    BY <1>1, <2>2, <2>4, <2>5, ApplyingCallKeeps
  <2>6. CASE flow[i].op # "apply"
    BY <1>1, <2>1, <2>4, <2>6, OtherCallKeeps DEF ApplyPlaces
  <2>7. QED
    BY <2>5, <2>6
<1>5. CASE ObserveCallEffect(i)
  <2>0. flow[i].pc = "receipt" /\ flow[i].op \in {"apply", "verify", "review"}
    BY <1>0, <1>5 DEF ObserveCallEffect, Stands, CallFitsOp
  <2>1. PICK effect \in EffectStates, pc \in CallPlaces, todo \in SUBSET Files :
          /\ flow' = [flow EXCEPT ![i].effect = effect, ![i].pc = pc, ![i].todo = todo]
          /\ pc = AfterReceipt(i, flow[i].effect = "dispatched")
          /\ Dispatched(i) => effect \in Closed
          /\ flow[i].effect \in Closed => effect = flow[i].effect
    <3>1. PICK pc : pc = AfterReceipt(i, flow[i].effect = "dispatched")
      OBVIOUS
    <3>2. pc \in CallPlaces
      BY <3>1 DEF AfterReceipt, CallPlaces
    <3>3. PICK effect : effect = IF flow[i].effect = "dispatched" THEN "observed" ELSE flow[i].effect
      OBVIOUS
    <3>4. /\ effect \in EffectStates /\ (Dispatched(i) => effect \in Closed)
          /\ flow[i].effect \in Closed => effect = flow[i].effect
      BY <1>0, <3>3, CallIsItsFields DEF Dispatched, EffectStates, Closed
    <3>5. PICK todo : todo = IF pc = "restore" THEN Files ELSE flow[i].todo
      OBVIOUS
    <3>6. todo \in SUBSET Files
      BY <1>0, <3>5, CallIsItsFields
    <3>7. flow' = [flow EXCEPT ![i].effect = effect, ![i].pc = pc, ![i].todo = todo]
      BY <1>5, <3>1, <3>3, <3>5 DEF ObserveCallEffect
    <3>8. QED
      BY <3>1, <3>2, <3>4, <3>6, <3>7
  <2>2. flow' = [flow EXCEPT ![i] = [@ EXCEPT !.pc = pc, !.effect = effect, !.todo = todo, !.outcome = flow[i].outcome]]
    BY <1>0, <2>1, CallIsItsFields
  <2>3. FlowGoes(i, pc, effect, todo, flow[i].outcome)
    BY <1>0, <2>2, CallIsItsFields, CallUpdated DEF CallPlaces, EffectStates
  <2>4. CASE flow[i].op = "apply"
    <3>1. Begun(i) /\ Dispatched(i) /\ flow[i].outcome \in {"clean", "dirty", "written"}
          /\ (flow[i].outcome = "clean" => Changed = {})
      BY <1>0, <2>0, <2>4 DEF Begun, CallFitsReceipt, CallFitsFiles
    <3>2. pc \in {"conclude", "done"}
      BY <2>1, <3>1 DEF AfterReceipt
    <3>3. QED
      BY <1>1, <2>1, <2>3, <2>4, <3>1, <3>2, ApplyingCallKeeps DEF ApplyPlaces, Closed
  <2>5. CASE flow[i].op # "apply"
    <3>1. flow[i].outcome \notin {"clean", "dirty", "written"}
      BY <1>0, <2>0, <2>5 DEF CallFitsReceipt
    <3>2. pc \in {"restore", "reguard", "complete", "done"}
      BY <2>1, <3>1 DEF AfterReceipt
    <3>3. QED
      BY <1>1, <2>0, <2>3, <2>5, <3>2, OtherCallKeeps DEF ApplyPlaces
  <2>6. QED
    BY <2>4, <2>5
<1>6. QED
  BY <1>2, <1>3, <1>4, <1>5 DEF CallEffects

\* The steps of a call that applies.
LEMMA AppliesKeep ==
  ASSUME ProposalIInv, NEW i \in Calls, Applies(i)
  PROVE  ProposalIInv'
<1>0. FlowRows /\ CallFitsOp(i) /\ CallFitsReceipt(i) /\ CallFitsFiles(i) /\ OneApplies
      /\ (proposal = "approved" => Changed = {})
  BY FlowFacts DEF ProposalIInv
<1>1. ASSUME flow[i].pc \in ApplyPlaces \ {"begin"}
      PROVE  flow[i].op = "apply" /\ Begun(i) /\ proposal = "applying"
  BY <1>0, <1>1 DEF CallFitsOp, Begun, OneApplies
<1>2. ASSUME UNCHANGED source PROVE Changed' = Changed /\ source' \in [Files -> SourceStates]
  BY <1>0, <1>2 DEF Changed, FlowRows
<1>3. CASE BeginCodeProposalApply(i)
  <2>1. /\ flow[i].pc = "begin" /\ flow[i].op = "apply" /\ UNCHANGED <<source, lease>>
        /\ Changed' = Changed /\ source' \in [Files -> SourceStates] /\ ~Begun(i)
    BY <1>0, <1>2, <1>3 DEF BeginCodeProposalApply, Stands, CallFitsOp, ApplyPlaces, Begun
  <2>2. CASE proposal = "approved"
    <3>1. proposal' = "applying" /\ Continue(i, "dispatch")
      BY <1>3, <2>2 DEF BeginCodeProposalApply
    <3>2. FlowGoes(i, "dispatch", flow[i].effect, flow[i].todo, flow[i].outcome)
      BY <1>0, <3>1, CallContinues DEF CallPlaces
    <3>3. FlowRows' /\ \A j \in Calls \ {i} : flow'[j] = flow[j]
      BY <1>0, <2>1, <3>2 DEF FlowRows, FlowGoes
    <3>4. flow'[i].op = "apply" /\ flow'[i].pc = "dispatch" /\ flow'[i].effect = flow[i].effect
          /\ flow'[i].outcome = flow[i].outcome
      BY <2>1, <3>2 DEF FlowGoes
    <3>5. CallFitsOp(i)' /\ CallFitsReceipt(i)' /\ Begun(i)'
      BY <3>4 DEF CallFitsOp, CallFitsReceipt, Begun, ApplyPlaces
    <3>6. CallFitsFiles(i)'
      BY <1>0, <2>1, <2>2, <3>4 DEF CallFitsFiles
    <3>7. (Applied(i) => Applied(i)') /\ (Torn(i) => Torn(i)')
      BY <3>4 DEF Applied, Torn, Dispatched
    <3>8. QED
      BY <2>1, <2>2, <3>1, <3>3, <3>5, <3>6, <3>7, CallStepKeeps DEF ProposalMoves
  <2>3. CASE proposal # "approved"
    <3>1. proposal' = proposal /\ Continue(i, "abandon")
      BY <1>3, <2>3 DEF BeginCodeProposalApply
    <3>2. FlowGoes(i, "abandon", flow[i].effect, flow[i].todo, flow[i].outcome)
      BY <1>0, <3>1, CallContinues DEF CallPlaces
    <3>3. QED
      BY <2>1, <3>1, <3>2, ApplyingCallKeeps DEF Dispatched
  <2>4. QED
    BY <2>2, <2>3
<1>4. CASE LockBatch(i)
  <2>1. /\ flow[i].pc = "write" /\ UNCHANGED <<source, lease, proposal>>
    BY <1>4 DEF LockBatch, Stands, proposalRows
  <2>2. /\ flow[i].op = "apply" /\ Begun(i) /\ Dispatched(i) /\ Changed = {}
        /\ Changed' = Changed /\ source' \in [Files -> SourceStates]
    BY <1>0, <1>1, <1>2, <2>1 DEF ApplyPlaces, CallFitsReceipt, CallFitsFiles
  <2>3. CASE Hand(i, "receipt", "clean")
    <3>1. FlowGoes(i, "receipt", flow[i].effect, flow[i].todo, "clean")
      BY <1>0, <2>3, CallHands DEF CallPlaces, CallOutcomes
    <3>2. QED
      BY <2>1, <2>2, <3>1, ApplyingCallKeeps DEF Dispatched
  <2>4. CASE flow' = [flow EXCEPT ![i].pc = "writing", ![i].todo = Files]
    <3>1. flow' = [flow EXCEPT ![i] = [@ EXCEPT !.pc = "writing", !.effect = flow[i].effect, !.todo = Files,
                                                !.outcome = flow[i].outcome]]
      BY <1>0, <2>4, CallIsItsFields
    <3>2. FlowGoes(i, "writing", flow[i].effect, Files, flow[i].outcome)
      BY <1>0, <3>1, CallIsItsFields, CallUpdated DEF CallPlaces
    <3>3. QED
      BY <2>1, <2>2, <3>2, ApplyingCallKeeps DEF Dispatched, ApplyPlaces
  <2>5. QED
    BY <1>4, <2>3, <2>4 DEF LockBatch
<1>5. ASSUME NEW f \in Files, WriteFile(i, f) PROVE ProposalIInv'
  <2>1. /\ flow[i].pc = "writing" /\ UNCHANGED <<lease, proposal>> /\ f \in flow[i].todo
        /\ source' = [source EXCEPT ![f] = "after"]
    BY <1>5 DEF WriteFile, Stands, proposalRows
  <2>2. /\ flow[i].op = "apply" /\ Begun(i) /\ Dispatched(i) /\ Changed \cap flow[i].todo = {}
    BY <1>0, <1>1, <2>1 DEF ApplyPlaces, CallFitsReceipt, CallFitsFiles
  <2>3. source' \in [Files -> SourceStates] /\ Changed' = Changed \cup {f}
    BY <1>0, <2>1 DEF FlowRows, SourceStates, Changed
  <2>4. CASE Hand(i, "receipt", "written")
    <3>1. FlowGoes(i, "receipt", flow[i].effect, flow[i].todo, "written")
      BY <1>0, <2>4, CallHands DEF CallPlaces, CallOutcomes
    <3>2. QED
      BY <2>1, <2>2, <2>3, <3>1, ApplyingCallKeeps DEF Dispatched
  <2>5. CASE flow' = [flow EXCEPT ![i].todo = @ \ {f}]
    <3>1. PICK todo \in SUBSET Files : todo = flow[i].todo \ {f}
      BY <1>0, CallIsItsFields
    <3>2. flow' = [flow EXCEPT ![i] = [@ EXCEPT !.pc = "writing", !.effect = flow[i].effect, !.todo = todo,
                                                !.outcome = flow[i].outcome]]
      BY <1>0, <2>1, <2>5, <3>1, CallIsItsFields
    <3>3. FlowGoes(i, "writing", flow[i].effect, todo, flow[i].outcome)
      BY <1>0, <3>2, CallIsItsFields, CallUpdated DEF CallPlaces
    <3>4. Changed' \cap todo = {}
      BY <2>2, <2>3, <3>1
    <3>5. QED
      BY <2>1, <2>2, <2>3, <3>3, <3>4, ApplyingCallKeeps DEF Dispatched, ApplyPlaces
  <2>6. QED
    BY <1>5, <2>4, <2>5 DEF WriteFile
<1>6. CASE WriteFails(i)
  <2>1. /\ flow[i].pc = "writing" /\ UNCHANGED <<lease, proposal, source>>
        /\ flow' = [flow EXCEPT ![i].pc = "undo", ![i].todo = Files \ @, ![i].outcome = "clean"]
    BY <1>6 DEF WriteFails, Stands, proposalRows
  <2>2. /\ flow[i].op = "apply" /\ Begun(i) /\ Dispatched(i) /\ Changed \cap flow[i].todo = {}
        /\ Changed' = Changed /\ source' \in [Files -> SourceStates]
    BY <1>0, <1>1, <1>2, <2>1 DEF ApplyPlaces, CallFitsReceipt, CallFitsFiles
  <2>3. PICK todo \in SUBSET Files : todo = Files \ flow[i].todo
    OBVIOUS
  <2>4. flow' = [flow EXCEPT ![i] = [@ EXCEPT !.pc = "undo", !.effect = flow[i].effect, !.todo = todo,
                                              !.outcome = "clean"]]
    BY <1>0, <2>1, <2>3, CallIsItsFields
  <2>5. FlowGoes(i, "undo", flow[i].effect, todo, "clean")
    BY <1>0, <2>4, CallIsItsFields, CallUpdated DEF CallPlaces, CallOutcomes
  <2>6. Changed' \subseteq todo
    BY <2>2, <2>3 DEF Changed
  <2>7. QED
    BY <2>1, <2>2, <2>5, <2>6, ApplyingCallKeeps DEF Dispatched, ApplyPlaces
<1>7. ASSUME NEW f \in Files, UndoFile(i, f) PROVE ProposalIInv'
  <2>1. flow[i].pc = "undo" /\ UNCHANGED <<lease, proposal>> /\ f \in flow[i].todo
    BY <1>7 DEF UndoFile, Stands, proposalRows
  <2>2. /\ flow[i].op = "apply" /\ Begun(i) /\ Dispatched(i) /\ flow[i].outcome \in {"clean", "dirty"}
        /\ flow[i].outcome = "clean" => Changed \subseteq flow[i].todo
    BY <1>0, <1>1, <2>1 DEF ApplyPlaces, CallFitsReceipt, CallFitsFiles
  <2>3. PICK todo \in SUBSET Files : todo = flow[i].todo \ {f}
    BY <1>0, CallIsItsFields
  <2>4. CASE source' = [source EXCEPT ![f] = "before"] /\ flow' = [flow EXCEPT ![i].todo = @ \ {f}]
    <3>1. source' \in [Files -> SourceStates] /\ Changed' = Changed \ {f}
      BY <1>0, <2>4 DEF FlowRows, SourceStates, Changed
    <3>2. flow' = [flow EXCEPT ![i] = [@ EXCEPT !.pc = "undo", !.effect = flow[i].effect, !.todo = todo,
                                                !.outcome = flow[i].outcome]]
      BY <1>0, <2>1, <2>3, <2>4, CallIsItsFields
    <3>3. FlowGoes(i, "undo", flow[i].effect, todo, flow[i].outcome)
      BY <1>0, <3>2, CallIsItsFields, CallUpdated DEF CallPlaces
    <3>4. flow[i].outcome = "clean" => Changed' \subseteq todo
      BY <2>2, <2>3, <3>1
    <3>5. QED
      BY <2>1, <2>2, <3>1, <3>3, <3>4, ApplyingCallKeeps DEF Dispatched, ApplyPlaces
  <2>5. CASE flow' = [flow EXCEPT ![i].todo = @ \ {f}, ![i].outcome = "dirty"] /\ UNCHANGED source
    <3>1. Changed' = Changed /\ source' \in [Files -> SourceStates]
      BY <1>2, <2>5
    <3>2. flow' = [flow EXCEPT ![i] = [@ EXCEPT !.pc = "undo", !.effect = flow[i].effect, !.todo = todo,
                                                !.outcome = "dirty"]]
      BY <1>0, <2>1, <2>3, <2>5, CallIsItsFields
    <3>3. FlowGoes(i, "undo", flow[i].effect, todo, "dirty")
      BY <1>0, <3>2, CallIsItsFields, CallUpdated DEF CallPlaces, CallOutcomes
    <3>4. QED
      BY <2>1, <2>2, <3>1, <3>3, ApplyingCallKeeps DEF Dispatched, ApplyPlaces
  <2>6. QED
    BY <1>7, <2>4, <2>5 DEF UndoFile
<1>8. CASE EndUndo(i)
  <2>1. /\ flow[i].pc = "undo" /\ UNCHANGED <<lease, proposal, source>> /\ flow[i].todo = {}
        /\ Continue(i, "receipt")
    BY <1>8 DEF EndUndo, Stands, proposalRows
  <2>2. /\ flow[i].op = "apply" /\ Begun(i) /\ Dispatched(i) /\ flow[i].outcome \in {"clean", "dirty"}
        /\ flow[i].outcome = "clean" => Changed = {}
    BY <1>0, <1>1, <2>1 DEF ApplyPlaces, CallFitsReceipt, CallFitsFiles
  <2>3. FlowGoes(i, "receipt", flow[i].effect, flow[i].todo, flow[i].outcome)
    BY <1>0, <2>1, CallContinues DEF CallPlaces
  <2>4. Changed' = Changed /\ source' \in [Files -> SourceStates]
    BY <1>2, <2>1
  <2>5. QED
    BY <2>1, <2>2, <2>3, <2>4, ApplyingCallKeeps DEF Dispatched
<1>9. CASE ConcludeApply(i)
  <2>1. flow[i].pc = "conclude" /\ UNCHANGED <<lease, source>> /\ Continue(i, "done")
    BY <1>9 DEF ConcludeApply, Stands
  <2>2. /\ flow[i].op = "apply" /\ Begun(i) /\ proposal = "applying" /\ flow[i].outcome \in {"clean", "dirty", "written"}
        /\ flow[i].outcome = "clean" => Changed = {}
        /\ flow[i].outcome # "clean" => flow[i].effect \in Closed
    BY <1>0, <1>1, <2>1 DEF ApplyPlaces, CallFitsReceipt, CallFitsFiles
  <2>3. proposal' = IF flow[i].outcome = "written" THEN "applied" ELSE "apply_failed"
    BY <1>9, <2>2 DEF ConcludeApply
  <2>4. FlowGoes(i, "done", flow[i].effect, flow[i].todo, flow[i].outcome)
    BY <1>0, <2>1, CallContinues DEF CallPlaces
  <2>5. Changed' = Changed /\ source' \in [Files -> SourceStates]
    BY <1>2, <2>1
  <2>6. FlowRows' /\ \A j \in Calls \ {i} : flow'[j] = flow[j]
    BY <1>0, <2>1, <2>4, <2>5 DEF FlowRows, FlowGoes
  <2>7. flow'[i].op = "apply" /\ flow'[i].pc = "done" /\ flow'[i].effect = flow[i].effect
        /\ flow'[i].outcome = flow[i].outcome
    BY <2>2, <2>4 DEF FlowGoes
  <2>8. CallFitsOp(i)' /\ CallFitsReceipt(i)' /\ ~Begun(i)' /\ CallFitsFiles(i)'
    BY <2>7 DEF CallFitsOp, CallFitsReceipt, Begun, ApplyPlaces, CallFitsFiles
  <2>9. /\ Dispatched(i) => Applied(i)'
        /\ flow[i].effect \in Closed => Dispatched(i)
        /\ flow[i].effect \in Closed /\ flow[i].outcome = "dirty" => Torn(i)'
    BY <2>7 DEF Applied, Torn, Dispatched, Closed
  <2>10. ProposalMoves(i)
    BY <2>2, <2>3, <2>5, <2>8, <2>9 DEF ProposalMoves
  <2>11. QED
    BY <2>2, <2>5, <2>6, <2>8, <2>9, <2>10, CallStepKeeps DEF Applied
<1>10. QED
  BY <1>3, <1>4, <1>5, <1>6, <1>7, <1>8, <1>9, StartKeeps DEF Applies

\* The steps of a check, of its failure and of a review.
LEMMA OthersKeep ==
  ASSUME ProposalIInv, NEW i \in Calls, Verifies(i) \/ FailsWork(i) \/ ReviewsCall(i)
  PROVE  ProposalIInv'
<1>0. FlowRows /\ CallFitsOp(i) /\ CallFitsReceipt(i)
  BY FlowFacts
<1>1. ASSUME flow[i].pc \notin ApplyPlaces \cup {"plan", "dispatch", "abandon", "receipt", "done", "idle"}
      PROVE  flow[i].op # "apply" /\ flow[i].pc # "idle"
  BY <1>0, <1>1 DEF CallFitsOp
<1>2. CASE StartVerify(i) \/ StartReview(i)
  BY <1>2, StartKeeps
\* Those that only say where the call goes on.
<1>3. ASSUME NEW pc \in CallPlaces, NEW outcome \in CallOutcomes,
             FlowGoes(i, pc, flow[i].effect, flow[i].todo, outcome),
             flow[i].pc \notin ApplyPlaces \cup {"plan", "dispatch", "abandon", "receipt", "done", "idle"},
             pc \notin ApplyPlaces \cup {"idle"}, pc \in {"guard", "look"} => FALSE,
             pc = "plan" => flow[i].pc \in {"guard", "look"},
             pc = "receipt" => outcome \notin {"clean", "dirty", "written"},
             pc \in {"accept", "record", "insert"} => outcome \in {"approve", "reject"},
             UNCHANGED source, lease' = lease \/ lease' \in RunLeases,
             proposal' = proposal \/ /\ proposal \notin {"approved", "applying", "apply_failed"}
                                     /\ proposal' \notin {"approved", "applying", "apply_failed"}
      PROVE  ProposalIInv'
  <2>1. Changed' = Changed /\ source' \in [Files -> SourceStates]
    BY <1>0, <1>3 DEF Changed, FlowRows
  <2>2. flow[i].op # "apply" /\ flow[i].pc # "idle"
    BY <1>1, <1>3
  <2>3. pc \in {"plan", "guard", "look"} => flow[i].effect = "none"
    BY <1>0, <1>3 DEF CallFitsOp
  <2>4. QED
    BY <1>3, <2>1, <2>2, <2>3, OtherCallKeeps
<1>4. ASSUME NEW pc \in CallPlaces, Continue(i, pc)
      PROVE  flow[i].outcome \in CallOutcomes /\ FlowGoes(i, pc, flow[i].effect, flow[i].todo, flow[i].outcome)
  BY <1>0, <1>4, CallContinues, CallIsItsFields
<1>5. CASE GuardCheck(i)
  <2>1. PICK pc \in {"plan", "done"} : Continue(i, pc)
    BY <1>5 DEF GuardCheck
  <2>2. flow[i].pc = "guard" /\ UNCHANGED <<source, lease, proposal>>
    BY <1>5 DEF GuardCheck, Stands, proposalRows
  <2>3. pc \in CallPlaces
    BY DEF CallPlaces
  <2>4. QED
    BY <1>3, <1>4, <2>1, <2>2, <2>3 DEF ApplyPlaces
<1>6. CASE RunCheck(i)
  <2>1. flow[i].pc = "run" /\ UNCHANGED <<source, lease, proposal>>
    BY <1>6 DEF RunCheck, Stands, proposalRows
  <2>2. CASE Continue(i, "done")
    <3>1. "done" \in CallPlaces
      BY DEF CallPlaces
    <3>2. QED
      BY <1>3, <1>4, <2>1, <2>2, <3>1 DEF ApplyPlaces
  <2>3. ASSUME NEW outcome \in {"unlaunched", "pass", "fail"}, Hand(i, "receipt", outcome) PROVE ProposalIInv'
    <3>1. "receipt" \in CallPlaces /\ outcome \in CallOutcomes
      BY DEF CallPlaces, CallOutcomes
    <3>2. FlowGoes(i, "receipt", flow[i].effect, flow[i].todo, outcome)
      BY <1>0, <2>3, <3>1, CallHands
    <3>3. QED
      BY <1>3, <2>1, <3>1, <3>2 DEF ApplyPlaces
  <2>4. QED
    BY <1>6, <2>2, <2>3 DEF RunCheck
<1>7. CASE GuardEvidence(i)
  <2>1. flow[i].pc = "reguard" /\ UNCHANGED <<source, lease, proposal>>
    BY <1>7 DEF GuardEvidence, Stands, proposalRows
  <2>2. CASE \E pc \in {"done", "finish"} : Continue(i, pc)
    <3>1. PICK pc \in {"done", "finish"} : Continue(i, pc)
      BY <2>2
    <3>2. pc \in CallPlaces
      BY DEF CallPlaces
    <3>3. QED
      BY <1>3, <1>4, <2>1, <3>1, <3>2 DEF ApplyPlaces
  <2>3. CASE flow' = [flow EXCEPT ![i].pc = "restore", ![i].todo = Files]
    <3>1. flow' = [flow EXCEPT ![i] = [@ EXCEPT !.pc = "restore", !.effect = flow[i].effect, !.todo = Files,
                                                !.outcome = flow[i].outcome]]
      BY <1>0, <2>3, CallIsItsFields
    <3>2. FlowGoes(i, "restore", flow[i].effect, Files, flow[i].outcome)
      BY <1>0, <3>1, CallIsItsFields, CallUpdated DEF CallPlaces
    <3>3. Changed' = Changed /\ source' \in [Files -> SourceStates]
      BY <1>0, <2>1 DEF Changed, FlowRows
    <3>4. flow[i].op # "apply" /\ flow[i].pc # "idle"
      BY <1>1, <2>1 DEF ApplyPlaces
    <3>5. QED
      BY <2>1, <3>2, <3>3, <3>4, OtherCallKeeps DEF ApplyPlaces
  <2>4. QED
    BY <1>7, <2>2, <2>3 DEF GuardEvidence
<1>8. ASSUME NEW f \in Files, RestoreFile(i, f) PROVE ProposalIInv'
  <2>1. flow[i].pc = "restore" /\ UNCHANGED <<lease, proposal>>
        /\ (UNCHANGED source \/ source' = [source EXCEPT ![f] = "before"])
    BY <1>8 DEF RestoreFile, Stands, proposalRows
  <2>2. PICK todo \in SUBSET Files : todo = flow[i].todo \ {f}
    BY <1>0, CallIsItsFields
  <2>3. PICK pc \in {"close", "restore"} : pc = IF flow[i].todo = {f} THEN "close" ELSE "restore"
    OBVIOUS
  <2>4. flow' = [flow EXCEPT ![i] = [@ EXCEPT !.pc = pc, !.effect = flow[i].effect, !.todo = todo,
                                              !.outcome = flow[i].outcome]]
    BY <1>0, <1>8, <2>1, <2>2, <2>3, CallIsItsFields DEF RestoreFile
  <2>5. pc \in CallPlaces
    BY DEF CallPlaces
  <2>6. FlowGoes(i, pc, flow[i].effect, todo, flow[i].outcome)
    BY <1>0, <2>4, <2>5, CallIsItsFields, CallUpdated
  <2>7. Changed' \subseteq Changed /\ source' \in [Files -> SourceStates]
    BY <1>0, <2>1 DEF Changed, FlowRows, SourceStates
  <2>8. flow[i].op # "apply" /\ flow[i].pc # "idle"
    BY <1>1, <2>1 DEF ApplyPlaces
  <2>9. QED
    BY <2>1, <2>6, <2>7, <2>8, OtherCallKeeps DEF ApplyPlaces
<1>9. CASE AcceptVerdict(i)
  <2>1. flow[i].pc = "accept" /\ UNCHANGED <<source, lease, proposal>> /\ flow[i].outcome \in {"approve", "reject"}
    BY <1>0, <1>9 DEF AcceptVerdict, Stands, proposalRows, CallFitsReceipt
  <2>2. "record" \in CallPlaces /\ "receipt" \in CallPlaces /\ "stale" \in CallOutcomes
    BY DEF CallPlaces, CallOutcomes
  <2>3. CASE Continue(i, "record")
    BY <1>3, <1>4, <2>1, <2>2, <2>3 DEF ApplyPlaces
  <2>4. CASE Hand(i, "receipt", "stale")
    <3>1. FlowGoes(i, "receipt", flow[i].effect, flow[i].todo, "stale")
      BY <1>0, <2>2, <2>4, CallHands
    <3>2. QED
      BY <1>3, <2>1, <2>2, <3>1 DEF ApplyPlaces
  <2>5. QED
    BY <1>9, <2>3, <2>4 DEF AcceptVerdict
<1>10. CASE ProviderAnswers(i)
  <2>1. flow[i].pc = "ask" /\ UNCHANGED <<source, lease, proposal>>
    BY <1>10 DEF ProviderAnswers, Stands, proposalRows
  <2>2. PICK pc \in {"accept", "receipt"}, outcome \in {"approve", "reject", "unanswered"} :
          Hand(i, pc, outcome) /\ (pc = "accept" => outcome # "unanswered")
    BY <1>10 DEF ProviderAnswers
  <2>3. pc \in CallPlaces /\ outcome \in CallOutcomes
    BY DEF CallPlaces, CallOutcomes
  <2>4. FlowGoes(i, pc, flow[i].effect, flow[i].todo, outcome)
    BY <1>0, <2>2, <2>3, CallHands
  <2>5. QED
    BY <1>3, <2>1, <2>2, <2>3, <2>4 DEF ApplyPlaces
<1>11. CASE LookForVerdict(i)
  <2>1. flow[i].pc = "look" /\ UNCHANGED <<source, lease, proposal>>
    BY <1>11 DEF LookForVerdict, Stands, proposalRows
  <2>2. CASE \E pc \in {"plan", "done"} : Continue(i, pc)
    <3>1. PICK pc \in {"plan", "done"} : Continue(i, pc)
      BY <2>2
    <3>2. pc \in CallPlaces
      BY DEF CallPlaces
    <3>3. QED
      BY <1>3, <1>4, <2>1, <3>1, <3>2 DEF ApplyPlaces
  <2>3. CASE Hand(i, "complete", "approve")
    <3>1. "complete" \in CallPlaces /\ "approve" \in CallOutcomes
      BY DEF CallPlaces, CallOutcomes
    <3>2. FlowGoes(i, "complete", flow[i].effect, flow[i].todo, "approve")
      BY <1>0, <2>3, <3>1, CallHands
    <3>3. QED
      BY <1>3, <2>1, <3>1, <3>2 DEF ApplyPlaces
  <2>4. QED
    BY <1>11, <2>2, <2>3 DEF LookForVerdict
\* The rest: a place to go on at, and perhaps a step of the proposal.
<1>12. CASE \/ FinishVerification(i) \/ BindCodeProposalVerification(i) \/ CloseProposal(i) \/ FailCallAttempt(i)
            \/ FailCallStep(i) \/ CheckBeforeRecord(i) \/ RecordPostCodeReview(i) \/ CompleteCallAttempt(i)
            \/ CompleteCallStep(i) \/ VerifyProposal(i)
  <2>1. UNCHANGED source /\ (lease' = lease \/ lease' \in RunLeases)
    <3>1. CASE FailCallAttempt(i)
      BY <1>0, <3>1 DEF FailCallAttempt, FlowRows, RunLeases
    <3>2. CASE ~FailCallAttempt(i)
      BY <1>12, <3>2 DEF FinishVerification, BindCodeProposalVerification, CloseProposal, FailCallStep, CheckBeforeRecord,
         RecordPostCodeReview, CompleteCallAttempt, CompleteCallStep, VerifyProposal, proposalRows
    <3>3. QED
      BY <3>1, <3>2
  <2>2. flow[i].pc \in {"finish", "bind", "close", "failattempt", "failstep", "record", "insert", "complete",
                        "completestep", "verify"}
    BY <1>12 DEF FinishVerification, BindCodeProposalVerification, CloseProposal, FailCallAttempt, FailCallStep,
       CheckBeforeRecord, RecordPostCodeReview, CompleteCallAttempt, CompleteCallStep, VerifyProposal, Stands
  <2>3. PICK pc \in {"bind", "done", "failattempt", "failstep", "insert", "receipt", "completestep", "verify"} :
          /\ Continue(i, pc)
          /\ pc = "insert" => flow[i].pc = "record"
          /\ pc = "receipt" => flow[i].pc = "insert"
    BY <1>12 DEF FinishVerification, BindCodeProposalVerification, CloseProposal, FailCallAttempt, FailCallStep,
       CheckBeforeRecord, RecordPostCodeReview, CompleteCallAttempt, CompleteCallStep, VerifyProposal, Leave, Stands
  <2>4. \/ proposal' = proposal
        \/ /\ proposal \notin {"approved", "applying", "apply_failed"}
           /\ proposal' \notin {"approved", "applying", "apply_failed"}
    BY <1>12 DEF FinishVerification, BindCodeProposalVerification, CloseProposal, FailCallAttempt, FailCallStep,
       CheckBeforeRecord, RecordPostCodeReview, CompleteCallAttempt, CompleteCallStep, VerifyProposal, proposalRows
  <2>5. pc \in CallPlaces
    BY DEF CallPlaces
  <2>6. flow[i].pc \in {"record", "insert"} => flow[i].outcome \in {"approve", "reject"}
    BY <1>0 DEF CallFitsReceipt
  <2>7. QED
    BY <1>3, <1>4, <2>1, <2>2, <2>3, <2>4, <2>5, <2>6 DEF ApplyPlaces
<1>13. QED
  BY <1>2, <1>5, <1>6, <1>7, <1>8, <1>9, <1>10, <1>11, <1>12 DEF Verifies, FailsWork, ReviewsCall

\* An effect in doubt is reconciled.
LEMMA ReconcileKeeps ==
  ASSUME ProposalIInv, NEW i \in Calls, ReconcileCallEffect(i)
  PROVE  ProposalIInv'
<1>0. FlowRows /\ CallFitsOp(i) /\ CallFitsReceipt(i) /\ CallFitsFiles(i) /\ OneApplies
  BY FlowFacts DEF ProposalIInv
<1>1. flow[i].effect = "uncertain" /\ UNCHANGED <<proposal, lease, source>>
      /\ flow' = [flow EXCEPT ![i].effect = "reconciled"]
  BY DEF ReconcileCallEffect, proposalRows
<1>2. flow' = [flow EXCEPT ![i] = [@ EXCEPT !.pc = flow[i].pc, !.effect = "reconciled", !.todo = flow[i].todo,
                                            !.outcome = flow[i].outcome]]
  BY <1>0, <1>1, CallIsItsFields
<1>3. FlowGoes(i, flow[i].pc, "reconciled", flow[i].todo, flow[i].outcome)
  BY <1>0, <1>2, CallIsItsFields, CallUpdated DEF EffectStates
<1>4. FlowRows' /\ \A j \in Calls \ {i} : flow'[j] = flow[j]
  BY <1>0, <1>1, <1>3 DEF FlowRows, FlowGoes
<1>5. /\ flow'[i].op = flow[i].op /\ flow'[i].pc = flow[i].pc /\ flow'[i].effect = "reconciled"
      /\ flow'[i].outcome = flow[i].outcome /\ flow'[i].todo = flow[i].todo
  BY <1>3 DEF FlowGoes
<1>6. CallFitsOp(i)' /\ CallFitsReceipt(i)'
  BY <1>0, <1>1, <1>5 DEF CallFitsOp, CallFitsReceipt, Dispatched, Closed
<1>7. (Begun(i)' <=> Begun(i)) /\ Changed' = Changed
  BY <1>1, <1>5 DEF Begun, Changed
<1>8. CallFitsFiles(i)'
  BY <1>0, <1>5, <1>7 DEF CallFitsFiles
<1>9. (Applied(i) => Applied(i)') /\ (Torn(i) => Torn(i)')
  BY <1>5 DEF Applied, Torn, Dispatched, Closed
<1>10. Begun(i)' => Begun(i) /\ proposal' = "applying"
  BY <1>0, <1>1, <1>7 DEF OneApplies
<1>11. QED
  BY <1>1, <1>4, <1>6, <1>7, <1>8, <1>9, <1>10, CallStepKeeps DEF ProposalMoves

\* What befalls the run, the process or the files: every call keeps what it has
\* done, and may be ended.
LEMMA MeanwhileKeeps ==
  ASSUME ProposalIInv, UNCHANGED proposal, FlowRows', Changed' \subseteq Changed,
         \A i \in Calls :
           /\ flow'[i].op = flow[i].op /\ flow'[i].todo = flow[i].todo /\ flow'[i].outcome = flow[i].outcome
           /\ Dispatched(i) => Dispatched(i)'
           /\ flow[i].effect \in Closed => flow'[i].effect = flow[i].effect
           /\ flow[i].effect = "none" => flow'[i].effect = "none"
           /\ flow'[i].pc = flow[i].pc \/ (flow'[i].pc = "done" /\ flow[i].pc # "idle")
  PROVE  ProposalIInv'
<1>0. /\ \A i \in Calls : CallFitsOp(i) /\ CallFitsReceipt(i) /\ CallFitsFiles(i)
      /\ OneApplies /\ ChangeFits
  BY DEF ProposalIInv
<1>1. ASSUME NEW i \in Calls PROVE CallFitsOp(i)' /\ CallFitsReceipt(i)'
  <2>1. CallFitsOp(i)'
    BY <1>0 DEF CallFitsOp, ApplyPlaces
  <2>2. CallFitsReceipt(i)'
    BY <1>0 DEF CallFitsReceipt
  <2>3. QED
    BY <2>1, <2>2
<1>2. ASSUME NEW i \in Calls PROVE (Begun(i)' => Begun(i) /\ flow'[i].pc = flow[i].pc)
  BY <1>2 DEF Begun, ApplyPlaces
<1>3. ASSUME NEW i \in Calls PROVE CallFitsFiles(i)'
  <2>1. SUFFICES ASSUME Begun(i)' PROVE CallFitsFiles(i)'
    BY DEF CallFitsFiles
  <2>2. Begun(i) /\ flow'[i].pc = flow[i].pc /\ flow'[i].todo = flow[i].todo /\ flow'[i].outcome = flow[i].outcome
    BY <1>2, <2>1
  <2>3. CallFitsFiles(i)
    BY <1>0
  <2>4. QED
    BY <2>2, <2>3 DEF CallFitsFiles
<1>4. OneApplies'
  BY <1>0, <1>2 DEF OneApplies
<1>5. \A i \in Calls : (Applied(i) => Applied(i)') /\ (Torn(i) => Torn(i)')
  BY DEF Applied, Torn
<1>6. ChangeFits'
  BY <1>0, <1>5 DEF ChangeFits
<1>7. QED
  BY <1>1, <1>3, <1>4, <1>6 DEF ProposalIInv

\* What happens to the run, the process and the files from outside.
LEMMA RunsKeep ==
  ASSUME ProposalIInv,
         \/ InterruptRun \/ RenewLease \/ StopProcess \/ ResumeObserved \/ ResumeApproved
         \/ \E f \in Files : EditOutside(f)
  PROVE  ProposalIInv'
<1>0. FlowRows
  BY DEF ProposalIInv
<1>1. CASE ResumeObserved \/ ResumeApproved
  <2>1. UNCHANGED <<flow, proposal, source>> /\ lease' \in RunLeases
    BY <1>0, <1>1 DEF FlowRows, RunLeases, ResumeObserved, ResumeApproved, Resume
  <2>2. FlowRows' /\ Changed' = Changed
    BY <1>0, <2>1 DEF FlowRows, Changed
  <2>3. QED
    BY <2>1, <2>2, MeanwhileKeeps DEF Dispatched
<1>2. ASSUME NEW f \in Files, EditOutside(f) PROVE ProposalIInv'
  <2>1. UNCHANGED <<flow, proposal, lease>> /\ source' = [source EXCEPT ![f] = "edited"]
    BY <1>2 DEF EditOutside, proposalRows
  <2>2. FlowRows' /\ Changed' \subseteq Changed
    BY <1>0, <2>1 DEF FlowRows, Changed, SourceStates
  <2>3. QED
    BY <2>1, <2>2, MeanwhileKeeps DEF Dispatched
<1>3. CASE InterruptRun \/ RenewLease \/ StopProcess
  <2>1. UNCHANGED <<proposal, source>> /\ lease' \in RunLeases
    <3>1. CASE InterruptRun \/ StopProcess
      BY <1>0, <3>1 DEF InterruptRun, StopProcess, PauseRun, FlowRows, RunLeases
    <3>2. CASE RenewLease
      BY <1>0, <3>2 DEF RenewLease, FlowRows, RunLeases
    <3>3. QED
      BY <1>3, <3>1, <3>2
  <2>2. PICK ends \in BOOLEAN :
          flow' = [i \in Calls |-> [flow[i] EXCEPT !.effect = Forsake(@),
                                     !.pc = IF ~ends \/ @ = "idle" THEN @ ELSE "done"]]
    <3>1. CASE StopProcess
      BY <3>1 DEF StopProcess
    <3>2. CASE InterruptRun \/ RenewLease
      <4>1. flow' = [i \in Calls |-> [flow[i] EXCEPT !.effect = Forsake(@)]]
        BY <3>2 DEF InterruptRun, RenewLease
      <4>2. \A i \in Calls : [flow[i] EXCEPT !.effect = Forsake(@)]
                               = [flow[i] EXCEPT !.effect = Forsake(@), !.pc = flow[i].pc]
        BY <1>0, CallIsItsFields
      <4>3. QED
        BY <4>1, <4>2
    <3>3. QED
      BY <1>3, <3>1, <3>2
  <2>3. ASSUME NEW i \in Calls
        PROVE  /\ flow'[i] \in CallInFlow
               /\ flow'[i].op = flow[i].op /\ flow'[i].todo = flow[i].todo /\ flow'[i].outcome = flow[i].outcome
               /\ flow'[i].effect = Forsake(flow[i].effect)
               /\ flow'[i].pc = flow[i].pc \/ (flow'[i].pc = "done" /\ flow[i].pc # "idle")
    <3>1. PICK effect : effect = Forsake(flow[i].effect)
      OBVIOUS
    <3>2. PICK pc : pc = IF ~ends \/ flow[i].pc = "idle" THEN flow[i].pc ELSE "done"
      OBVIOUS
    <3>3. effect \in EffectStates
      BY <1>0, <3>1, CallIsItsFields DEF Forsake, EffectStates
    <3>4. pc \in CallPlaces /\ (pc = flow[i].pc \/ (pc = "done" /\ flow[i].pc # "idle"))
      BY <1>0, <3>2, CallIsItsFields DEF CallPlaces
    <3>5. flow'[i] = [flow[i] EXCEPT !.effect = effect, !.pc = pc]
      BY <2>2, <3>1, <3>2
    <3>6. flow'[i] \in CallInFlow
      BY <1>0, <3>3, <3>4, <3>5 DEF FlowRows, CallInFlow
    <3>7. flow'[i].op = flow[i].op /\ flow'[i].todo = flow[i].todo /\ flow'[i].outcome = flow[i].outcome
      BY <1>0, <3>5 DEF FlowRows, CallInFlow
    <3>8. flow'[i].effect = effect /\ flow'[i].pc = pc
      BY <1>0, <3>5 DEF FlowRows, CallInFlow
    <3>9. QED
      BY <3>1, <3>4, <3>6, <3>7, <3>8
  <2>4. flow' \in [Calls -> CallInFlow]
    BY <2>2, <2>3
  <2>5. FlowRows' /\ Changed' = Changed
    BY <1>0, <2>1, <2>4 DEF FlowRows, Changed
  <2>6. ASSUME NEW i \in Calls
        PROVE  /\ Dispatched(i) => Dispatched(i)'
               /\ flow[i].effect \in Closed => flow'[i].effect = flow[i].effect
               /\ flow[i].effect = "none" => flow'[i].effect = "none"
    <3>1. flow'[i].effect = Forsake(flow[i].effect)
      BY <2>3
    <3>2. QED
      BY <3>1 DEF Dispatched, Forsake, Closed
  <2>7. QED
    BY <2>1, <2>3, <2>5, <2>6, MeanwhileKeeps
<1>4. QED
  BY <1>1, <1>2, <1>3

\* The invariant holds throughout.
LEMMA ProposalHolds ==
  ProposalSpec => []ProposalIInv
<1>1. ProposalInit => ProposalIInv
  <2>1. SUFFICES ASSUME ProposalInit PROVE ProposalIInv
    OBVIOUS
  <2>2. IdleFlow \in CallInFlow /\ IdleFlow.pc = "idle" /\ IdleFlow.effect = "none" /\ IdleFlow.op = "none"
    BY DEF IdleFlow, None, CallInFlow, CallOps, CallPlaces, EffectStates, CallOutcomes
  <2>3. /\ ReturnedApply \in CallInFlow /\ ReturnedApply.pc = "done" /\ ReturnedApply.effect = "observed"
        /\ ReturnedApply.op = "apply"
    BY DEF ReturnedApply, CallInFlow, CallOps, CallPlaces, EffectStates, CallOutcomes
  <2>4. lease \in RunLeases
    BY <2>1 DEF ProposalInit, RunLeases
  <2>5. CASE proposal = "approved" /\ source = [f \in Files |-> "before"] /\ flow = [i \in Calls |-> IdleFlow]
    <3>1. FlowRows /\ Changed = {}
      BY <2>2, <2>4, <2>5 DEF FlowRows, SourceStates, Changed
    <3>2. \A i \in Calls : flow[i].pc = "idle" /\ flow[i].effect = "none" /\ flow[i].op = "none"
      BY <2>2, <2>5
    <3>3. QED
      BY <3>1, <3>2 DEF ProposalIInv, CallFitsOp, CallFitsReceipt, CallFitsFiles, Begun, OneApplies, ChangeFits,
         ApplyPlaces
  <2>6. ASSUME proposal \in {"applied", "awaiting_post_review"}, source = [f \in Files |-> "after"],
               NEW a \in Calls, flow = [i \in Calls |-> IF i = a THEN ReturnedApply ELSE IdleFlow]
        PROVE  ProposalIInv
    <3>1. FlowRows
      BY <2>2, <2>3, <2>4, <2>6 DEF FlowRows, SourceStates
    <3>2. \A i \in Calls : \/ flow[i].pc = "idle" /\ flow[i].effect = "none" /\ flow[i].op = "none"
                           \/ flow[i].pc = "done" /\ flow[i].op = "apply"
      BY <2>2, <2>3, <2>6
    <3>3. Applied(a)
      BY <2>3, <2>6 DEF Applied, Dispatched
    <3>4. QED
      BY <2>6, <3>1, <3>2, <3>3 DEF ProposalIInv, CallFitsOp, CallFitsReceipt, CallFitsFiles, Begun, OneApplies,
         ChangeFits, ApplyPlaces
  <2>7. QED
    BY <2>1, <2>5, <2>6 DEF ProposalInit
<1>2. ProposalIInv /\ [ProposalNext]_proposalVars => ProposalIInv'
  <2>1. SUFFICES ASSUME ProposalIInv, [ProposalNext]_proposalVars PROVE ProposalIInv'
    OBVIOUS
  <2>2. CASE UNCHANGED proposalVars
    <3>1. UNCHANGED <<flow, proposal, source, lease>>
      BY <2>2 DEF proposalVars
    <3>2. FlowRows' /\ Changed' = Changed
      BY <2>1, <3>1 DEF ProposalIInv, FlowRows, Changed
    <3>3. QED
      BY <2>1, <3>1, <3>2, MeanwhileKeeps DEF Dispatched
  <2>3. CASE ProposalNext
    BY <2>1, <2>3, EffectsKeep, AppliesKeep, OthersKeep, ReconcileKeeps, RunsKeep DEF ProposalNext
  <2>4. QED
    BY <2>1, <2>2, <2>3
<1>3. QED
  BY <1>1, <1>2, PTL DEF ProposalSpec

\* What a proposal wrote is on record: while a file holds the change, the
\* proposal has been taken in hand and an apply effect was sent and not forgotten,
\* and a failed apply left it only with an effect that is in doubt, or that was
\* observed with a receipt that says so (Apply).
THEOREM ChangeOnRecord == ProposalSpec => []ChangeIsOnRecord
<1>1. ProposalIInv => ChangeIsOnRecord
  <2>1. SUFFICES ASSUME ProposalIInv PROVE ChangeIsOnRecord
    OBVIOUS
  <2>2. \A i \in Calls : (Applied(i) <=> flow[i].op = "apply" /\ flow[i].effect \notin {"none", "planned", "abandoned"})
    BY DEF Applied, Dispatched
  <2>3. ChangeFits /\ ((\E f \in Files : source[f] = "after") => Changed # {})
    BY <2>1 DEF ProposalIInv, Changed
  <2>4. QED
    BY <2>2, <2>3 DEF ChangeFits, Torn, Closed, ChangeIsOnRecord
<1>2. QED
  BY <1>1, ProposalHolds, PTL

-----------------------------------------------------------------------------
(* A verdict on the files of a proposal.                                   *)

\* A call that is about to have the proposal called tested, or verified.
Seals(i) == \/ flow[i].pc \in {"bind", "complete", "completestep", "verify"}
            \/ flow[i].pc \in {"record", "insert", "receipt"} /\ flow[i].outcome = "approve"

NotRestored == \A f \in Files : source[f] # "before"

\* Such a call has the root lock, as has a batch, and has seen the files under it.
VerdictInv ==
  \A i \in Calls : /\ flow[i].pc \in {"writing", "undo"} \/ Seals(i) => rootLock = i
                   /\ Seals(i) => NotRestored

\* A step of call i changes files and takes or gives up the lock only when nobody
\* else has it.
LEMMA VerdictsKept ==
  ASSUME VerdictInv, NEW i \in Calls, \A j \in Calls \ {i} : flow'[j] = flow[j],
         rootLock' = rootLock \/ rootLock \in {None, i},
         source' = source \/ rootLock \in {None, i},
         flow'[i].pc \in {"writing", "undo"} \/ Seals(i)' => rootLock' = i,
         Seals(i)' => NotRestored'
  PROVE  VerdictInv'
<1>1. ASSUME NEW j \in Calls \ {i}
      PROVE  /\ flow'[j].pc \in {"writing", "undo"} \/ Seals(j)' => rootLock' = j
             /\ Seals(j)' => NotRestored'
  <2>1. Seals(j)' <=> Seals(j)
    BY DEF Seals
  <2>2. flow[j].pc \in {"writing", "undo"} \/ Seals(j) => rootLock = j /\ j \notin {None, i}
    BY ProposalFlowAssumption DEF VerdictInv
  <2>3. QED
    BY <2>1, <2>2 DEF VerdictInv, NotRestored
<1>2. QED
  BY <1>1 DEF VerdictInv

\* Call i goes on to place pc.
Onward(i, pc) ==
  /\ \A j \in Calls \ {i} : flow'[j] = flow[j]
  /\ flow'[i].pc = pc

LEMMA GoesOnward ==
  ASSUME FlowRows, NEW i \in Calls, NEW pc \in CallPlaces
  PROVE  /\ Continue(i, pc) => Onward(i, pc) /\ flow'[i].outcome = flow[i].outcome
         /\ \A outcome \in CallOutcomes : Hand(i, pc, outcome) => Onward(i, pc) /\ flow'[i].outcome = outcome
<1>1. ASSUME Continue(i, pc) PROVE Onward(i, pc) /\ flow'[i].outcome = flow[i].outcome
  BY <1>1, CallContinues DEF FlowGoes, Onward
<1>2. ASSUME NEW outcome \in CallOutcomes, Hand(i, pc, outcome)
      PROVE  Onward(i, pc) /\ flow'[i].outcome = outcome
  BY <1>2, CallHands DEF FlowGoes, Onward
<1>3. QED
  BY <1>1, <1>2

\* Call i goes where it needs no lock, and perhaps gives up the one it has.
LEMMA VerdictsLeft ==
  ASSUME VerdictInv, NEW i \in Calls, NEW pc, Onward(i, pc),
         pc \notin {"writing", "undo", "bind", "complete", "completestep", "verify"},
         pc \in {"record", "insert", "receipt"} => flow'[i].outcome # "approve",
         rootLock' = rootLock \/ rootLock \in {None, i},
         source' = source \/ rootLock \in {None, i}
  PROVE  VerdictInv'
BY VerdictsKept DEF Onward, Seals

LEMMA EffectsKeepVerdicts ==
  ASSUME ProposalIInv, VerdictInv, NEW i \in Calls, CallEffects(i)
  PROVE  VerdictInv'
<1>1. FlowRows /\ flow[i] \in CallInFlow /\ source' = source
  BY DEF ProposalIInv, FlowRows, CallEffects, PlanCallEffect, DispatchCallEffect, AbandonCallEffect, ObserveCallEffect
<1>2. CASE PlanCallEffect(i)
  <2>1. Onward(i, "begin") \/ Onward(i, "dispatch") \/ Onward(i, "done")
    BY <1>1, <1>2 DEF PlanCallEffect, Continue, Onward, FlowRows, CallInFlow
  <2>2. QED
    BY <1>1, <1>2, <2>1, VerdictsLeft DEF PlanCallEffect
<1>3. CASE DispatchCallEffect(i)
  <2>1. PICK pc \in {"write", "run", "ask", "conclude", "done", "abandon"} : Onward(i, pc)
    <3>1. flow[i].op \in {"apply", "verify", "review"}
      BY <1>3 DEF ProposalIInv, CallFitsOp, DispatchCallEffect, Stands
    <3>2. QED
      BY <1>1, <1>3, <3>1 DEF DispatchCallEffect, Onward, FlowRows, CallInFlow
  <2>2. QED
    BY <1>1, <1>3, <2>1, VerdictsLeft DEF DispatchCallEffect
<1>4. CASE AbandonCallEffect(i)
  <2>1. Onward(i, "done")
    BY <1>1, <1>4 DEF AbandonCallEffect, Onward, FlowRows, CallInFlow
  <2>2. QED
    BY <1>1, <1>4, <2>1, VerdictsLeft DEF AbandonCallEffect
<1>5. CASE ObserveCallEffect(i)
  <2> DEFINE saved == flow[i].effect = "dispatched"
             next == AfterReceipt(i, saved)
  <2>1. /\ flow' = [flow EXCEPT ![i].effect = IF saved THEN "observed" ELSE @, ![i].pc = next,
                                ![i].todo = IF next = "restore" THEN Files ELSE @]
        /\ IF next = "done" THEN Unlock(i) ELSE UNCHANGED rootLock
        /\ flow[i].pc = "receipt"
    BY <1>5 DEF ObserveCallEffect, Stands
  <2>2. /\ next \in {"conclude", "restore", "reguard", "complete", "done"}
        /\ next = "complete" => flow[i].outcome = "approve"
    BY DEF AfterReceipt
  <2> HIDE DEF next, saved
  <2>3. Onward(i, next)
    BY <1>1, <2>1 DEF Onward, FlowRows, CallInFlow
  <2>4. rootLock' = rootLock \/ rootLock = i
    BY <2>1 DEF Unlock
  <2>5. CASE next = "complete"
    <3>1. rootLock = i /\ rootLock' = i /\ NotRestored
      BY <2>1, <2>2, <2>5 DEF VerdictInv, Seals
    <3>2. NotRestored'
      BY <1>1, <3>1 DEF NotRestored
    <3>3. QED
      BY <2>3, <3>1, <3>2, VerdictsKept DEF Onward
  <2>6. CASE next # "complete"
    BY <1>1, <2>2, <2>3, <2>4, <2>6, VerdictsLeft
  <2>7. QED
    BY <2>5, <2>6
<1>6. QED
  BY <1>2, <1>3, <1>4, <1>5 DEF CallEffects

LEMMA AppliesKeepVerdicts ==
  ASSUME ProposalIInv, VerdictInv, NEW i \in Calls, Applies(i)
  PROVE  VerdictInv'
<1>1. FlowRows /\ flow[i] \in CallInFlow
  BY DEF ProposalIInv, FlowRows
<1>2. CASE StartApply(i) \/ BeginCodeProposalApply(i) \/ ConcludeApply(i)
  <2>1. PICK pc \in {"plan", "dispatch", "abandon", "done"} : Onward(i, pc)
    <3>1. ASSUME NEW pc \in {"dispatch", "abandon", "done"}, Continue(i, pc) PROVE Onward(i, pc)
      BY <1>1, <3>1 DEF Continue, Onward, FlowRows, CallInFlow
    <3>2. ASSUME StartApply(i) PROVE Onward(i, "plan")
      BY <1>1, <3>2 DEF StartApply, Start, Onward, FlowRows, CallInFlow
    <3>3. QED
      BY <1>2, <3>1, <3>2 DEF BeginCodeProposalApply, ConcludeApply
  <2>2. UNCHANGED <<source, rootLock>>
    BY <1>2 DEF StartApply, Start, BeginCodeProposalApply, ConcludeApply
  <2>3. QED
    BY <2>1, <2>2, VerdictsLeft
<1>3. CASE LockBatch(i)
  <2>1. rootLock = None /\ source' = source
    BY <1>3 DEF LockBatch
  <2>2. CASE Everywhere("before")
    <3>1. Onward(i, "writing") /\ rootLock' = i
      BY <1>1, <1>3, <2>2 DEF LockBatch, Onward, FlowRows, CallInFlow
    <3>2. ~Seals(i)'
      BY <3>1 DEF Onward, Seals
    <3>3. QED
      BY <2>1, <3>1, <3>2, VerdictsKept DEF Onward
  <2>3. CASE ~Everywhere("before")
    <3>1. Onward(i, "receipt") /\ flow'[i].outcome = "clean"
      BY <1>1, <1>3, <2>3, GoesOnward DEF LockBatch, CallPlaces, CallOutcomes
    <3>2. QED
      BY <2>1, <3>1, VerdictsLeft
  <2>4. QED
    BY <2>2, <2>3
<1>4. ASSUME flow[i].pc \in {"writing", "undo"} PROVE rootLock = i
  BY <1>4 DEF VerdictInv
<1>5. ASSUME NEW f \in Files, WriteFile(i, f) PROVE VerdictInv'
  <2>1. rootLock = i /\ flow[i].pc = "writing"
    BY <1>4, <1>5 DEF WriteFile, Stands
  <2>2. CASE flow[i].todo = {f}
    <3>1. Onward(i, "receipt") /\ flow'[i].outcome = "written"
      BY <1>1, <1>5, <2>2, GoesOnward DEF WriteFile, CallPlaces, CallOutcomes
    <3>2. QED
      BY <2>1, <3>1, VerdictsLeft
  <2>3. CASE flow[i].todo # {f}
    <3>1. Onward(i, "writing") /\ rootLock' = i
      BY <1>1, <1>5, <2>1, <2>3 DEF WriteFile, Onward, FlowRows, CallInFlow
    <3>2. ~Seals(i)'
      BY <3>1 DEF Onward, Seals
    <3>3. QED
      BY <2>1, <3>1, <3>2, VerdictsKept DEF Onward
  <2>4. QED
    BY <2>2, <2>3
<1>6. ASSUME WriteFails(i) \/ \E f \in Files : UndoFile(i, f) PROVE VerdictInv'
  <2>1. rootLock = i /\ rootLock' = i
    BY <1>4, <1>6 DEF WriteFails, UndoFile, Stands
  <2>2. Onward(i, "undo")
    <3>1. CASE WriteFails(i)
      BY <1>1, <3>1 DEF WriteFails, Onward, FlowRows, CallInFlow
    <3>2. ASSUME NEW f \in Files, UndoFile(i, f) PROVE Onward(i, "undo")
      BY <1>1, <3>2 DEF UndoFile, Stands, Onward, FlowRows, CallInFlow
    <3>3. QED
      BY <1>6, <3>1, <3>2
  <2>3. ~Seals(i)'
    BY <2>2 DEF Onward, Seals
  <2>4. QED
    BY <2>1, <2>2, <2>3, VerdictsKept DEF Onward
<1>7. CASE EndUndo(i)
  <2>1. rootLock = i /\ flow[i].outcome # "approve"
    BY <1>4, <1>7 DEF EndUndo, Stands, ProposalIInv, CallFitsReceipt
  <2>2. Onward(i, "receipt") /\ flow'[i].outcome = flow[i].outcome
    BY <1>1, <1>7, GoesOnward DEF EndUndo, CallPlaces
  <2>3. QED
    BY <2>1, <2>2, VerdictsLeft
<1>8. QED
  BY <1>2, <1>3, <1>5, <1>6, <1>7 DEF Applies

LEMMA VerifiesKeepVerdicts ==
  ASSUME ProposalIInv, VerdictInv, NEW i \in Calls, Verifies(i) \/ FailsWork(i)
  PROVE  VerdictInv'
<1>1. FlowRows /\ flow[i] \in CallInFlow
  BY DEF ProposalIInv, FlowRows
<1>2. CASE StartVerify(i) \/ GuardCheck(i) \/ GuardEvidence(i)
  <2>1. PICK pc \in {"guard", "plan", "done", "finish", "restore"} : Onward(i, pc)
    BY <1>1, <1>2 DEF StartVerify, Start, GuardCheck, GuardEvidence, Continue, Onward, FlowRows, CallInFlow
  <2>2. UNCHANGED <<source, rootLock>>
    BY <1>2 DEF StartVerify, Start, GuardCheck, GuardEvidence
  <2>3. QED
    BY <2>1, <2>2, VerdictsLeft
<1>3. CASE RunCheck(i)
  <2>1. UNCHANGED <<source, rootLock>>
    BY <1>3 DEF RunCheck
  <2>2. Onward(i, "done") \/ (Onward(i, "receipt") /\ flow'[i].outcome \in {"unlaunched", "pass", "fail"})
    BY <1>1, <1>3, GoesOnward DEF RunCheck, CallPlaces, CallOutcomes
  <2>3. QED
    BY <2>1, <2>2, VerdictsLeft
<1>4. CASE FinishVerification(i)
  <2>1. rootLock = None /\ source' = source
    BY <1>4 DEF FinishVerification
  <2>2. CASE Everywhere("after")
    <3>1. Onward(i, "bind") /\ rootLock' = i
      BY <1>1, <1>4, <2>2, GoesOnward DEF FinishVerification, CallPlaces
    <3>2. NotRestored'
      BY <2>1, <2>2 DEF Everywhere, NotRestored
    <3>3. QED
      BY <2>1, <3>1, <3>2, VerdictsKept DEF Onward
  <2>3. CASE ~Everywhere("after")
    <3>1. Onward(i, "done")
      BY <1>1, <1>4, <2>3, GoesOnward DEF FinishVerification, CallPlaces
    <3>2. QED
      BY <2>1, <3>1, VerdictsLeft
  <2>4. QED
    BY <2>2, <2>3
<1>5. CASE BindCodeProposalVerification(i) \/ CloseProposal(i) \/ FailCallAttempt(i) \/ FailCallStep(i)
  <2>1. PICK pc \in {"done", "failattempt", "failstep"} : Onward(i, pc)
    BY <1>1, <1>5, GoesOnward
       DEF BindCodeProposalVerification, Leave, CloseProposal, FailCallAttempt, FailCallStep, CallPlaces
  <2>2. source' = source /\ (rootLock' = rootLock \/ rootLock = i)
    BY <1>5 DEF BindCodeProposalVerification, Leave, Unlock, CloseProposal, FailCallAttempt, FailCallStep
  <2>3. QED
    BY <2>1, <2>2, VerdictsLeft
<1>6. ASSUME NEW f \in Files, RestoreFile(i, f) PROVE VerdictInv'
  <2>1. rootLock = None /\ rootLock' = rootLock
    BY <1>6 DEF RestoreFile
  <2>2. PICK pc \in {"close", "restore"} : Onward(i, pc)
    BY <1>1, <1>6 DEF RestoreFile, Stands, Onward, FlowRows, CallInFlow
  <2>3. QED
    BY <2>1, <2>2, VerdictsLeft
<1>7. QED
  BY <1>2, <1>3, <1>4, <1>5, <1>6 DEF Verifies, FailsWork

LEMMA ReviewsKeepVerdicts ==
  ASSUME ProposalIInv, VerdictInv, NEW i \in Calls, ReviewsCall(i)
  PROVE  VerdictInv'
<1>1. FlowRows /\ flow[i] \in CallInFlow /\ source' = source
  BY DEF ProposalIInv, FlowRows, ReviewsCall, StartReview, Start, LookForVerdict, ProviderAnswers, AcceptVerdict,
         CheckBeforeRecord, RecordPostCodeReview, CompleteCallAttempt, CompleteCallStep, VerifyProposal
<1>2. CASE StartReview(i)
  <2>1. Onward(i, "look") /\ rootLock' = rootLock
    BY <1>1, <1>2 DEF StartReview, Start, Onward, FlowRows, CallInFlow
  <2>2. QED
    BY <1>1, <2>1, VerdictsLeft
\* The files are looked at and the lock is kept.
<1>3. ASSUME rootLock = None, Everywhere("after"), rootLock' = i, NEW pc, Onward(i, pc) PROVE VerdictInv'
  <2>1. NotRestored'
    BY <1>1, <1>3 DEF Everywhere, NotRestored
  <2>2. QED
    BY <1>1, <1>3, <2>1, VerdictsKept DEF Onward
<1>4. CASE LookForVerdict(i)
  <2>1. \/ rootLock' = i /\ Everywhere("after") /\ Onward(i, "complete")
        \/ rootLock' = rootLock /\ (Onward(i, "plan") \/ Onward(i, "done"))
    BY <1>1, <1>4, GoesOnward DEF LookForVerdict, CallPlaces, CallOutcomes
  <2>2. QED
    BY <1>1, <1>3, <1>4, <2>1, VerdictsLeft DEF LookForVerdict
<1>5. CASE ProviderAnswers(i)
  <2>1. Onward(i, "accept") \/ (Onward(i, "receipt") /\ flow'[i].outcome = "unanswered")
    BY <1>1, <1>5, GoesOnward DEF ProviderAnswers, CallPlaces, CallOutcomes
  <2>2. QED
    BY <1>1, <1>5, <2>1, VerdictsLeft DEF ProviderAnswers
<1>6. CASE AcceptVerdict(i)
  <2>1. CASE Everywhere("after")
    <3>1. Onward(i, "record") /\ flow'[i].outcome = flow[i].outcome
      BY <1>1, <1>6, <2>1, GoesOnward DEF AcceptVerdict, CallPlaces
    <3>2. QED
      BY <1>1, <1>3, <1>6, <2>1, <3>1, VerdictsLeft DEF AcceptVerdict
  <2>2. CASE ~Everywhere("after")
    <3>1. Onward(i, "receipt") /\ flow'[i].outcome = "stale" /\ rootLock' = rootLock
      BY <1>1, <1>6, <2>2, GoesOnward DEF AcceptVerdict, CallPlaces, CallOutcomes
    <3>2. QED
      BY <1>1, <3>1, VerdictsLeft
  <2>3. QED
    BY <2>1, <2>2
\* A call that goes on under the lock it has.
<1>7. ASSUME rootLock' = rootLock, NEW pc, Onward(i, pc), Seals(i) \/ ~Seals(i)', pc \notin {"writing", "undo"}
      PROVE  VerdictInv'
  <2>1. Seals(i) => rootLock = i /\ NotRestored'
    BY <1>1 DEF VerdictInv, NotRestored
  <2>2. QED
    BY <1>1, <1>7, <2>1, VerdictsKept DEF Onward
\* A call that returns.
<1>8. ASSUME Leave(i) PROVE VerdictInv'
  <2>1. Onward(i, "done") /\ (rootLock' = rootLock \/ rootLock = i)
    BY <1>1, <1>8, GoesOnward DEF Leave, Unlock, CallPlaces
  <2>2. QED
    BY <1>1, <2>1, VerdictsLeft
<1>9. CASE CheckBeforeRecord(i)
  <2>1. CASE UNCHANGED rootLock /\ Continue(i, "insert")
    <3>1. Onward(i, "insert") /\ flow'[i].outcome = flow[i].outcome
      BY <1>1, <2>1, GoesOnward DEF CallPlaces
    <3>2. Seals(i) \/ ~Seals(i)'
      BY <1>9, <3>1 DEF CheckBeforeRecord, Stands, Seals, Onward
    <3>3. QED
      BY <1>7, <2>1, <3>1, <3>2
  <2>2. QED
    BY <1>8, <1>9, <2>1 DEF CheckBeforeRecord
<1>10. CASE RecordPostCodeReview(i)
  <2>1. Onward(i, "receipt") /\ flow'[i].outcome = flow[i].outcome /\ rootLock' = rootLock
    BY <1>1, <1>10, GoesOnward DEF RecordPostCodeReview, CallPlaces
  <2>2. Seals(i) \/ ~Seals(i)'
    BY <1>10, <2>1 DEF RecordPostCodeReview, Stands, Seals, Onward
  <2>3. QED
    BY <1>7, <2>1, <2>2
<1>11. CASE CompleteCallAttempt(i) \/ CompleteCallStep(i)
  <2>1. Seals(i)
    BY <1>11 DEF CompleteCallAttempt, CompleteCallStep, Stands, Seals
  <2>2. CASE UNCHANGED rootLock /\ (Continue(i, "completestep") \/ Continue(i, "verify"))
    BY <1>1, <1>7, <2>1, <2>2, GoesOnward DEF CallPlaces
  <2>3. QED
    BY <1>8, <1>11, <2>2 DEF CompleteCallAttempt, CompleteCallStep
<1>12. CASE VerifyProposal(i)
  BY <1>8, <1>12 DEF VerifyProposal
<1>13. QED
  BY <1>2, <1>4, <1>5, <1>6, <1>9, <1>10, <1>11, <1>12 DEF ReviewsCall

\* Calls go on as they were, or end with their process.
LEMMA MeanwhileKeepsVerdicts ==
  ASSUME VerdictInv, source' = source \/ \E f \in Files : source' = [source EXCEPT ![f] = "edited"],
         \A i \in Calls : \/ flow'[i].pc \in {"idle", "done"}
                          \/ /\ flow'[i].pc = flow[i].pc /\ flow'[i].outcome = flow[i].outcome
                             /\ rootLock' = rootLock
  PROVE  VerdictInv'
<1>1. NotRestored => NotRestored'
  <2>1. ASSUME NEW f \in Files, source' = [source EXCEPT ![f] = "edited"], NotRestored
        PROVE  NotRestored'
    BY <2>1 DEF NotRestored
  <2>2. QED
    BY <2>1 DEF NotRestored
<1>2. QED
  BY <1>1 DEF VerdictInv, Seals

LEMMA RunsKeepVerdicts ==
  ASSUME ProposalIInv, VerdictInv,
         \/ \E i \in Calls : ReconcileCallEffect(i)
         \/ InterruptRun \/ RenewLease \/ StopProcess \/ ResumeObserved \/ ResumeApproved
         \/ \E f \in Files : EditOutside(f)
         \/ UNCHANGED proposalVars
  PROVE  VerdictInv'
<1>1. FlowRows
  BY DEF ProposalIInv
<1>2. CASE StopProcess
  <2>1. ASSUME NEW i \in Calls PROVE flow'[i].pc \in {"idle", "done"}
    <3>1. PICK effect, pc : /\ flow'[i] = [flow[i] EXCEPT !.effect = effect, !.pc = pc]
                            /\ pc \in {"idle", "done"}
      BY <1>2 DEF StopProcess
    <3>2. QED
      BY <1>1, <3>1 DEF FlowRows, CallInFlow
  <2>2. QED
    BY <1>2, <2>1, MeanwhileKeepsVerdicts DEF StopProcess
<1>3. CASE InterruptRun \/ RenewLease
  <2>1. ASSUME NEW i \in Calls PROVE flow'[i].pc = flow[i].pc /\ flow'[i].outcome = flow[i].outcome
    <3>1. PICK effect : flow'[i] = [flow[i] EXCEPT !.effect = effect]
      BY <1>3 DEF InterruptRun, RenewLease
    <3>2. QED
      BY <1>1, <3>1 DEF FlowRows, CallInFlow
  <2>2. UNCHANGED <<source, rootLock>>
    BY <1>3 DEF InterruptRun, RenewLease
  <2>3. QED
    BY <2>1, <2>2, MeanwhileKeepsVerdicts
<1>4. ASSUME NEW i \in Calls, ReconcileCallEffect(i) PROVE VerdictInv'
  <2>1. \A j \in Calls : flow'[j].pc = flow[j].pc /\ flow'[j].outcome = flow[j].outcome
    BY <1>1, <1>4 DEF ReconcileCallEffect, FlowRows, CallInFlow
  <2>2. QED
    BY <1>4, <2>1, MeanwhileKeepsVerdicts DEF ReconcileCallEffect
<1>5. CASE ResumeObserved \/ ResumeApproved \/ (\E f \in Files : EditOutside(f)) \/ UNCHANGED proposalVars
  <2>1. UNCHANGED <<flow, rootLock>> /\ (source' = source \/ \E f \in Files : source' = [source EXCEPT ![f] = "edited"])
    BY <1>5 DEF ResumeObserved, ResumeApproved, Resume, EditOutside, proposalVars, proposalRows
  <2>2. QED
    BY <2>1, MeanwhileKeepsVerdicts
<1>6. QED
  BY <1>2, <1>3, <1>4, <1>5

LEMMA VerdictsHold == ProposalSpec => [](ProposalIInv /\ VerdictInv)
<1>1. ProposalInit => VerdictInv
  <2>1. SUFFICES ASSUME ProposalInit PROVE VerdictInv
    OBVIOUS
  <2>2. \A i \in Calls : flow[i].pc \in {"idle", "done"}
    <3>1. CASE flow = [i \in Calls |-> IdleFlow]
      BY <3>1 DEF IdleFlow
    <3>2. ASSUME NEW a \in Calls, flow = [i \in Calls |-> IF i = a THEN ReturnedApply ELSE IdleFlow]
          PROVE  \A i \in Calls : flow[i].pc \in {"idle", "done"}
      <4>1. ReturnedApply.pc = "done" /\ IdleFlow.pc = "idle"
        BY DEF ReturnedApply, IdleFlow
      <4>2. QED
        BY <3>2, <4>1
    <3>3. QED
      BY <2>1, <3>1, <3>2 DEF ProposalInit
  <2>3. QED
    BY <2>2 DEF VerdictInv, Seals
<1>2. ProposalIInv /\ VerdictInv /\ [ProposalNext]_proposalVars => VerdictInv'
  BY EffectsKeepVerdicts, AppliesKeepVerdicts, VerifiesKeepVerdicts, ReviewsKeepVerdicts, RunsKeepVerdicts
     DEF ProposalNext
<1>3. QED
  BY <1>1, <1>2, ProposalHolds, PTL DEF ProposalSpec

\* A proposal comes to be called tested, or verified, only over files that the
\* service has not restored: a call that says so looked at them under the root
\* lock, which it still has, and a rollback takes that lock for every file.
THEOREM VerdictOnWhatIsThere == ProposalSpec => NoVerdictOnRestoredSource
<1>1. ASSUME ProposalIInv, VerdictInv, [ProposalNext]_proposalVars,
             proposal' # proposal, proposal' \in {"awaiting_post_review", "verified"}
      PROVE  \A f \in Files : source[f] # "before"
  <2>1. PICK i \in Calls : BindCodeProposalVerification(i) \/ VerifyProposal(i)
    <3>1. ASSUME NEW i \in Calls, CallEffects(i) \/ Applies(i) \/ FailsWork(i) \/ ReconcileCallEffect(i)
          PROVE  FALSE
      BY <1>1, <3>1
         DEF CallEffects, PlanCallEffect, DispatchCallEffect, AbandonCallEffect, ObserveCallEffect, Applies,
             StartApply, Start, BeginCodeProposalApply, LockBatch, WriteFails, EndUndo, ConcludeApply, WriteFile,
             UndoFile, FailsWork, CloseProposal, FailCallAttempt, FailCallStep, RestoreFile, ReconcileCallEffect,
             proposalRows
    <3>2. ASSUME NEW i \in Calls, Verifies(i) \/ ReviewsCall(i)
          PROVE  BindCodeProposalVerification(i) \/ VerifyProposal(i)
      BY <1>1, <3>2
         DEF Verifies, StartVerify, Start, GuardCheck, RunCheck, GuardEvidence, FinishVerification, ReviewsCall,
             StartReview, LookForVerdict, ProviderAnswers, AcceptVerdict, CheckBeforeRecord, RecordPostCodeReview,
             CompleteCallAttempt, CompleteCallStep, proposalRows
    <3>3. CASE \/ InterruptRun \/ RenewLease \/ StopProcess \/ ResumeObserved \/ ResumeApproved
               \/ (\E f \in Files : EditOutside(f)) \/ UNCHANGED proposalVars
      BY <1>1, <3>3 DEF InterruptRun, RenewLease, StopProcess, ResumeObserved, ResumeApproved, Resume, EditOutside,
                        proposalVars, proposalRows
    <3>4. QED
      BY <1>1, <3>1, <3>2, <3>3 DEF ProposalNext
  <2>2. Seals(i)
    BY <2>1 DEF BindCodeProposalVerification, VerifyProposal, Stands, Seals
  <2>3. QED
    BY <1>1, <2>2 DEF VerdictInv, NotRestored
<1>2. ProposalIInv /\ VerdictInv /\ [ProposalNext]_proposalVars =>
        [proposal' # proposal /\ proposal' \in {"awaiting_post_review", "verified"} =>
           \A f \in Files : source[f] # "before"]_proposalVars
  BY <1>1
<1>3. QED
  BY <1>2, VerdictsHold, PTL DEF ProposalSpec, NoVerdictOnRestoredSource

-----------------------------------------------------------------------------
(***************************************************************************)
(* Types.  The invariants above hold the shapes that the arguments need;   *)
(* what else is in the rows follows.                                       *)
(***************************************************************************)

\* The intents, locks and receipts of file changes have their shapes, for any
\* number of writers and texts.
THEOREM MutationsAreTyped == MutationSpec => []MutationTypeOK
<1>1. MutationIInv => MutationTypeOK
  BY DEF MutationIInv
<1>2. QED
  BY <1>1, MutationsHold, PTL

\* The entries and calls of the pool have their shapes, for any number of callers
\* and entries.
THEOREM PoolIsTyped == PoolSpec => []PoolTypeOK
<1>1. PoolIInv => PoolTypeOK
  BY DEF PoolIInv
<1>2. QED
  BY <1>1, PoolHolds, PTL

\* The rows of the collector, its quarantine and its keepers have their shapes,
\* for any number of blobs, runs and keepers.
THEOREM BlobsAreTyped == BlobSpec => []BlobTypeOK
<1> DEFINE Rest == stored \subseteq BlobIds /\ exposed \subseteq BlobIds /\ touches \in Nat /\ faults \in Nat
<1>1. BlobInit => Rest
  BY DEF BlobInit
<1>2. BlobIInv /\ Rest /\ [BlobNext]_blobVars => Rest'
  <2> SUFFICES ASSUME BlobIInv, Rest, [BlobNext]_blobVars PROVE Rest'
    OBVIOUS
  <2>1. ASSUME NEW w \in Savers, Put(w) PROVE Rest'
    BY <2>1 DEF Put
  <2>2. ASSUME NEW w \in Savers, CommitReference(w) PROVE Rest'
    BY <2>2 DEF CommitReference, BlobIInv, BlobRows
  <2>3. ASSUME NEW b \in BlobIds, DropReference(b) PROVE Rest'
    BY <2>3 DEF DropReference
  <2>4. ASSUME NEW n \in GcRuns, DryRunRows(n) \/ DryRunFiles(n) PROVE Rest'
    BY <2>4 DEF DryRunRows, DryRunFiles
  <2>5. ASSUME NEW k \in Keepers,
               \/ StartApplication(k) \/ CompareSnapshot(k) \/ ClaimGc(k) \/ Quarantine(k) \/ QuarantineFails(k)
               \/ CommitQuarantine(k) \/ BringBack(k) \/ ReleaseClaim(k)
               \/ StartRestoration(k) \/ RestoreBlob(k) \/ FinishRestoration(k)
        PROVE  Rest'
    <3>1. UNCHANGED <<stored, exposed, touches>> /\ (faults' = faults \/ faults' = faults + 1)
      BY <2>5 DEF StartApplication, CompareSnapshot, ClaimGc, Quarantine, QuarantineFails, CommitQuarantine,
         BringBack, ReleaseClaim, StartRestoration, RestoreBlob, FinishRestoration, Faulty
    <3>2. QED
      BY <3>1
  <2>6. CASE StopCollector \/ UNCHANGED blobVars
    BY <2>6 DEF StopCollector, Faulty, blobVars
  <2>7. QED
    BY <2>1, <2>2, <2>3, <2>4, <2>5, <2>6 DEF BlobNext
<1>3. BlobIInv /\ Rest => BlobTypeOK
  BY DEF BlobIInv, BlobRows, GcRow, KeeperRow, BlobTypeOK
<1>4. QED
  BY <1>1, <1>2, <1>3, BlobsHold, PTL DEF BlobSpec

\* The rows of a team's run, its executor, children and decisions have their
\* shapes, for any number of tasks.
THEOREM TeamIsTyped == TeamSpec => []TeamTypeOK
<1> DEFINE Rest == /\ team \in {"queued", "running", "awaiting_approval", "completed", "failed", "cancelled",
                                "interrupted"}
                   /\ handle \in TeamTasks \cup {"executor", "none"} /\ canceller \in BOOLEAN
                   /\ approvals \in Nat /\ lives \in Nat
<1>1. TeamInit => Rest
  <2> SUFFICES ASSUME TeamInit PROVE Rest
    OBVIOUS
  <2>1. canceller \in BOOLEAN
    BY Zenon DEF TeamInit
  <2>2. QED
    BY <2>1 DEF TeamInit
<1>2. Rest /\ [TeamNext]_teamVars => Rest'
  <2> SUFFICES ASSUME Rest, [TeamNext]_teamVars PROVE Rest'
    OBVIOUS
  <2>1. CASE ExecuteTeamRun
    BY <2>1 DEF ExecuteTeamRun, BeginTeamRun, ReadTeamRun, PauseForApproval, LaunchWave, AwaitWave,
       ReadForSettling, FinishTeamRun, BlockTask, ExecutorEnds, teamBounds
  <2>2. ASSUME NEW t \in TeamTasks,
               \/ StartTeamTask(t) \/ EndTeamTurn(t) \/ SaveTeamTask(t)
               \/ ReadForDecision(t) \/ ClaimApproval(t) \/ RegisterDecision(t) \/ EndDecidedTurn(t)
        PROVE  Rest'
    BY <2>2 DEF StartTeamTask, EndTeamTurn, SaveTeamTask, ReadForDecision, ClaimApproval, RegisterDecision,
       EndDecidedTurn, teamBounds
  <2>3. ASSUME NEW t \in TeamTasks,
               \/ SaveDecision(t) \/ CountWaiting(t) \/ StayAwaiting(t) \/ ResumeTeamRun(t) \/ ScheduleTeamRun(t)
        PROVE  Rest'
    BY <2>3 DEF SaveDecision, CountWaiting, StayAwaiting, ResumeTeamRun, ScheduleTeamRun, DecisionEnds, teamBounds
  <2>4. CASE CancelTeamRun \/ SignalCancellation \/ RestartTeam \/ UNCHANGED teamVars
    <3>1. canceller' \in BOOLEAN
      BY <2>4, Zenon DEF CancelTeamRun, SignalCancellation, RestartTeam, teamVars
    <3>2. /\ team' \in {team, "cancelled", "interrupted"} /\ handle' \in {handle, "none"}
          /\ approvals' = approvals /\ lives' \in {lives, lives + 1}
      BY <2>4 DEF CancelTeamRun, SignalCancellation, RestartTeam, teamVars, teamBounds
    <3>3. QED
      BY <3>1, <3>2
  <2>5. QED
    BY <2>1, <2>2, <2>3, <2>4 DEF TeamNext
<1>3. TeamIInv /\ Rest => TeamTypeOK
  BY DEF TeamIInv, TeamRows, TeamTaskStates, ExecutorPlaces, ExecutorRow, ChildRow, DecisionRow, TeamTypeOK
<1>4. QED
  BY <1>1, <1>2, <1>3, TeamRunHolds, PTL DEF TeamSpec

\* The triggers, reviews, drains, workers and the gate have their shapes, for any
\* number of each.
THEOREM LearningIsTyped == LearningSpec => []LearningTypeOK
<1> DEFINE Gates == [foreground : {"idle", "waiting", "active"}, background : BOOLEAN, preempted : BOOLEAN]
           Rest == gate \in Gates /\ failures \in Nat /\ starts \in Nat
<1>1. LearningInit => Rest
  BY DEF LearningInit, OpenGate
<1>2. Rest /\ [LearningNext]_learningVars => Rest'
  <2> SUFFICES ASSUME Rest, [LearningNext]_learningVars PROVE Rest'
    OBVIOUS
  <2>1. /\ gate' = gate \/ gate' = OpenGate \/ LeaveGate
           \/ gate' = [gate EXCEPT !.background = TRUE]
           \/ (\E s \in {"idle", "active"} : gate' = [gate EXCEPT !.foreground = s])
           \/ gate' = [gate EXCEPT !.foreground = "waiting", !.preempted = gate.background]
        /\ failures' = failures \/ failures' = failures + 1
        /\ starts' = starts \/ starts' = starts + 1
    <3>1. CASE \E x \in Triggers : StageTrigger(x)
      BY <3>1 DEF StageTrigger
    <3>2. ASSUME NEW d \in Drainers, ReadPending(d) \/ ClaimTrigger(d) \/ EnqueueReview(d) \/ SettleTrigger(d)
          PROVE  /\ gate' = gate /\ starts' = starts
                 /\ failures' = failures \/ failures' = failures + 1
      BY <3>2 DEF ReadPending, ClaimTrigger, EnqueueReview, SettleTrigger, Failing
    <3>3. ASSUME NEW w \in Reviewers,
                 \/ ClaimReview(w) \/ EnterGate(w) \/ AnswerReview(w) \/ LookForCandidate(w)
                 \/ CreateCandidate(w) \/ TryAutomatedPromotion(w) \/ AbortReview(w) \/ SettleReview(w)
          PROVE  /\ gate' = gate \/ LeaveGate \/ gate' = [gate EXCEPT !.background = TRUE]
                 /\ failures' = failures \/ failures' = failures + 1
                 /\ starts' = starts
      BY <3>3 DEF ClaimReview, EnterGate, AnswerReview, LookForCandidate, CreateCandidate, TryAutomatedPromotion,
         AbortReview, SettleReview, Failing
    <3>4. CASE \/ ForegroundArrives \/ ForegroundEnters \/ ForegroundLeaves
               \/ RestartLearning \/ RecoverLearning \/ UNCHANGED learningVars
      BY <3>4 DEF ForegroundArrives, ForegroundEnters, ForegroundLeaves, RestartLearning, RecoverLearning,
         learningVars
    <3>5. QED
      BY <3>1, <3>2, <3>3, <3>4 DEF LearningNext
  <2>2. gate' \in Gates
    <3>1. gate = [foreground |-> gate.foreground, background |-> gate.background, preempted |-> gate.preempted]
      OBVIOUS
    <3>2. gate.foreground \in {"idle", "waiting", "active"} /\ gate.background \in BOOLEAN /\ gate.preempted \in BOOLEAN
      BY Zenon
    <3>3. CASE gate' = OpenGate
      BY <3>3, Zenon DEF OpenGate
    <3>4. CASE LeaveGate
      BY <3>2, <3>4 DEF LeaveGate
    <3>5. CASE gate' = [gate EXCEPT !.background = TRUE]
      BY <3>2, <3>5
    <3>6. CASE \E s \in {"idle", "active"} : gate' = [gate EXCEPT !.foreground = s]
      BY <3>2, <3>6
    <3>7. CASE gate' = [gate EXCEPT !.foreground = "waiting", !.preempted = gate.background]
      BY <3>2, <3>7
    <3>8. QED
      BY <2>1, <3>3, <3>4, <3>5, <3>6, <3>7
  <2>3. QED
    BY <2>1, <2>2
<1>3. LearningIInv /\ Rest => LearningTypeOK
  <2> SUFFICES ASSUME LearningIInv, Rest PROVE LearningTypeOK
    OBVIOUS
  <2>1. ASSUME NEW d \in Drainers
        PROVE  /\ drain[d].pc \in {"idle", "next", "enqueue", "mark", "return"}
               /\ drain[d].pc \in {"enqueue", "mark", "return"} => drain[d].item \in Triggers
               /\ drain[d].rest \subseteq Triggers
    BY DEF LearningIInv, LearningRows, DrainRow, DrainFits
  <2>2. ASSUME NEW w \in Reviewers
        PROVE  worker[w].pc \in {"recovering", "idle"} \/ worker[w].key \in ReviewKeys
    BY DEF LearningIInv, LearningRows, WorkerRow, WorkerFits
  <2>3. QED
    BY <2>1, <2>2 DEF LearningIInv, LearningRows, ReviewRow, LearningTypeOK
<1>4. QED
  BY <1>1, <1>2, <1>3, LearningHolds, PTL DEF LearningSpec

\* The rows of a proposal, its verdicts, files, locks and calls have their shapes,
\* for any number of files and calls.
THEOREM ProposalIsTyped == ProposalSpec => []ProposalTypeOK
<1> DEFINE ProposalStates == {"approved", "applying", "applied", "apply_failed", "awaiting_post_review",
                              "verification_failed", "verified", "post_review_rejected"}
           AttemptStates == {"running", "completed", "failed", "interrupted"}
           StepStates == {"running", "completed", "failed", "blocked"}
           TaskStates == {"running", "paused", "verifying"}
           Shapes == [attempt : AttemptStates, step : StepStates, task : TaskStates]
           Rest == /\ proposal \in ProposalStates /\ verdicts \in Seq({"approve", "reject"})
                   /\ rootLock \in Calls \cup {None} /\ rows \in Shapes
                   /\ edits \in Nat /\ stops \in Nat
<1>1. ProposalInit => Rest
  BY DEF ProposalInit
<1>2. ProposalIInv /\ Rest /\ [ProposalNext]_proposalVars => Rest'
  <2> SUFFICES ASSUME ProposalIInv, Rest, [ProposalNext]_proposalVars PROVE Rest'
    OBVIOUS
  <2>1. ASSUME PauseRun PROVE rows' \in Shapes
    BY <2>1 DEF PauseRun
  <2>2. ASSUME NEW i \in Calls, Unlock(i) PROVE rootLock' \in Calls \cup {None}
    BY <2>2 DEF Unlock
  <2>3. ASSUME NEW i \in Calls, CallEffects(i) PROVE Rest'
    BY <2>2, <2>3 DEF CallEffects, PlanCallEffect, DispatchCallEffect, AbandonCallEffect, ObserveCallEffect,
       proposalRows, outer
  <2>4. ASSUME NEW i \in Calls, Applies(i) PROVE Rest'
    <3>1. /\ UNCHANGED <<verdicts, rows, edits, stops>>
          /\ proposal' \in {proposal, "applying", "applied", "apply_failed"}
          /\ rootLock' \in {rootLock, i} \/ Unlock(i)
      BY <2>4 DEF Applies, StartApply, Start, BeginCodeProposalApply, LockBatch, WriteFails, EndUndo,
         ConcludeApply, WriteFile, UndoFile, proposalRows, outer
    <3>2. QED
      BY <2>2, <3>1
  <2>5. ASSUME NEW i \in Calls, Verifies(i) PROVE Rest'
    <3>1. /\ UNCHANGED <<verdicts, rows, edits, stops>>
          /\ proposal' \in {proposal, "awaiting_post_review"}
          /\ rootLock' \in {rootLock, i} \/ Unlock(i)
      BY <2>5 DEF Verifies, StartVerify, Start, GuardCheck, RunCheck, GuardEvidence, FinishVerification,
         BindCodeProposalVerification, Leave, proposalRows, outer
    <3>2. QED
      BY <2>2, <3>1
  <2>6. ASSUME NEW i \in Calls, FailsWork(i) PROVE Rest'
    <3>1. /\ UNCHANGED <<verdicts, rootLock, edits, stops>>
          /\ proposal' \in {proposal, "verification_failed", "post_review_rejected"}
          /\ \/ rows' = rows \/ rows' = [rows EXCEPT !.attempt = "failed"]
             \/ rows' = [rows EXCEPT !.step = "failed", !.task = "paused"] \/ rows' = [rows EXCEPT !.task = "paused"]
      BY <2>6 DEF FailsWork, CloseProposal, FailCallAttempt, FailCallStep, RestoreFile, proposalRows, outer
    <3>2. rows' \in Shapes
      BY <3>1
    <3>3. QED
      BY <3>1, <3>2
  <2>7. ASSUME NEW i \in Calls, ReviewsCall(i) PROVE Rest'
    <3>1. CASE RecordPostCodeReview(i)
      <4>1. flow[i].outcome \in {"approve", "reject"}
        BY <3>1 DEF RecordPostCodeReview, Stands, ProposalIInv, CallFitsReceipt
      <4>2. verdicts' \in Seq({"approve", "reject"})
        BY <3>1, <4>1 DEF RecordPostCodeReview
      <4>3. QED
        BY <3>1, <4>2 DEF RecordPostCodeReview, outer
    <3>2. CASE ~RecordPostCodeReview(i)
      <4>1. /\ UNCHANGED <<verdicts, edits, stops>>
            /\ proposal' \in {proposal, "verified"}
            /\ rootLock' \in {rootLock, i, None} \/ Unlock(i)
            /\ \/ rows' = rows \/ rows' = [rows EXCEPT !.attempt = "completed"]
               \/ rows' = [rows EXCEPT !.step = "completed", !.task = "verifying"]
        BY <2>7, <3>2 DEF ReviewsCall, StartReview, Start, LookForVerdict, ProviderAnswers, AcceptVerdict,
           CheckBeforeRecord, CompleteCallAttempt, CompleteCallStep, VerifyProposal, Leave, proposalRows, outer
      <4>2. rows' \in Shapes
        BY <4>1
      <4>3. QED
        BY <2>2, <4>1, <4>2
    <3>3. QED
      BY <3>1, <3>2
  <2>8. ASSUME NEW i \in Calls, ReconcileCallEffect(i) PROVE Rest'
    BY <2>8 DEF ReconcileCallEffect, proposalRows, outer
  <2>9. CASE InterruptRun \/ StopProcess
    <3>1. /\ UNCHANGED <<proposal, verdicts, edits>> /\ rows' \in Shapes
          /\ rootLock' \in {rootLock, None} /\ stops' \in {stops, stops + 1}
      BY <2>1, <2>9 DEF InterruptRun, StopProcess, outer
    <3>2. QED
      BY <3>1
  <2>10. CASE RenewLease \/ ResumeObserved \/ ResumeApproved
    BY <2>10 DEF RenewLease, ResumeObserved, ResumeApproved, Resume, outer
  <2>11. CASE (\E f \in Files : EditOutside(f)) \/ UNCHANGED proposalVars
    BY <2>11 DEF EditOutside, proposalRows, proposalVars
  <2>12. QED
    BY <2>3, <2>4, <2>5, <2>6, <2>7, <2>8, <2>9, <2>10, <2>11 DEF ProposalNext
<1>3. ProposalIInv /\ Rest => ProposalTypeOK
  BY DEF ProposalIInv, FlowRows, CallInFlow, CallOps, CallPlaces, EffectStates, CallOutcomes, SourceStates,
     RunLeases, ProposalTypeOK, FlowRow, OpenEffects, None
<1>4. QED
  BY <1>1, <1>2, <1>3, ProposalHolds, PTL DEF ProposalSpec
=============================================================================
