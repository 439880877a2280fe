# Hermetrix in TLA+

A verification project for the Hermetrix harness (`src/`, Go): specifications of its concurrent
and crash-prone core, the TLC configurations that check them, and TLAPS proofs of the invariants
that matter most. `PROJECT.json` lists components, runs, mutants, hazards, findings and theorems,
and says for each definition which source lines it translates.

## 1. The system

Hermetrix is one process around one SQLite store with a single open connection
(`internal/store`). A statement or a transaction is therefore atomic and serialised with every
other; whatever spans two of them is not. HTTP handlers (`internal/web`), background loops
(message queue, automatic retries, goal runner, learning reviews, automations, maintenance), chat
bridges and the command line all call the same services, at any time and in any order. Models are
reached over HTTP through one in-memory scheduler. Files, commands, browsers and MCP servers are
outside: what the process did to them survives its crash, what it remembered of it may not. So the
code writes an intent before an external effect, a receipt after it, and at startup a recovery
(`cmd/hermetrix/main.go`) turns whatever was in flight into "not executed" or "uncertain". It never
replays an effect.

| component | state it keeps | operations | hard behaviour | what makes it correct |
|---|---|---|---|---|
| Inference scheduler, usage ledger (`inference`, `providers/runtime_idle.go`) | waiting tickets, slot counters, quarantined keys with epochs (memory); ledger rows (store) | `Do`: reserve, enqueue, take a grant, mark, dispatch, reconcile; idle probe | grant against cancellation against quarantine; failing updates after the call; stale probes; restart | exact counters, no idle slot, no starvation, a cancelled local call keeps its runtime closed, budgets hold for real usage |
| Task engine (`taskengine`) | tasks, plans, steps, runs with leases, attempts, effects, validations, proposals | plan, review, start/complete/fail steps, lease runs, plan/dispatch/observe/reconcile effects, complete, recover | slow owners whose lease expired; crash anywhere, also in recovery; callers in any order | one owner, one actor per step, honest effect records, completion on evidence, nothing before review |
| Task coordinator (`taskcoord`) | none of its own; proposals in the engine's tables, files under a root lock | apply, verify, review, roll back, reconcile | acts between the engine's transactions; two calls on one proposal | what is in the files is on record; nothing is called tested that was taken back |
| Goals (`taskcoord/goal*.go`, `taskengine/goal*.go`) | a goal's row with its claim and budgets, the checkpoint of its check, a managed command | advance by one charged action, wait, finish; stop, resume, recover | workers that act on what they read; stop against launch; gates that change under a completion | one actor, charged first; a stop is final and reaches the command; completion on passing gates |
| Agent (`agent`) | sessions with a turn lease, turns, approvals, stop controls, message queue, retries | run a turn, ask for and decide an approval, stop, delete, recover | approval suspends a turn; stop races completion; restart with an effect in flight | one turn per session, a decision executed once, a stop that sticks |
| Product (`product`) | projects, file mutation intents, jobs, teams, snapshots | write files, run commands, run teams | crash between rename and receipt; editors beside it; approvals, cancellation and restart of a team | the last replacement is on record; a child's prompt is sent once, after what it depends on |
| Learning, skills, curator (`learning`, `skills`, `curator`) | outboxes, reviews, candidates, versions, GC runs | stage, drain, review; edit, replay, evaluate, promote, archive; collect and restore blobs | restart between claim and completion; preemption; gates passed long before the promotion; a snapshot going stale | no evidence lost or used twice, what is promoted passed its gates, what is missing is on record |
| MCP (`mcp`) | one process per server in a pool | acquire, call, sweep, close | entry replaced while callers wait for its lock | no process without an owner, no tool call replayed, no caller answered under another command or token |
| Agent platform, Discord, automations | assignment streams, claimed interactions, due schedules | intake, deliver, acknowledge; claim; dispatch | repeated and late acknowledgements, duplicate events | each accepted once |
| Context, worker, providers' adapters, project brain, embeddings, evaluation | caches and derived data | pure transformations and I/O | none across steps | not modelled |

Interactions: agent, learning, worker and taskcoord dispatch model calls through the scheduler;
web, the goal runner and automations drive the task engine, and taskcoord carries out what the
engine dispatched; teams run agent turns; turns stage learning triggers in their own transaction;
learning proposes skills.

## 2. Plan

1. `InferenceScheduler` (done): the only shared in-memory state of all model calls.
2. `TaskEngine` with the abstract `EffectLedger` (done): the durable core.
3. `TurnLease` with the abstract `SessionHistory`, and `AutoRetry` (done): sessions, turns, approvals,
   stop, queue, restart, and the automatic continuation of unfinished turns.
4. `ProposalFlow` (done): apply, verify and review on top of the engine, by several calls at once.
5. `GoalRunner` (done): the goal loop with its claims, budgets, stop and recovery.
6. `TeamRun`, `FileMutation`, `McpPool`, `LearningOutbox`, `BlobCollector`, `SkillLifecycle` (done):
   the other services that keep state over several steps.
7. Still to model: the deletion of idle sessions, the assignment streams of the agent platform, the removal of new files (`restore_absence.go`), new
   and forked skills.

## 3. Modules

The models compose in two ways. `TaskEngine` implements `EffectLedger`, and `TurnLease` implements
`SessionHistory`. The other components share
no variable in the code's memory; they meet in the database, and what one does to another is an
action of the other's environment: to `ProposalFlow` and `GoalRunner` the engine is the few columns
they look at, with its guards; to `TaskEngine` the coordinator is a caller who may do anything a
caller can; to `AutoRetry` a turn is who executes it and what its session says, with the guards of
`TurnLease`. `MCServices`, `MCTurnWork` and `MCBackground` run several components in one state space,
one per behaviour, chosen in the initial state.

### InferenceScheduler
`pc[q]` is where one call of `Scheduler.Do` stands; `ledger` and `charged` are its row;
`waiting`, `granted`, `seq`, `sequence`, `globalActive`, `resourceActive`, `quarantined` and `epoch`
are the scheduler's fields. `busy`, `adrift` and `spent` belong to the world: which calls a local runtime
still generates for, which of them its call no longer listens to, and what a provider really used. A
call ends with an answer (`Answer`), with its context (`Abandon`, after which a local runtime is
quarantined), or with any other error (`Disconnect`): then `Do` releases the slot as for an answer, and
the runtime may go on generating beside the next call. One action is one critical section of the
mutex or one SQL statement, so a cancellation can come between any two of them, as in the code.
`DispatchLocked` states the loop of `dispatchLocked` by its result: the set of tickets each of
which finds slots left by its predecessors. Time is `Tick`, which ages the waiting tickets.
A ledger update may be reported as failed although it landed.

### TaskEngine and EffectLedger
One durable task with all its rows. Each transaction of `taskengine` is one action, with the guards
of its queries and early returns. A caller with a stale expected revision changes nothing, so the
revision of the task itself is not needed. A lease token is named by the generation it was issued
for, and any caller may present any token. `Expire` is the passing of `lease_expires_at`.
`DispatchEffect` puts the effect in `acting`; `Act` is the caller doing (or failing to do) what it
was given the dispatch for, at any later time, whatever happened to the lease meanwhile; `performed`
counts it. Both are history: no guard of the engine reads them, only reconciliation, which looks at
the world. Startup (`RecoverInterrupted`) is a sequence of statements and not a transaction: `boot`
is its program counter, and `Crash` may come in the middle of it.

`EffectLedger` is what the engine promises of each external operation: an intent, at most one
dispatch, at most one execution after it and never without it, and a final record.
`TaskEngine!FollowsLedger` is the refinement (`fate` is the state of the effect's row).

### ProposalFlow
One approved proposal of several files, and the calls of Apply, Verify and Review that work on it at
once: `flow[i]` is where call i stands, with its own effect. `source[f]` says whether a file holds
what it held before, the change, or what somebody else wrote; `rootLock` is the project's lock, which
a batch of writes holds from beginning to end, file by file, and which the snapshots of a
verification take before and after the check. `rows` are the columns of the attempt, the step and the
task that the coordinator's guards read. A rollback is part of the call that makes it. Every write may
fail half-way and every call may be stopped, singly or by a crash with the startup recovery after it.

### GoalRunner
`goal`, `task`, `step`, `run`, `check` (the checkpoint in `task_goal_verifications`), `effect` and
`job` are rows; `hand[a]` is where a worker, or the owner's request, stands and what it has read. A
worker looks at the goal, claims one action by compare-and-set against what it read, performs it, reads
again and finishes in a transaction; each of these is an action, and the owner's Stop, the deadline, a
revision of the requirements or a restart may come between any two. What an action other than a check
does to the task is one step (`ActionFits` is what its operation refuses). A check is launched
(`DispatchCheck`, `LaunchCheck`, `RegisterCancel`: the job's row exists before its cancel function),
left running, collected by a later action, or requeued for lack of capacity. `StopEndsCommand` is about
that command: cancelling an unregistered one only marks its row, and it is the claim's owner that
must come back to it.

### TurnLease and SessionHistory
One session, and the goroutines that serve calls on it. `session`, `control`, `approval` and
`message` are rows; `call[i]` is where goroutine i stands between two transactions, and
`call[i].registered` its entry in `executions.active`. `outcome[t]` is the event that closed turn t.
`did` and `live` belong to the world: effects carried out and commands still running. A command runs in a
process group of its own and may outlive the process (`Crash` ends none). What the agent knows of it is
less: `Counted` are the commands its tracker takes to be in flight, `saved[t]` the jobs in the control row,
and `loose` those that run and that nobody asks after: since the tool's cancel action marked them as
finished when the request was taken (`CancelCommand`), or since the process that counted them is gone and
`RecoverInterruptedJobs` has closed their rows. A stop is confirmed by asking after `Counted` and
`saved[t]` (`Owned`). RunTurn,
DecideApproval, StopTurn, ReconcileStoppedTurn, a steering message and DrainOneQueued are sequences
of actions, one per transaction or per critical section of `executions.mu`; ReconcileStoppedTurn
holds that mutex from beginning to end (`Unlocked`). A cancelled context is a control row: StopTurn
inserts the row and cancels under one lock, and registration looks for the row. A tool's report and
its effect are separate (`CarryOut`, `ToolReturns`), so a failure may follow an effect. The four
recovery passes run in the order of `main.go` with `boot` as their program counter; a crash may come
between any two. A read or a write that fails for reasons of the database alone is left out, except
for the receipt (`PersistFails`), whose loss is what a claim without a receipt comes from.

`SessionHistory` is what the rows tell the owner, with neither goroutines nor startup: turns one at a
time, each begun when nothing of the last is in progress and ended once; a stop that is the only end its
turn can still come to; effects that are proposed, decided and carried out once at most, by the turn that
has the session, and called executed only when they were. `TurnLease!FollowsHistory` is the refinement:
`holder` is the session's `active_turn_id`, `ending` the event that closed a turn, `stop` its control
row, `effect` its approvals, and `done` what was really carried out. What a restart may do to the rows is
in it as two steps, `Lose` and `Reclaim`; everything a goroutine does between two transactions is a
stutter.

### AutoRetry
One session's row in `agent_retries`, and the workers of `RunDueAutoRetry`. The transaction that ends
a turn schedules what it leaves unfinished (`Scheduled`), a worker finds the row due, claims it at the
price of an attempt, takes the turn's lease if the outcome it claimed is still the latest one, executes
the turn, approves what it asks for in sessions that are set to approve, and puts the row back if no
outcome replaced it. Each is a statement or transaction of its own, and the user may pause, switch the
mode, stop, decide or send a request between any two. `latest` is the last message or failure of the
session, named by its sequence number; a turn's executor is `driver`. Startup's passes run in the order
of `main.go`. `continued`, `halted` and `withdrawn` are history. Sources are due at any time.

### LearningOutbox and SkillLifecycle
`LearningOutbox` goes from a trigger, staged in the transaction that ends a turn, over the drains that
claim it, to the review with its idempotency key and the worker that runs it. `gate` is the
foreground gate: a turn that comes cancels the background review and waits for it. A drain that finds
a trigger claims it, enqueues the review and marks it processed, three statements; any may fail, and a
restart puts claimed triggers and running reviews back.

`SkillLifecycle` is one skill's row, its versions, and the candidates that would change it.
`decider[d]` is a call that takes several steps: a replay, an evaluation whose report comes back from
outside, a promotion by a person or by the authority policy, an archive by the curator. The gates of
a promotion (`RequireCurrentReplay`, `RequireCapabilityReview`, `RequireCurrentBehavioralEval`) are
reads before its transaction, so that edits, replays and reviews come between them. A package's content
is one of five, according to what a check or a gate sees in it.

### TeamRun, FileMutation, McpPool, BlobCollector
`TeamRun`: the executor of one run (`executor`, with the states it read), its child turns, the
decisions on their approvals, and the one handle in `s.teamRuns` through which CancelTeamRun
signals. Two executors of one run at once are left out.

`FileMutation`: the intent row, the disk and the receipt of each write of one file, under the path's
lock, beside an editor that takes no lock. Startup compares the disk with each dispatched intent.

`McpPool`: the pool's table (`pool.live`) and the entries as objects: an entry that has left the table
may still be in a caller's hands. The pool's lock and an entry's own lock are held for one action each.
A row of settings is what `serverIdentity` fingerprints of it and the timeout, which it leaves out; a save
changes one or the other.

`BlobCollector`: the store's blobs, the rows that refer to them, and the collector's runs with the
snapshot of their dry run; Apply and Restore move blobs one by one, between statements that claim and
settle the run. Blobs are numbered in the order of their references, which loses nothing, since only
a blob's presence matters. `databaseBlobReferences` reads several tables in several statements; here
they are one read.

## 4. Runs

Bounds are chosen per run so that the hazard the run is about can happen, and every other table is
kept minimal.

| run | question | bounds and why they are enough |
|---|---|---|
| Background | scheduler: cancelled stays quarantined, one generation at a time; budgets hold for real usage, rows do not deny calls. Goals: charged before acting; a stop is final, and ends the command; completion on passing gates | scheduler: two local calls (old and new cancellation, or one cut off beside the next) and a remote one in the same group, two probes with different epochs; two overlapping scopes, any two calls nearly exhaust a limit; every update may fail; a queue of one is full; one restart. Goals: two workers, since a third could do nothing the second cannot; nine actions, which is the shortest way from a plan to completion with one check, so that the budget runs out on every longer way; one attempt, hence a failed one cannot be tried again; one outside event, of nine kinds, at any point |
| SchedulerProgress | counters exact, no idle slot, no overtaking of aged tickets, every admitted call returns | one global slot, a local pair and a remote call, so one runs and two wait, blocked by their own resource or by the other; one tick ages the single rank difference away; one restart, since every call starts over after it; waiting is the scheduler's fault alone, since no time-out is fair |
| TaskWork | types; honest effect records, ownership, refinement of the ledger; one actor per step through resumed reviews and retries; nothing under an unreviewed plan; completion settles and rests on evidence; verifying means finished; doubt stops the run | two dependent steps, two runs, attempts, effects and plans; the states that lie in one of four focuses (`MCTaskWork`, an ACTION_CONSTRAINT): two effects on a step, of an old owner of a run and a new one with a crash between them, or of one run and the next; one run with a proposal, three generations and two attempts; two plans that are reviewed, revised or rejected; two steps to the end in an ordinary run and in a goal's, with one effect. A focus bounds the rows that are not its own, and a crash may come at any point of all but the third, also during startup |
| TurnStops | turns: a claimed effect holds the session; one attempt per approval; a stop wins, is settled by somebody, and means quiet where no decision on the turn was carried out (StopOvertaken shows the other case), but for commands nobody asks after; an unconfirmed stop keeps the session; the queue tells the truth; the rows follow `SessionHistory`. Retries: the allowance holds; nothing automatic that the user does not want. Learning: evidence reviewed once. Skills: promoted as gated | turns: two, so something can start around a lease; two goroutines, so an executor races a decider, an owner or the queue; one approval (asked for or authorized), one message (queued or steering), one command at a time, which a crash or a cancellation makes loose, since commands do not act on each other, one crash, also during startup. Retries: two workers on one row, two attempts, two requests and two crashes, so that a second request meets the first one's leftovers and a crash those of another. Learning: two triggers of one milestone, so that keys collide; two drains; one failure, preemption and restart; two reviewer revisions. Skills: one candidate of two revisions, two calls at once, five acts: propose, edit, evaluate, promote, and one that interferes |
| Services | the change is on record; no verdict on restored source; one answer, under one's own command and token; children once and in order; the last replacement and missing blobs are on record | proposals: from the approved proposal, three calls (Apply, and two that verify or review); from the applied one and from the tested one, two more calls, so that two reviews meet and a saved approval is taken up; in each, two files for a half-done batch, one edit, one stop, a second lease. Pool: two callers, three entries, one save, of what is fingerprinted or of the timeout. Teams: two tasks and one that takes the output of both, two at a time, two approvals, one restart. Files: three writes of two contents, one edit, one restart. Blobs: two blobs, two dry runs, two calls that apply or restore, one Put under way, one failure or stop |
| SchedulerSharedGroup, TaskInDoubt, TaskNotStarted, TurnPending, StopReplayed, StopOvertaken, PoolOrphans | (violation) see Findings | the smallest instance that shows each |

In Background, TurnStops and Services a behaviour belongs to one part, and the other parts do not move; a bound
that one part does not use is not constrained by it. The actors of different parts share names (for example
`c1`, `c2` are goroutines, workers, drains and deciders), so that one symmetry set serves all; no property tells
them apart, and no run with symmetry checks liveness.

SchedulerProgress and the scheduler's part of Background check deadlock freedom as such. Elsewhere, with
every counter at its bound or a task completed, nothing need be enabled, and the runs say so (in
Background by the step `Rests`).

## 5. Fairness

Only `SchedulerProgress` states fairness. Each call of `Do` is a goroutine that Go keeps scheduling,
so every step it can take by itself is weakly fair, as is the runtime's answer to a call: adapters
run under HTTP time-outs. Cancellation, deadlines, probes and restarts are not fair: nothing obliges
them to happen. The task engine has no fairness: it acts when called, and nobody is obliged to call. Nor has
`TurnLease`: a tool may hang and a database write fail. That a stop is settled is stated as a safety
property instead (`StopHasAnOwner`): as long as it is not, some call is under way that will look at
it, whichever of the owner and the executor came first. `StopEndsCommand` is of the same kind for goals:
when no call is under way any more, the command is not running.

## 6. Proofs

The modules `..._proofs` hold for every value of the constants that the named assumptions allow:
any numbers of requests, steps, workers, candidates and calls, natural bounds of any size. The bounds
on counters remain in the guards, as parameters.

*Scheduler.* Types and slot accounting first: the counters are cardinalities of the tickets that
hold a slot. Work conservation needs that every waiting ticket is blocked after each dispatch, which
the description of `dispatchLocked` by its result gives directly. Quarantine safety needs the epochs:
a probe holds an epoch not above the key's, so a cancellation after it makes it stale; the theorem
assumes that no two local profiles share a resource key, and the run SchedulerSharedGroup shows that
it needs to. One generation per runtime follows, of those whose connection did not break: a call holds its
slot or has left its key quarantined for as long as its runtime is busy with it. What is adrift is outside
the theorem, as it is outside the scheduler's knowledge. `LedgerHonest` holds because the only step that
lets a provider work for a call comes after the one that marks its row, and because a call that has not
begun has none.
`BudgetHeld` is about sums over the calls of a scope. The invariant is `BudgetInv`: what the rows count
(`Used`) fits the limit, what a call used is at most its reservation, and a reconciled row charges at
least what was used. A reservation is made only if it fits, and from then on a row's count stays or falls;
what was used is, call by call, at most what the row counts, also while a row that landed was reported as
failed. The prover cannot instantiate an induction theorem; that a sum over a finite set exists and what one
more member adds to it is therefore proved with the set of cardinalities for which it holds
(`NaturalsReached`, `SubsetsReached`, `SumsExist`), once, as lemmas on sums.

*Task engine.* Types come with `Linked`: rows refer to rows that exist, and numbering has no
holes. Small lemmas on which actions write which table (Writers, Moves) keep the proof of each
invariant to the actions that can disturb it. `NothingDenied`, `InFlightBelongsToOwner` and
`DoubtStopsTheRun` are proved through one inductive invariant: what was carried out has a record
that says so; what is in flight carries its run's token and generation; and, during startup, what
each statement so far has already done. `FollowsLedger` is a step simulation on top of it.
Completion on evidence, the one actor per step and the finished verifying task each rest on the
bookkeeping of step revisions: a running attempt is at its step's current revision or has lost its
authority.

*Turn lease.* The invariant is `TypeOK /\ CallsFit /\ LeaseIsOpen`. A stop wins because of what
holds before any turn ends: whoever holds the session was begun and has not completed or failed, and
so is every turn that was asked to stop (`LeaseIsOpen`). Since CompleteTurn and FailTurn close only
the turn that holds the session, and only without a stop request, and StopTurn accepts only that
turn, neither can overtake the other; recovery takes the session back for a turn that was asked to
stop, which is therefore unfinished too. `CallsFit` is what goroutines carry from one transaction to
the next: a call that has begun has a turn, and its result is one that the next write may store.
Calls and rows are separate arguments: `CallsMove` says that a step replaces one call by one that
fits, and the lemmas `...Rows` say what each transaction leaves behind. `OneAttempt` has an invariant
of its own, `OneActor`: a call that is at its tool or at its receipt is the only one there for its
approval, the claim it made still stands, and no such call is left when startup looks at the claims of
the last process. Most steps are made on behalf of no approval (`Hushed`); the seven that are have a
lemma each.

*What stops and the queue promise* (`TurnLeaseHolds_proofs`). Five invariants, each proved from the
ones before it.
- A claim holds the session (`ClaimHoldsLease`): a running turn has nothing undecided or in progress, a
  turn has at most one such approval, and while a call acts for the turn that has the session there is
  no other. So the receipt of one effect cannot let the turn go on under another.
- An unconfirmed stop keeps the session: turns begin in order and only the latest can have a stop to
  confirm. So when startup takes the session back for the latest such turn, it is the right one.
- A stop has an owner: a turn that runs has an executor until it is asked to stop, so that the stop finds
  somebody, and an executor that leaves unasked has given up the session, so that nobody asks it after
  that. This needs that a turn has one executor (`Registry`): its RunTurn, then one decision at a time.
- Stopped is quiet: as long as no decision on a turn was carried out, its RunTurn is the only call that
  can act for it, and only until it asks for an approval; whoever looks after its commands then does so
  when nobody is left to start another. With a decision this fails, as StopOvertaken shows. Of commands it
  speaks as far as the code can: those the tracker counts. A command that outlived a crash, or was cancelled
  by the tool and has not ended, may run under a confirmed stop (section 7).
- The queue tells the truth: the drain holds a message that may start or the one of its own turn, and
  while the row says running, what it is about to report has happened. A confirmed stop and a completion
  are never undone (`SettledStays`).

*The rows of a session tell its history* (`TheHistoryIsFollowed`). A step simulation on top of those
invariants, with one lemma for each kind of step (`AcquireBegins`, `TurnEnds`, `SettleStops`, ...,
`RecoveryReclaims`); `HistoryInv` joins them and adds `TruthInv`. Its two parts are what the simulation
needs beyond them: a turn that runs or waits for a decision has not ended, so that none ends twice
(`HeldIsOpen`); and what a call is about to report of an effect is so (`Truthful`), which for
the receipt of a tool that failed after its effect is not a matter of course. That recovery fits is where
the order of its passes counts: it may call an effect executed or not on the strength of the look alone,
because no call of the last process is left, and it takes the session back for the latest turn with an
unconfirmed stop only once nothing is in progress any more.

*Automatic continuation.* `AllowanceHeld` is not inductive, since a turn is charged when its row is
claimed and counted when it takes its lease: `Charged` says that what was continued was charged first,
and that a claimed row has an attempt to spare. `AutomaticIsWanted` needs that a pause and a session
without continuation are never overwritten (`Respected`), and that no source is younger than the latest
outcome while one that is the latest is unfinished (`Unsuperseded`). It is the comparison of the source
under the lease that makes the second worker, the late one and the one that slept over a request harmless.

*Goals.* The invariant adds to types and `ChargedBeforeActing` that a claimed goal is active or
stopping, that a worker about to charge has read a budget that was not used up, and that whoever ends
an action has decided on a state. Attempts need an argument: the compare-and-set looks only at
the number of actions, and since an attempt is an action, the attempts it read are still the attempts
there are. Lemma `HandMoves` says once what moving one hand does; the action properties follow from
the invariant: a stopped goal has no claim, so that no action is left to end, and only an end that
looks at the gates again may complete a goal.
`StopEndsCommand` has an invariant of its own, `CommandInv`. A command that runs has its effect
launched, and a run and a checkpoint that name its operation; its job is unregistered only while the
worker who launched it is under way, and he has the claim; and whoever ends a goal goes on to cancel
its command, or was cut off on the way. So a goal that ended has a command only while somebody is
about to cancel it: the stop that came between the launch and the record of the job finds a claim,
and the end of that action is what ends the goal.

*Skills.* A gate is passed long before the transaction that relies on it, and the transaction reads no
gate again. What carries it over is `Kept`: no step takes back a completed replay, a passing evaluation
or an approval of a revision, none changes content or kind under the same revision, and a promoted
candidate does not change. So a call's own record of the gates it passed (`PassedGates`) stays true
whatever the others do, and at the promotion the revision it saw is the revision there is. One write
could take something back, the end of a replay: `HasReplay` and `SameReplay` say that a call writes
only its own row, which was running. The theorem is about promotions that name a revision; with 0 for "whatever
there is" no such thing holds (section 7). `VersionsChain` has no run of its own; TLC found it to
hold with two candidates before it was proved.

*Services* (`Services_proofs`). The six modules share no state, and each has an invariant of its own,
which contains its types where the property needs them; the six type invariants are theorems too.
- Files: whoever is past planning holds the path's lock and his row says where he is; whoever replaced
  the file last left his own text in it, and his row is dispatched or later.
- Learning: the review a worker has claimed is running and nobody else's, and a trigger that counts as
  processed has a review under its key.
- Pool: the entry a caller goes to was made for his command and token, and from the launch on he holds it, so that
  a caller who finds another process in it can only be one who comes later.
- Teams: a child is alive only under the executor that waits for it, or when nothing is queued any more; a
  cancellation leaves nothing queued before it signals. So no second executor can start what still runs.
- Blobs: every missing blob is in the quarantine of a run whose row says so, and nobody working on that
  run has lost sight of it. A run has at most one mover, and what an application may move contains no
  blob that was referred to before its snapshot.
- Proposals: one call at a time has the proposal in hand, which is then "applying". What it wrote is no
  longer in its list of files to write, or still in its list of files to undo; so a call that reports a
  clean file set leaves one, and one that cannot says so in its effect's receipt, unless the effect was put in
  doubt before it came to write one. An effect once dispatched is never forgotten.
  As for the verdicts (`VerdictInv`), a call about to have the proposal called tested or verified has
  looked at the files under the root lock and still has it, and a rollback takes that lock for every
  file it restores.

Every safety invariant, action property and refinement of a passing run is a theorem. Only model-checked:
`EveryCallReturns`, which is liveness under fairness; and the seven violation runs, of which each is a
counterexample. The type invariants of the scheduler, of turns, of goals and of the services are proved
and in no run, since an invariant that is proved from the same actions needs no run of its own; those of
`LearningOutbox` and `SkillLifecycle` were checked in instances of their own before, those of the other
services together. The invariants of the stops and of the queue were checked as invariants, on an instance
of one turn, three goroutines, an approval, a message and a restart, before they were proved.

## 7. Findings

Each of these is a run that TLC finds violated; `PROJECT.json` quotes the documentation it contradicts.

* **SchedulerSharedGroup.** Two local profiles of one `resource_group` share a quarantine key, and an
  idle answer of one runtime lifts the quarantine of the other's cancelled call.
* **TaskInDoubt.** A failed attempt may leave its effect dispatched; after a restart it is uncertain,
  yet a saved review of a later run resumes the task without reconciling it.
* **TaskNotStarted.** Reconciliation reads the absence of a job as "not started" while the caller that
  holds the dispatch is still about to create the job.
* **TurnPending.** Recovery hands a claimed write that did not happen back as pending, to be approved
  again, and in the same pass takes the session away from its turn; the decision is then refused
  because "approval turn is no longer active".
* **StopReplayed.** A turn is asked to stop and the process stops first. Recovery records the turn as
  failed and schedules the failure before it takes the session back for the stop; once the owner has
  cleared the stop, a worker continues the turn by itself. Without the crash a stop leaves nothing to
  continue.
* **StopOvertaken.** An executor that leaves gives up its entry and the lock before it looks for a stop.
  If in between the owner decides, which registers the next executor, and then stops the turn, the one
  that leaves settles that stop as its own (`turn_control.go:75`, `:79`; unlike `:191` it does not ask
  whether anybody else is registered): the turn is called stopped, and the session is free, while its
  next executor is in its loop or at its tool. It takes three goroutines. `StoppedIsQuiet` says what a confirmed
  stop is proof of all
  the same.
* **PoolOrphans.** A caller fetches an entry, the sweeper, a save or the shutdown drops it from the table
  and closes it before the caller locks it, and the caller starts a process in it that nothing closes.

The models reach other states that a reader should know of. They have no run.

* Inference: rows left reserved by a crash are never reset and count against their scopes
  (`scheduler.go:104`). A local call that fails with an error other than its context's (the stream breaks,
  is not understood, or its reader refuses it, `openai.go:271`-`314`) releases its slot although its runtime
  may still generate (`scheduler.go:163`-`167`), and the next call is sent beside it: `Disconnect`, the
  exception in `LocalExclusive`. A handoff note says that local resources serialize at one request.
* Tasks: failing a step takes a completed task back to paused (`service.go:369`, against `:203`).
  Replanning under a live run makes the task ready, and once that run's lease expires it can be
  neither recovered nor followed by a new run until a restart (`service.go:268`).
* Proposals: two concurrent reviews may record an approval and a rejection. `apply.go:116` drops the error of
  ObserveEffect: if the run was interrupted while a batch was written, a failed apply may leave the change
  in a file under an effect in doubt, with no receipt that says what the rollback left. A crash while applying
  leaves the proposal "applying", one after a recorded rejection leaves it waiting, for ever. A wait
  that is cancelled leaves its effect dispatched.
* Goals: `InterruptsAtRest` does not hold, although `goal.go:403` asks for it: the goal may be
  claimed again between the read and the pause. A snapshot read before the claim is acted on,
  at the price of an action, when another worker has done the same meanwhile. A finish that is fenced
  returns without cancelling its command. An effect that is reconciled as not started while its launch
  is pending leaves the command out of Stop's reach, and a Stop that is cut off leaves it running until
  Stop is repeated.
* Turns: "A restart is not evidence that an external command/effect terminated" (`turn_control.go:18`), but
  startup closes the rows of jobs in progress (`RecoverInterruptedJobs`), which `finishStoppedTurn` reads as
  done, and the tracker starts empty. So a stop that is settled after a restart may say "stopped" while a
  command of the turn still runs. The same holds of a command cancelled by the tool, which `runtool.go:395` marks
  as finished although, as the comment after it says, it was only asked to end.
  `blockContinuation` frees the session without looking for a stop, so a turn stopped just
  before has given up its session when its stop is settled; `UnconfirmedKeepsLease` excepts it.
* Retries: the limit pauses a row exactly as the user does, and nothing but the deletion of the session
  ends a pause (`retry.go:40`, `:44`, `service.go:805`). A new request resets the attempts, as
  `retry.go:14` says, but the next failure is not scheduled, so a session that once reached its limit is
  never continued again.
* Teams: `CancelledRunStays` does not hold (`team.go:641`-`661`): the final updates do not look at
  the state, nor does the one that goes back to awaiting when the run is completed or running. There is
  one handle per run, so that a cancellation reaches the last who registered. Dependents of a task that
  was blocked last stay queued (against the comment at `team.go:617`), as do the queued tasks of a run
  that awaited an approval over a restart.
* Pool: a caller with an old row re-creates a process under old settings after a save has closed it. The comment
  at `pool.go:54` promises a new process to whoever edits "the command, the token or the timeout", but
  `serverIdentity` leaves the timeout out: between the commit of a save of the timeout and its `CloseServer`, a
  caller with the new row is answered by the process started under the old one. `AnsweredOnceUnderOwnSettings`
  claims the command and the token only.
* Files: of two writes A to B, whose receipt failed, and back to A, a restart records the first as
  "replacement did not commit". An intent whose dispatch failed stays planned.
* Learning: a new reviewer revision between a crash and the second drain enqueues a second review. The
  key leaves out the kind of trigger. After a failed write a trigger stays "processing" until a
  restart. A preemption between the candidate and its promotion completes the review without the
  promotion.
* Skills: `EvaluatedAsItIs` does not hold, against `behavioral.go:79`: a report names no revision and
  is bound to the current one. Nor does `CuratorArchivesWhatItSaw`, against `authority.go:220`:
  neither version nor pin is looked at again. A promotion with expected revision 0 may promote an edit
  whose gates nobody checked. A pending improvement re-activates an archived skill, which `service.go:620`
  says must come back as a candidate. An authority row that was running stays so after a crash.
* Blobs: `ReferencedIsStored` does not hold, against `blob/store.go:18`: a blob that Put has found may
  be moved to the quarantine before the reference to it is committed. A stop while blobs are moved
  leaves the run "applying", which neither Apply nor Restore accepts.

## 8. Not modelled

The components of `PROJECT.json` give the reasons one by one: parts still in the plan; pure
transformations (prompts, context packing, retrieval, parsing, patches); drivers of outside programs whose
state lives there (browser, desktop, media, terminal, Discord); handlers that decode, authorize and
render (`web`); and harnesses that only measure. These are most of the 82,000 lines of the
repository: some 22,000 lines of HTTP, pages, tools and adapters keep no state between two calls, and
the tables they show belong to the modules above. That is why the map covers a small share of all lines, and nearly
all of the code in which an order of steps matters.

Of the agent, the deletion of idle sessions is left out. Of skills, new and forked ones, the rollback of an authority action (a candidate
like another) and rules of provenance; of files, deletions; of teams, two executors of one run; of the
pool, HTTP servers. A goal's command is taken to end with the process that launched it; one that
outlives a crash is outside `StopEndsCommand`. In `TaskEngine` an effect is observed by who carried it out,
while a handler (`web/tasks.go`) lets a caller observe it earlier. In the modelled
parts, wording, identifiers, timestamps, authentication
and the content of criteria, packets and artifacts are left out, since no modelled guard tells them
apart. A read of several statements is one action where nothing can come between them that matters to
what is read; where it can, they are several.
