------------------------- MODULE InferenceScheduler -------------------------
(***************************************************************************)
(* Admission of model requests: inference.Scheduler.Do with its durable    *)
(* usage ledger, and the idle probe (providers.ConfirmRuntimeIdle) that    *)
(* lifts the quarantine of a local runtime.                                *)
(*                                                                         *)
(* Every request is one call of Do and one ledger row.  An action is one   *)
(* critical section of Scheduler.mu or one SQL statement: the store holds  *)
(* a single connection, so a statement or a transaction is one step.       *)
(* Time appears only as the aging of waiting tickets (Tick).               *)
(***************************************************************************)
EXTENDS Integers, FiniteSets, FiniteSetsExt

CONSTANTS
  Requests,      \* calls of Scheduler.Do, one ledger row each
  Profiles,      \* provider profiles: the runtimes that requests are sent to
  LocalProfiles, \* the profiles on a loopback host
  Keys,          \* resource keys: local:<url>, remote:<id> or group:<name>
  Probers,       \* goroutines inside ConfirmRuntimeIdle
  Scopes,        \* budget scopes: an owner, or a (session, turn) pair
  ProfileOf,     \* ProfileOf[q]: the profile request q is sent to
  KeyOf,         \* KeyOf[p]: inferenceResource(p)
  Rank,          \* Rank[q]: priorityRank, 0 is foreground
  Cost,          \* Cost[q]: prompt estimate plus requested output
  ScopesOf,      \* ScopesOf[q]: the scopes whose limit applies to q
  Budget,        \* Budget[s]: the token limit of scope s
  GlobalLimit,   \* Scheduler.globalLimit, 8 in the code
  RemoteLimit,   \* slots of a remote resource, 4 in the code
  QueueLimit,    \* waiting tickets of a local resource, 64 in the code
  AgingTicks,    \* ticks in one agingInterval
  FaultyRows,    \* bound: the requests whose ledger updates may fail
  MaxWait,       \* bound: ticks counted for a waiting ticket, enough to age out every rank
  MaxRestarts    \* bound: restarts of the process

ASSUME RequestsAssumption == /\ IsFiniteSet(Requests)
                             /\ ProfileOf \in [Requests -> Profiles]
                             /\ Rank \in [Requests -> 0..3]
                             /\ Cost \in [Requests -> Nat \ {0}]
                             /\ ScopesOf \in [Requests -> SUBSET Scopes]
ASSUME ProfilesAssumption == LocalProfiles \subseteq Profiles /\ KeyOf \in [Profiles -> Keys]
ASSUME LimitsAssumption == /\ GlobalLimit \in Nat \ {0}
                           /\ RemoteLimit \in Nat \ {0}
                           /\ QueueLimit \in Nat \ {0}
                           /\ AgingTicks \in Nat \ {0}
                           /\ MaxRestarts \in Nat /\ MaxWait \in Nat
                           /\ \A q \in Requests : Rank[q] * AgingTicks <= MaxWait
                           /\ Budget \in [Scopes -> Nat]

VARIABLES
  pc,             \* pc[q]: where the call of Do for q stands
  ledger,         \* ledger[q]: state of q's row in inference_usage_ledger
  charged,        \* charged[q]: charged tokens of a reconciled row
  waiting,        \* Scheduler.waiting, as a set (seq keeps its order)
  granted,        \* the tickets with ticket.granted
  seq,            \* seq[q]: ticket.seq
  sequence,       \* Scheduler.sequence
  waited,         \* waited[q]: ticks since ticket.queuedAt
  globalActive,   \* Scheduler.globalActive
  resourceActive, \* Scheduler.resourceActive
  quarantined,    \* the keys in Scheduler.quarantined
  epoch,          \* Scheduler.quarantineEpoch, 0 when absent
  probe,          \* probe[b]: what ConfirmRuntimeIdle holds
  busy,           \* requests a local runtime generates for, called or cancelled (its own state)
  adrift,         \* requests it generates for although the call's connection broke
  spent,          \* spent[q]: tokens the provider really used for q (history)
  restarts

memory == <<waiting, granted, seq, sequence, waited, globalActive, resourceActive,
            quarantined, epoch>>
rows == <<ledger, charged>>
runtime == <<busy, adrift, spent>>
vars == <<pc, memory, rows, runtime, probe, restarts>>

Stages == {"idle", "admitted", "waiting", "giveback", "refused", "ready", "unmarked",
           "inflight", "settling", "doubtful", "done", "lost"}
RowStates == {"none", "reserved", "dispatched", "reconciled", "cancelled_before_dispatch",
              "uncertain"}
NoProbe == [phase |-> "off"]
Probes == [phase: {"polling", "idle"}, profile: LocalProfiles, epoch: Nat]

Local(q) == ProfileOf[q] \in LocalProfiles
Key(q) == KeyOf[ProfileOf[q]]
Limit(q) == IF Local(q) THEN 1 ELSE RemoteLimit

\* Mutant: the aged rank is not clamped at 0.
EffectiveUnclamped(q) == Rank[q] - (waited[q] \div AgingTicks)

\* effectivePriority: a rank drops by one per aging interval waited, never below 0.
Effective(q) == LET aged == Rank[q] - (waited[q] \div AgingTicks)
                IN  IF aged < 0 THEN 0 ELSE aged
\* The order in which dispatchLocked considers tickets.
Before(a, b) == \/ Effective(a) < Effective(b)
                \/ Effective(a) = Effective(b) /\ seq[a] < seq[b]

---------------------------------------------------------------------------
(***************************************************************************)
(* dispatchLocked.  Its loop takes the first ticket, in the order Before,  *)
(* that is not quarantined and finds a global and a resource slot free.    *)
(* Slots are only taken in the loop, so the tickets it grants are the set  *)
(* G in which each ticket finds slots left by the earlier members of G.    *)
(* W, active and resource are the queue and the counters it starts from.   *)
(***************************************************************************)
Grants(W, active, resource, G) ==
  \A q \in W : q \in G <=>
    /\ Key(q) \notin quarantined'
    /\ active + Cardinality({g \in G : Before(g, q)'}) < GlobalLimit
    /\ resource[Key(q)] + Cardinality({g \in G : Before(g, q)' /\ Key(g) = Key(q)}) < Limit(q)

DispatchLocked(W, held, active, resource) ==
  \E G \in SUBSET W :
    /\ Grants(W, active, resource, G)
    /\ waiting' = W \ G
    /\ granted' = held \cup G
    /\ globalActive' = active + Cardinality(G)
    /\ resourceActive' = [k \in Keys |-> resource[k] + Cardinality({g \in G : Key(g) = k})]

\* Mutant: release forgets that a quarantined ticket holds no slot.
ReleaseTwice(q) ==
  /\ UNCHANGED <<seq, sequence, waited, quarantined, epoch>>
  /\ DispatchLocked(waiting, granted \ {q}, globalActive - 1,
                    [resourceActive EXCEPT ![Key(q)] = @ - 1])

\* Mutant: release does not look for the next ticket.
ReleaseSilently(q) ==
  /\ UNCHANGED <<waiting, seq, sequence, waited, quarantined, epoch>>
  /\ granted' = granted \ {q}
  /\ globalActive' = IF q \in granted THEN globalActive - 1 ELSE globalActive
  /\ resourceActive' = IF q \in granted THEN [resourceActive EXCEPT ![Key(q)] = @ - 1]
                                         ELSE resourceActive

\* release: gives the slot back if the ticket still holds one, then dispatches.
Release(q) ==
  /\ UNCHANGED <<seq, sequence, waited, quarantined, epoch>>
  /\ IF q \in granted
       THEN DispatchLocked(waiting, granted \ {q}, globalActive - 1,
                           [resourceActive EXCEPT ![Key(q)] = @ - 1])
       ELSE DispatchLocked(waiting, granted, globalActive, resourceActive)

\* Mutant: quarantine errs its own waiters but does not dispatch the others.
QuarantineSilently(q) ==
  /\ UNCHANGED <<seq, sequence, waited>>
  /\ quarantined' = quarantined \cup {Key(q)}
  /\ epoch' = [epoch EXCEPT ![Key(q)] = seq[q]]
  /\ waiting' = {w \in waiting : Key(w) # Key(q)}
  /\ granted' = granted \ {q}
  /\ globalActive' = globalActive - 1
  /\ resourceActive' = [resourceActive EXCEPT ![Key(q)] = @ - 1]

\* quarantine: gives the slot back, closes the key under the ticket's sequence
\* number and hands every waiting ticket of that key an error.
Quarantine(q) ==
  /\ UNCHANGED <<seq, sequence, waited>>
  /\ quarantined' = quarantined \cup {Key(q)}
  /\ epoch' = [epoch EXCEPT ![Key(q)] = seq[q]]
  /\ LET kept == {w \in waiting : Key(w) # Key(q)}
     IN  IF q \in granted
           THEN DispatchLocked(kept, granted \ {q}, globalActive - 1,
                               [resourceActive EXCEPT ![Key(q)] = @ - 1])
           ELSE DispatchLocked(kept, granted, globalActive, resourceActive)

Goto(q, stage) == pc' = [pc EXCEPT ![q] = stage]
SetRow(q, state) == ledger' = [ledger EXCEPT ![q] = state]

---------------------------------------------------------------------------
(* Scheduler.Do, step by step                                              *)

\* Mutant: a row in doubt no longer counts.
CountedWithoutDoubt(q) == CASE ledger[q] = "reconciled" -> charged[q]
                            [] ledger[q] \in {"reserved", "dispatched"} -> Cost[q]
                            [] OTHER -> 0

\* What a row counts against its scopes: the charge once reconciled, the
\* reservation while it is live or in doubt.
Counted(q) == CASE ledger[q] = "reconciled" -> charged[q]
                [] ledger[q] \in {"reserved", "dispatched", "uncertain"} -> Cost[q]
                [] OTHER -> 0
ChargedTo(s) == {q \in Requests : s \in ScopesOf[q]}
Used(s) == SumFunctionOnSet([q \in Requests |-> Counted(q)], ChargedTo(s))
Fits(q) == \A s \in ScopesOf[q] : Used(s) + Cost[q] <= Budget[s]

\* reserve: the check of both limits and the insert are one transaction.
Reserve(q) ==
  /\ pc[q] = "idle" /\ Fits(q)
  /\ Goto(q, "admitted") /\ SetRow(q, "reserved")
  /\ UNCHANGED <<memory, charged, runtime, probe, restarts>>

\* A budget is exhausted, or the transaction fails.
ReserveRejected(q) ==
  /\ pc[q] = "idle"
  /\ Goto(q, "done")
  /\ UNCHANGED <<memory, rows, runtime, probe, restarts>>

QueueFull(q) == Local(q) /\ Cardinality({w \in waiting : Key(w) = Key(q)}) >= QueueLimit

Enqueue(q) ==
  /\ pc[q] = "admitted" /\ Key(q) \notin quarantined /\ ~QueueFull(q)
  /\ Goto(q, "waiting")
  /\ sequence' = sequence + 1
  /\ seq' = [seq EXCEPT ![q] = sequence + 1]
  /\ waited' = [waited EXCEPT ![q] = 0]
  /\ UNCHANGED <<quarantined, epoch>>
  /\ DispatchLocked(waiting \cup {q}, granted, globalActive, resourceActive)
  /\ UNCHANGED <<rows, runtime, probe, restarts>>

EnqueueRefused(q) ==
  /\ pc[q] = "admitted" /\ (Key(q) \in quarantined \/ QueueFull(q))
  /\ Goto(q, "refused")
  /\ UNCHANGED <<memory, rows, runtime, probe, restarts>>

\* The select finds t.ready closed by a grant ...
TakeGrant(q) ==
  /\ pc[q] = "waiting" /\ q \in granted
  /\ Goto(q, "ready")
  /\ UNCHANGED <<memory, rows, runtime, probe, restarts>>

\* ... or closed by a quarantine, with t.err set.
TakeRefusal(q) ==
  /\ pc[q] = "waiting" /\ q \notin granted /\ q \notin waiting
  /\ Goto(q, "refused")
  /\ UNCHANGED <<memory, rows, runtime, probe, restarts>>

\* The caller's context ends or the queue deadline passes.  cancelWaiting
\* removes a ticket that still waits; otherwise a grant or a quarantine raced
\* it and the slot is given back in a second critical section.
Withdraw(q) ==
  /\ pc[q] = "waiting"
  /\ Goto(q, IF q \in waiting THEN "refused" ELSE "giveback")
  /\ waiting' = waiting \ {q}
  /\ UNCHANGED <<granted, seq, sequence, waited, globalActive, resourceActive,
                 quarantined, epoch, rows, runtime, probe, restarts>>

GiveBack(q) ==
  /\ pc[q] = "giveback"
  /\ Goto(q, "refused") /\ Release(q)
  /\ UNCHANGED <<rows, runtime, probe, restarts>>

\* finishBeforeDispatch: a failed update is only observed.
FinishBeforeDispatch(q) ==
  /\ pc[q] = "refused"
  /\ Goto(q, "done")
  /\ \/ ledger[q] = "reserved" /\ SetRow(q, "cancelled_before_dispatch")
     \/ q \in FaultyRows /\ UNCHANGED ledger
  /\ UNCHANGED <<memory, charged, runtime, probe, restarts>>

\* markDispatched, then the provider call.  From here the provider works for q.
MarkDispatched(q) ==
  /\ pc[q] = "ready" /\ ledger[q] = "reserved"
  /\ Goto(q, "inflight") /\ SetRow(q, "dispatched")
  /\ busy' = IF Local(q) THEN busy \cup {q} ELSE busy
  /\ \E n \in 1..Cost[q] : spent' = [spent EXCEPT ![q] = n]
  /\ UNCHANGED <<memory, charged, adrift, probe, restarts>>

\* The update fails, for instance because the context ended; it may have landed.
MarkFails(q) ==
  /\ pc[q] = "ready" /\ q \in FaultyRows
  /\ Goto(q, "unmarked")
  /\ \/ ledger[q] = "reserved" /\ SetRow(q, "dispatched")
     \/ UNCHANGED ledger
  /\ UNCHANGED <<memory, charged, runtime, probe, restarts>>

ReleaseUnmarked(q) ==
  /\ pc[q] = "unmarked"
  /\ Goto(q, "doubtful") /\ Release(q)
  /\ UNCHANGED <<rows, runtime, probe, restarts>>

\* The provider call returns, with an answer or with an error, and a local
\* runtime has ended its generation.
Answer(q) ==
  /\ pc[q] = "inflight"
  /\ Goto(q, "settling") /\ Release(q)
  /\ busy' = busy \ {q}
  /\ UNCHANGED <<rows, adrift, spent, probe, restarts>>

\* A local call fails for another reason than its context: the stream broke, was
\* not understood, or its reader refused it.  Do releases the slot as it does
\* for an answer, although the runtime may go on generating.
Disconnect(q) ==
  /\ pc[q] = "inflight" /\ q \in busy
  /\ Goto(q, "settling") /\ Release(q)
  /\ busy' = busy \ {q} /\ adrift' = adrift \cup {q}
  /\ UNCHANGED <<rows, spent, probe, restarts>>

\* Mutant: a cancelled local call frees its slot like any other call.
AbandonWithoutQuarantine(q) ==
  /\ pc[q] = "inflight" /\ Local(q)
  /\ Goto(q, "settling") /\ Release(q)
  /\ UNCHANGED <<rows, runtime, probe, restarts>>

\* A local call ends because its context was cancelled or timed out: the
\* runtime may still be generating, so its resource is quarantined.
Abandon(q) ==
  /\ pc[q] = "inflight" /\ Local(q)
  /\ Goto(q, "settling") /\ Quarantine(q)
  /\ UNCHANGED <<rows, runtime, probe, restarts>>

\* reconcile: charges the reported usage, or the reservation if none is reported.
Reconcile(q) ==
  /\ pc[q] = "settling" /\ ledger[q] = "dispatched"
  /\ Goto(q, "done") /\ SetRow(q, "reconciled")
  /\ \E n \in {spent[q], Cost[q]} : charged' = [charged EXCEPT ![q] = n]
  /\ UNCHANGED <<memory, runtime, probe, restarts>>

ReconcileFails(q) ==
  /\ pc[q] = "settling" /\ q \in FaultyRows
  /\ Goto(q, "doubtful")
  /\ UNCHANGED <<memory, rows, runtime, probe, restarts>>

\* Mutant: a request in doubt is settled like one that was never sent.
MarkCancelled(q) ==
  /\ pc[q] = "doubtful"
  /\ Goto(q, "done")
  /\ IF ledger[q] \in {"reserved", "dispatched"} THEN SetRow(q, "cancelled_before_dispatch")
                                                ELSE UNCHANGED ledger
  /\ UNCHANGED <<memory, charged, runtime, probe, restarts>>

\* markUncertain: a failed update is only observed.
MarkUncertain(q) ==
  /\ pc[q] = "doubtful"
  /\ Goto(q, "done")
  /\ \/ ledger[q] \in {"reserved", "dispatched"} /\ SetRow(q, "uncertain")
     \/ q \in FaultyRows /\ UNCHANGED ledger
  /\ UNCHANGED <<memory, charged, runtime, probe, restarts>>

---------------------------------------------------------------------------
(* The idle probe, the runtime, time and the process                       *)

\* ConfirmRuntimeIdle reads the epoch before it asks the runtime anything.
StartProbe(b, p) ==
  /\ probe[b] = NoProbe
  /\ probe' = [probe EXCEPT ![b] = [phase |-> "polling", profile |-> p,
                                    epoch |-> epoch[KeyOf[p]]]]
  /\ UNCHANGED <<pc, memory, rows, runtime, restarts>>

\* A poll of /slots finds every slot of that profile's runtime idle.
ObserveIdle(b) ==
  /\ probe[b].phase = "polling"
  /\ \A q \in busy \cup adrift : ProfileOf[q] # probe[b].profile
  /\ probe' = [probe EXCEPT ![b].phase = "idle"]
  /\ UNCHANGED <<pc, memory, rows, runtime, restarts>>

\* Mutant: an idle answer releases whatever quarantine it finds.
ReleaseAny(b) ==
  /\ probe[b].phase = "idle"
  /\ probe' = [probe EXCEPT ![b] = NoProbe]
  /\ LET k == KeyOf[probe[b].profile]
     IN  /\ quarantined' = quarantined \ {k}
         /\ epoch' = [epoch EXCEPT ![k] = 0]
         /\ UNCHANGED <<seq, sequence, waited>>
         /\ DispatchLocked(waiting, granted, globalActive, resourceActive)
  /\ UNCHANGED <<pc, rows, runtime, restarts>>

\* ReleaseQuarantineIfCurrent: refused when the epoch is no longer the one read.
ReleaseIfCurrent(b) ==
  /\ probe[b].phase = "idle"
  /\ probe' = [probe EXCEPT ![b] = NoProbe]
  /\ LET k == KeyOf[probe[b].profile]
     IN  IF epoch[k] # probe[b].epoch
           THEN UNCHANGED memory
           ELSE /\ quarantined' = quarantined \ {k}
                /\ epoch' = [epoch EXCEPT ![k] = 0]
                /\ UNCHANGED <<seq, sequence, waited>>
                /\ DispatchLocked(waiting, granted, globalActive, resourceActive)
  /\ UNCHANGED <<pc, rows, runtime, restarts>>

\* The three seconds of the probe pass without an idle answer.
GiveUpProbe(b) ==
  /\ probe[b].phase = "polling"
  /\ probe' = [probe EXCEPT ![b] = NoProbe]
  /\ UNCHANGED <<pc, memory, rows, runtime, restarts>>

\* The local runtime stops generating for q, on its own schedule.
RuntimeStops(q) ==
  /\ q \in busy \cup adrift
  /\ busy' = busy \ {q} /\ adrift' = adrift \ {q}
  /\ UNCHANGED <<pc, memory, rows, spent, probe, restarts>>

\* Time passes for every waiting ticket; past its last rank it changes nothing.
Tick ==
  /\ \E q \in waiting : waited[q] < MaxWait
  /\ waited' = [q \in Requests |->
                  IF q \notin waiting THEN 0
                  ELSE IF waited[q] < MaxWait THEN waited[q] + 1 ELSE waited[q]]
  /\ UNCHANGED <<pc, waiting, granted, seq, sequence, globalActive, resourceActive, quarantined,
                 epoch, rows, runtime, probe, restarts>>

\* The process ends at any point and New runs: the scheduler's memory is gone,
\* rows left dispatched become uncertain, rows left reserved stay as they are.
\* A call is lost when it was under way or left its runtime generating.
Restart ==
  /\ restarts < MaxRestarts
  /\ restarts' = restarts + 1
  /\ pc' = [q \in Requests |->
              IF pc[q] = "idle" \/ (pc[q] = "done" /\ q \notin busy \cup adrift)
                THEN pc[q] ELSE "lost"]
  /\ waiting' = {} /\ granted' = {}
  /\ seq' = [q \in Requests |-> 0] /\ sequence' = 0
  /\ waited' = [q \in Requests |-> 0]
  /\ globalActive' = 0 /\ resourceActive' = [k \in Keys |-> 0]
  /\ quarantined' = {} /\ epoch' = [k \in Keys |-> 0]
  /\ probe' = [b \in Probers |-> NoProbe]
  /\ ledger' = [q \in Requests |-> IF ledger[q] = "dispatched" THEN "uncertain" ELSE ledger[q]]
  /\ UNCHANGED <<charged, runtime>>

Init ==
  /\ pc = [q \in Requests |-> "idle"]
  /\ ledger = [q \in Requests |-> "none"]
  /\ charged = [q \in Requests |-> 0]
  /\ waiting = {} /\ granted = {}
  /\ seq = [q \in Requests |-> 0] /\ sequence = 0
  /\ waited = [q \in Requests |-> 0]
  /\ globalActive = 0 /\ resourceActive = [k \in Keys |-> 0]
  /\ quarantined = {} /\ epoch = [k \in Keys |-> 0]
  /\ probe = [b \in Probers |-> NoProbe]
  /\ busy = {} /\ adrift = {} /\ spent = [q \in Requests |-> 0]
  /\ restarts = 0

\* What Do does next on its own, whatever its caller's context does.
Advance(q) ==
  \/ Enqueue(q) \/ EnqueueRefused(q)
  \/ TakeGrant(q) \/ TakeRefusal(q) \/ GiveBack(q) \/ FinishBeforeDispatch(q)
  \/ MarkDispatched(q) \/ MarkFails(q) \/ ReleaseUnmarked(q)
  \/ Answer(q) \/ Reconcile(q) \/ ReconcileFails(q) \/ MarkUncertain(q)

Probe(b) == \/ \E p \in LocalProfiles : StartProbe(b, p)
            \/ ObserveIdle(b) \/ ReleaseIfCurrent(b) \/ GiveUpProbe(b)

Next == \/ \E q \in Requests : \/ Reserve(q) \/ ReserveRejected(q) \/ Advance(q)
                               \/ Withdraw(q) \/ Abandon(q)
                               \/ Disconnect(q) \/ RuntimeStops(q)
        \/ \E b \in Probers : Probe(b)
        \/ Tick \/ Restart

Spec == Init /\ [][Next]_vars

\* A goroutine inside Do keeps running, and a provider call ends (its client
\* has timeouts).  Nothing is assumed of deadlines, cancellation or probes.
FairSpec == Spec /\ \A q \in Requests : WF_vars(Advance(q))
---------------------------------------------------------------------------
(* Properties                                                              *)

\* Type invariant: every variable holds a value of the program's types.
TypeOK ==
  /\ pc \in [Requests -> Stages]
  /\ ledger \in [Requests -> RowStates] /\ charged \in [Requests -> Nat]
  /\ waiting \subseteq Requests /\ granted \subseteq Requests
  /\ seq \in [Requests -> Nat] /\ sequence \in Nat
  /\ waited \in [Requests -> Nat]
  /\ globalActive \in Nat /\ resourceActive \in [Keys -> Nat]
  /\ quarantined \subseteq Keys /\ epoch \in [Keys -> Nat]
  /\ probe \in [Probers -> Probes \cup {NoProbe}]
  /\ busy \subseteq Requests /\ adrift \subseteq Requests /\ spent \in [Requests -> Nat]
  /\ restarts \in Nat

Holding(k) == {q \in granted : Key(q) = k}

\* The slot counters count exactly the tickets that hold a slot, and the
\* process-wide ceiling is never exceeded, through grants that race a
\* cancellation, quarantines and failed dispatch marks.
SlotsAccounted ==
  /\ globalActive = Cardinality(granted) /\ globalActive <= GlobalLimit
  /\ \A k \in Keys : resourceActive[k] = Cardinality(Holding(k))

\* No slot is left idle while a ticket waits that could take it: every
\* critical section that can free capacity dispatches before it unlocks.
WorkConserving ==
  \A w \in waiting : \/ globalActive >= GlobalLimit
                     \/ resourceActive[Key(w)] >= Limit(w)

\* A local resource stays quarantined for as long as its runtime still
\* generates for a request whose call was cancelled: no probe that read an
\* older epoch, and no probe of another runtime, lifts the quarantine.
CancelledStaysQuarantined ==
  \A q \in busy : pc[q] \notin {"inflight", "lost"} => Key(q) \in quarantined

\* A local runtime generates for two requests of this process at once only when
\* the connection of one of them broke, which Do takes for an end of the
\* generation (scheduler.go:163-167): cancellation, deadlines, probes and grants
\* that race them never bring a second generation about.
LocalExclusive ==
  \A q, r \in {g \in busy \cup adrift : pc[g] # "lost"} :
    ProfileOf[q] = ProfileOf[r] /\ q # r => q \in adrift \/ r \in adrift

\* What providers really used for a scope never exceeds its limit, whatever
\* update failed and wherever the process stopped, given that a call uses at
\* most its reservation.
BudgetHeld == \A s \in Scopes : SumFunctionOnSet(spent, ChargedTo(s)) <= Budget[s]

\* A row that says the provider was never called is telling the truth.
LedgerHonest ==
  \A q \in Requests : ledger[q] \in {"none", "reserved", "cancelled_before_dispatch"} => spent[q] = 0

\* Aging prevents starvation: once a ticket has waited out its rank, no ticket
\* that joined the same resource later is granted before it.
Overtakes(q, w) == /\ Key(q) = Key(w) /\ Local(q) = Local(w)
                   /\ waited[w] >= Rank[w] * AgingTicks
                   /\ seq[w] < seq[q]
AgedNeverOvertaken ==
  [][\A q \in granted' \ granted, w \in waiting' : ~Overtakes(q, w)']_vars

\* A call inside Do comes back, also when nobody cancels it and no deadline
\* fires: a waiting ticket is always reached by a grant or a quarantine.
EveryCallReturns ==
  \A q \in Requests : pc[q] = "admitted" ~> pc[q] \in {"done", "lost"}
---------------------------------------------------------------------------
(* The inductive invariant of InferenceScheduler_proofs                    *)

\* Which calls have a ticket in the queue or hold a slot.  Sequence numbers of
\* live tickets are distinct.
Tickets ==
  /\ \A q \in waiting : pc[q] = "waiting"
  /\ \A q \in granted : pc[q] \in {"waiting", "giveback", "ready", "unmarked", "inflight"}
  /\ \A q \in Requests : pc[q] \in {"ready", "unmarked", "inflight"} => q \in granted
  /\ waiting \cap granted = {}
  /\ \A q \in waiting \cup granted : seq[q] \in 1..sequence
  /\ \A q, r \in waiting \cup granted : seq[q] = seq[r] => q = r

\* A quarantined key has no waiting ticket and no local ticket holds its slot;
\* a local resource has at most one holder.
Quarantines ==
  /\ \A q \in waiting : Key(q) \notin quarantined
  /\ \A q \in granted : Local(q) => Key(q) \notin quarantined
  /\ \A q, r \in granted : Local(q) /\ Local(r) /\ Key(q) = Key(r) => q = r

\* An epoch is the number of a ticket that is gone, so no live ticket can
\* produce the epoch a probe has read.
Probing(b) == probe[b] # NoProbe
Epochs ==
  /\ \A k \in Keys : epoch[k] <= sequence /\ (epoch[k] = 0 <=> k \notin quarantined)
  /\ \A b \in Probers : Probing(b) => probe[b].epoch <= sequence
  /\ \A q \in waiting \cup granted :
       /\ \A k \in Keys : seq[q] # epoch[k]
       /\ \A b \in Probers : Probing(b) => seq[q] # probe[b].epoch

\* As long as the epoch a probe saw idle is current, no cancelled generation
\* runs on the probed key.
Confirmed ==
  /\ \A q \in busy : Local(q) /\ pc[q] \in {"inflight", "settling", "doubtful", "done", "lost"}
  /\ \A b \in Probers :
       probe[b].phase = "idle" /\ epoch[KeyOf[probe[b].profile]] = probe[b].epoch =>
         \A q \in busy : Key(q) = KeyOf[probe[b].profile] => pc[q] \in {"inflight", "lost"}

\* The generations of one runtime whose calls did not lose their connection.
OneAttached ==
  \A q, r \in {b \in busy : pc[b] # "lost"} : ProfileOf[q] = ProfileOf[r] => q = r

SlotInv == TypeOK /\ Tickets /\ Quarantines /\ SlotsAccounted /\ WorkConserving
RuntimeInv == Epochs /\ Confirmed /\ CancelledStaysQuarantined /\ OneAttached

\* What the theorems about local runtimes assume of the configuration: no two
\* local profiles share a resource key.
OneRuntimePerKey == \A p, r \in LocalProfiles : KeyOf[p] = KeyOf[r] => p = r
=============================================================================
