---------------------- MODULE InferenceScheduler_proofs ----------------------
(* Theorems about InferenceScheduler, for every value of its constants.    *)
EXTENDS InferenceScheduler, FiniteSetTheorems, WellFoundedInduction, TLAPS

---------------------------------------------------------------------------
(* Dispatching                                                             *)

\* The order of dispatchLocked is a strict total order on tickets whose
\* sequence numbers differ.
LEMMA BeforeIsTotal ==
  waited \in [Requests -> Nat] /\ seq \in [Requests -> Nat] =>
    \A a, b, c \in Requests :
      /\ ~Before(a, a)
      /\ Before(a, b) /\ Before(b, c) => Before(a, c)
      /\ seq[a] # seq[b] => Before(a, b) \/ Before(b, a)
<1> SUFFICES ASSUME waited \in [Requests -> Nat], seq \in [Requests -> Nat],
                    NEW a \in Requests, NEW b \in Requests, NEW c \in Requests
             PROVE  /\ ~Before(a, a)
                    /\ Before(a, b) /\ Before(b, c) => Before(a, c)
                    /\ seq[a] # seq[b] => Before(a, b) \/ Before(b, a)
  OBVIOUS
<1>1. \A q \in Requests : Effective(q) \in Int
  BY LimitsAssumption, RequestsAssumption DEF Effective
<1>2. QED
  BY <1>1 DEF Before

\* A finite set of naturals that is not empty has a least element.
LEMMA LeastNatural ==
  ASSUME NEW T \in SUBSET Nat, T # {}
  PROVE  \E x \in T : \A y \in T : x <= y
<1> DEFINE R == {ss \in Nat \X Nat : ss[1] < ss[2]}
<1>1. IsWellFoundedOn(R, Nat)
  BY NatLessThanWellFounded, Zenon DEF OpToRel
<1> HIDE DEF R
<1>2. PICK x \in T : \A y \in T : ~ (<<y, x>> \in R)
  BY <1>1, WFMin
<1>3. ASSUME NEW y \in T, y < x PROVE FALSE
  <2>1. <<y, x>> \in Nat \X Nat /\ <<y, x>>[1] = y /\ <<y, x>>[2] = x
    OBVIOUS
  <2>2. <<y, x>> \in R
    BY <1>3, <2>1 DEF R
  <2>3. QED
    BY <1>2, <2>2
<1>4. QED
  BY <1>3

\* What dispatchLocked starts from: a queue W without quarantined tickets and
\* counters that count the tickets in held, which hold the slots.
DispatchPre(W, held, active, resource) ==
  /\ W \in SUBSET Requests /\ held \in SUBSET Requests /\ W \cap held = {}
  /\ active \in Int /\ active = Cardinality(held) /\ active <= GlobalLimit
  /\ resource \in [Keys -> Int]
  /\ \A k \in Keys : resource[k] = Cardinality({q \in held : Key(q) = k})
  /\ \A w \in W : Key(w) \notin quarantined'
  /\ \A q, r \in held : Local(q) /\ Local(r) /\ Key(q) = Key(r) => q = r
  /\ waited' \in [Requests -> Nat] /\ seq' \in [Requests -> Nat]
  /\ \A q, r \in W : seq'[q] = seq'[r] => q = r

\* What it ends in: exact counters within the ceiling, no ticket that waits for
\* a free slot, and grants made in the order Before.
DispatchPost(W, held) ==
  /\ waiting' \subseteq W /\ granted' = held \cup (W \ waiting')
  /\ globalActive' \in Nat /\ resourceActive' \in [Keys -> Nat]
  /\ SlotsAccounted' /\ WorkConserving'
  /\ \A q, r \in granted' : Local(q) /\ Local(r) /\ Key(q) = Key(r) => q = r
  /\ \A q \in W \ waiting', w \in waiting' :
       Key(q) = Key(w) /\ Local(q) = Local(w) => Before(q, w)'

\* What one pass of dispatchLocked does.
LEMMA DispatchStep ==
  ASSUME NEW W, NEW held, NEW active, NEW resource,
         DispatchPre(W, held, active, resource), DispatchLocked(W, held, active, resource)
  PROVE  DispatchPost(W, held)
<1> DEFINE Prec(a, b) == Before(a, b)'
           Ahead(G, q) == {g \in G : Prec(g, q)}
           AheadAt(G, q) == {g \in G : Prec(g, q) /\ Key(g) = Key(q)}
           At(S, k) == {q \in S : Key(q) = k}
<1> USE DEF DispatchPre
<1>1. PICK G \in SUBSET W :
        /\ Grants(W, active, resource, G)
        /\ waiting' = W \ G
        /\ granted' = held \cup G
        /\ globalActive' = active + Cardinality(G)
        /\ resourceActive' = [k \in Keys |-> resource[k] + Cardinality({g \in G : Key(g) = k})]
  BY DEF DispatchLocked
<1>2. (waited \in [Requests -> Nat] /\ seq \in [Requests -> Nat] =>
        \A a, b, c \in Requests :
          /\ ~Before(a, a)
          /\ Before(a, b) /\ Before(b, c) => Before(a, c)
          /\ seq[a] # seq[b] => Before(a, b) \/ Before(b, a))'
  BY BeforeIsTotal, PTL
<1>3. \A a, b, c \in W : /\ ~Prec(a, a)
                         /\ Prec(a, b) /\ Prec(b, c) => Prec(a, c)
                         /\ a # b => Prec(a, b) \/ Prec(b, a)
  BY <1>2
<1>4. \A S \in SUBSET Requests : IsFiniteSet(S) /\ Cardinality(S) \in Nat
  BY RequestsAssumption, FS_Subset, FS_CardinalityType
<1>5. \A q \in Requests : Key(q) \in Keys /\ Limit(q) \in Nat \ {0}
  BY RequestsAssumption, ProfilesAssumption, LimitsAssumption DEF Key, Limit
<1>6. \A q \in W : q \in G <=>
        /\ active + Cardinality(Ahead(G, q)) < GlobalLimit
        /\ resource[Key(q)] + Cardinality(AheadAt(G, q)) < Limit(q)
  BY <1>1 DEF Grants
<1> HIDE DEF Prec
<1>7. \A S, T \in SUBSET Requests : S \subseteq T => Cardinality(S) <= Cardinality(T)
  BY <1>4, FS_Subset
<1>n. /\ \A q \in W : /\ Cardinality(Ahead(G, q)) \in Nat
                      /\ Cardinality(AheadAt(G, q)) \in Nat
                      /\ resource[Key(q)] \in Int /\ Limit(q) \in Nat
      /\ Cardinality(G) \in Nat /\ GlobalLimit \in Nat
  BY <1>4, <1>5, LimitsAssumption
<1>8. active + Cardinality(G) <= GlobalLimit
  <2>1. CASE G = {}
    BY <2>1, FS_EmptySet, LimitsAssumption
  <2>2. CASE G # {}
    <3> DEFINE room(q) == GlobalLimit - (active + Cardinality(Ahead(G, q)))
               T == {room(q) : q \in G}
    <3>1. ASSUME NEW q \in G PROVE room(q) \in Nat /\ Cardinality(Ahead(G, q)) \in Nat
      <4> HIDE DEF Ahead
      <4>1. q \in W /\ active + Cardinality(Ahead(G, q)) < GlobalLimit
        BY <1>6
      <4>2. Cardinality(Ahead(G, q)) \in Nat /\ GlobalLimit \in Nat
        BY <4>1, <1>n
      <4>3. QED
        BY <4>1, <4>2
    <3>2. T \in SUBSET Nat /\ T # {}
      <4> HIDE DEF room
      <4>1. \A q \in G : room(q) \in Nat
        BY <3>1
      <4>2. QED
        BY <4>1, <2>2
    <3>3. PICK least \in G : \A q \in G : room(least) <= room(q)
      <4> HIDE DEF room
      <4>1. PICK x \in T : \A y \in T : x <= y
        BY <3>2, LeastNatural
      <4>2. QED
        BY <4>1
    <3>4. ASSUME NEW q \in G
          PROVE  Cardinality(Ahead(G, q)) <= Cardinality(Ahead(G, least))
      <4> HIDE DEF Ahead
      <4>1. room(least) <= room(q)
        BY <3>3
      <4>2. QED
        BY <4>1, <3>1, <1>n
    <3>5. Ahead(G, least) \cup {least} = G
      <4> SUFFICES ASSUME NEW q \in G, q # least, ~Prec(q, least) PROVE FALSE
        OBVIOUS
      <4>1. Prec(least, q)
        BY <1>3
      <4>2. Ahead(G, least) \cup {least} \subseteq Ahead(G, q)
        BY <4>1, <1>3
      <4>3. Cardinality(Ahead(G, least) \cup {least}) = Cardinality(Ahead(G, least)) + 1
        BY <1>3, <1>4, FS_AddElement
      <4>4. Cardinality(Ahead(G, least) \cup {least}) <= Cardinality(Ahead(G, q))
        BY <4>2, <1>7
      <4> HIDE DEF Ahead
      <4>5. Cardinality(Ahead(G, q)) <= Cardinality(Ahead(G, least))
        BY <3>4
      <4>6. Cardinality(Ahead(G, q)) \in Nat /\ Cardinality(Ahead(G, least)) \in Nat
        BY <3>1
      <4>7. QED
        BY <4>3, <4>4, <4>5, <4>6
    <3>6. Cardinality(G) <= Cardinality(Ahead(G, least)) + 1
      BY <3>5, <1>4, FS_AddElement
    <3> HIDE DEF Ahead
    <3>7. least \in W /\ active + Cardinality(Ahead(G, least)) < GlobalLimit
      BY <1>6
    <3>8. /\ Cardinality(Ahead(G, least)) \in Nat /\ Cardinality(G) \in Nat
          /\ GlobalLimit \in Nat
      BY <3>7, <1>n
    <3>9. QED
      BY <3>6, <3>7, <3>8
  <2>3. QED
    BY <2>1, <2>2
<1>9. \A S, T \in SUBSET Requests :
        S \cap T = {} => Cardinality(S \cup T) = Cardinality(S) + Cardinality(T)
  <2> SUFFICES ASSUME NEW S \in SUBSET Requests, NEW T \in SUBSET Requests, S \cap T = {}
               PROVE  Cardinality(S \cup T) = Cardinality(S) + Cardinality(T)
    OBVIOUS
  <2>1. Cardinality(S \cap T) = 0
    BY FS_EmptySet
  <2>2. /\ IsFiniteSet(S) /\ Cardinality(S) \in Nat
        /\ IsFiniteSet(T) /\ Cardinality(T) \in Nat
    BY <1>4
  <2>3. Cardinality(S \cup T) = Cardinality(S) + Cardinality(T) - Cardinality(S \cap T)
    BY <2>2, FS_Union
  <2>4. QED
    BY <2>1, <2>2, <2>3
<1>10. SlotsAccounted'
  <2>1. globalActive' = Cardinality(granted') /\ globalActive' <= GlobalLimit
    BY <1>1, <1>8, <1>9
  <2>2. ASSUME NEW k \in Keys PROVE resourceActive'[k] = Cardinality(At(granted', k))
    <3>1. At(granted', k) = At(held, k) \cup At(G, k) /\ At(held, k) \cap At(G, k) = {}
      BY <1>1
    <3>2. Cardinality(At(granted', k)) = Cardinality(At(held, k)) + Cardinality(At(G, k))
      BY <3>1, <1>9
    <3>3. QED
      BY <3>2, <1>1
  <2>3. QED
    BY <2>1, <2>2 DEF SlotsAccounted, Holding, Key
<1>11. WorkConserving'
  <2> SUFFICES ASSUME NEW w \in W \ G
               PROVE  globalActive' >= GlobalLimit \/ resourceActive'[Key(w)] >= Limit(w)
    BY <1>1 DEF WorkConserving, Key, Limit, Local
  <2>1. Cardinality(Ahead(G, w)) <= Cardinality(G)
    BY <1>7
  <2>2. Cardinality(AheadAt(G, w)) <= Cardinality(At(G, Key(w)))
    BY <1>7
  <2>3. /\ resourceActive'[Key(w)] = resource[Key(w)] + Cardinality(At(G, Key(w)))
        /\ Cardinality(At(G, Key(w))) \in Nat
    BY <1>1, <1>4, <1>5
  <2>4. globalActive' = active + Cardinality(G)
    BY <1>1
  <2> HIDE DEF Ahead, AheadAt, At
  <2>5. \/ ~(active + Cardinality(Ahead(G, w)) < GlobalLimit)
        \/ ~(resource[Key(w)] + Cardinality(AheadAt(G, w)) < Limit(w))
    BY <1>6
  <2>6. QED
    BY <1>n, <2>1, <2>2, <2>3, <2>4, <2>5
<1>12. ASSUME NEW q \in granted', NEW r \in granted',
              Local(q), Local(r), Key(q) = Key(r)
       PROVE  q = r
  <2>1. ASSUME NEW g \in G, Local(g)
        PROVE  At(held, Key(g)) = {} /\ AheadAt(G, g) = {}
    <3>1. resource[Key(g)] + Cardinality(AheadAt(G, g)) < 1
      BY <2>1, <1>6 DEF Limit
    <3>2. resource[Key(g)] = Cardinality(At(held, Key(g)))
      BY <1>5
    <3>3. Cardinality(At(held, Key(g))) = 0 /\ Cardinality(AheadAt(G, g)) = 0
      BY <3>1, <3>2, <1>4
    <3>4. QED
      BY <3>3, <1>4, FS_EmptySet
  <2>2. CASE q \in held /\ r \in held
    BY <2>2, <1>12
  <2>3. CASE q \in G
    BY <2>3, <2>1, <1>12, <1>1, <1>3
  <2>4. CASE r \in G
    BY <2>4, <2>1, <1>12, <1>1, <1>3
  <2>5. QED
    BY <2>2, <2>3, <2>4, <1>1
<1>13. ASSUME NEW q \in G, NEW w \in W \ G, Key(q) = Key(w), Local(q) = Local(w)
       PROVE  Prec(q, w)
  <2> SUFFICES ASSUME Prec(w, q) PROVE FALSE
    BY <1>3
  <2>1. Ahead(G, w) \subseteq Ahead(G, q) /\ AheadAt(G, w) \subseteq AheadAt(G, q)
    BY <1>3, <1>13
  <2>2. Cardinality(Ahead(G, w)) <= Cardinality(Ahead(G, q))
    BY <2>1, <1>7
  <2>3. Cardinality(AheadAt(G, w)) <= Cardinality(AheadAt(G, q))
    BY <2>1, <1>7
  <2>4. Limit(w) = Limit(q)
    BY <1>13 DEF Limit
  <2> HIDE DEF Ahead, AheadAt
  <2>5. /\ active + Cardinality(Ahead(G, q)) < GlobalLimit
        /\ resource[Key(q)] + Cardinality(AheadAt(G, q)) < Limit(q)
    BY <1>6
  <2>6. /\ active + Cardinality(Ahead(G, w)) < GlobalLimit
        /\ resource[Key(w)] + Cardinality(AheadAt(G, w)) < Limit(w)
    BY <2>2, <2>3, <2>4, <2>5, <1>13, <1>n
  <2>7. QED
    BY <2>6, <1>6
<1>14. globalActive' \in Nat /\ resourceActive' \in [Keys -> Nat]
  <2>1. \A k \in Keys : resource[k] \in Nat /\ Cardinality({g \in G : Key(g) = k}) \in Nat
    BY <1>4, \A k \in Keys : {q \in held : Key(q) = k} \in SUBSET Requests,
       \A k \in Keys : {g \in G : Key(g) = k} \in SUBSET Requests
  <2>2. active \in Nat /\ Cardinality(G) \in Nat
    BY <1>4
  <2>3. QED
    BY <1>1, <2>1, <2>2
<1>15. QED
  BY <1>1, <1>10, <1>11, <1>12, <1>13, <1>14 DEF Prec, DispatchPost

\* Giving back the slot of one ticket keeps the counters exact.
LEMMA CountersWithout ==
  ASSUME SlotInv, NEW q \in granted
  PROVE  /\ globalActive - 1 \in Int /\ globalActive - 1 = Cardinality(granted \ {q})
         /\ globalActive - 1 <= GlobalLimit
         /\ [resourceActive EXCEPT ![Key(q)] = @ - 1] \in [Keys -> Int]
         /\ \A k \in Keys : [resourceActive EXCEPT ![Key(q)] = @ - 1][k]
                           = Cardinality({r \in granted \ {q} : Key(r) = k})
<1>1. granted \subseteq Requests /\ IsFiniteSet(granted) /\ q \in Requests /\ Key(q) \in Keys
  BY RequestsAssumption, ProfilesAssumption, FS_Subset DEF SlotInv, TypeOK, Key
<1>2. Cardinality(granted \ {q}) = Cardinality(granted) - 1
  BY <1>1, FS_RemoveElement
<1>3. ASSUME NEW k \in Keys
      PROVE  [resourceActive EXCEPT ![Key(q)] = @ - 1][k]
               = Cardinality({r \in granted \ {q} : Key(r) = k})
  <2>1. IsFiniteSet(Holding(k)) /\ resourceActive[k] = Cardinality(Holding(k))
    BY <1>1, FS_Subset DEF Holding, SlotInv, SlotsAccounted
  <2>2. {r \in granted \ {q} : Key(r) = k} = Holding(k) \ {q}
    BY DEF Holding
  <2>3. Cardinality(Holding(k) \ {q}) = IF Key(q) = k THEN Cardinality(Holding(k)) - 1
                                                     ELSE Cardinality(Holding(k))
    BY <2>1, FS_RemoveElement DEF Holding
  <2>4. [resourceActive EXCEPT ![Key(q)] = @ - 1][k]
          = IF Key(q) = k THEN resourceActive[k] - 1 ELSE resourceActive[k]
    BY <1>1 DEF SlotInv, TypeOK
  <2>5. QED
    BY <2>1, <2>2, <2>3, <2>4
<1>4. QED
  BY <1>1, <1>2, <1>3, LimitsAssumption DEF SlotInv, TypeOK, SlotsAccounted

\* In a state of the invariant a dispatch may start from any part W of the
\* queue, with every slot held or with the slot of one ticket given back.
LEMMA MayDispatch ==
  ASSUME SlotInv, NEW W \in SUBSET waiting, \A w \in W : Key(w) \notin quarantined',
         waited' = waited, seq' = seq
  PROVE  /\ DispatchPre(W, granted, globalActive, resourceActive)
         /\ \A q \in granted : DispatchPre(W, granted \ {q}, globalActive - 1,
                                         [resourceActive EXCEPT ![Key(q)] = @ - 1])
<1>1. /\ W \in SUBSET Requests /\ granted \in SUBSET Requests /\ W \cap granted = {}
      /\ waited' \in [Requests -> Nat] /\ seq' \in [Requests -> Nat]
      /\ \A q, r \in W : seq'[q] = seq'[r] => q = r
      /\ \A q, r \in granted : Local(q) /\ Local(r) /\ Key(q) = Key(r) => q = r
  BY DEF SlotInv, TypeOK, Tickets, Quarantines
<1>2. DispatchPre(W, granted, globalActive, resourceActive)
  BY <1>1 DEF DispatchPre, SlotInv, TypeOK, SlotsAccounted, Holding
<1>3. ASSUME NEW q \in granted
      PROVE  DispatchPre(W, granted \ {q}, globalActive - 1,
                         [resourceActive EXCEPT ![Key(q)] = @ - 1])
  BY <1>1, CountersWithout DEF DispatchPre
<1>4. QED
  BY <1>2, <1>3

\* release, as every caller of it sees it.
LEMMA ReleaseStep ==
  ASSUME SlotInv, NEW q \in Requests, Release(q)
  PROVE  DispatchPost(waiting, granted \ {q}) /\ UNCHANGED <<seq, sequence, waited, quarantined, epoch>>
<1>1. /\ waited' = waited /\ seq' = seq /\ waiting \in SUBSET waiting
      /\ \A w \in waiting : Key(w) \notin quarantined'
  BY DEF Release, SlotInv, Quarantines
<1>2. CASE q \in granted
  <2>1. DispatchLocked(waiting, granted \ {q}, globalActive - 1,
                       [resourceActive EXCEPT ![Key(q)] = @ - 1])
    BY <1>2 DEF Release
  <2>2. DispatchPre(waiting, granted \ {q}, globalActive - 1,
                    [resourceActive EXCEPT ![Key(q)] = @ - 1])
    BY <1>1, <1>2, MayDispatch
  <2>3. QED
    BY <2>1, <2>2, DispatchStep DEF Release
<1>3. CASE q \notin granted
  <2>1. DispatchLocked(waiting, granted, globalActive, resourceActive) /\ granted \ {q} = granted
    BY <1>3 DEF Release
  <2>2. DispatchPre(waiting, granted, globalActive, resourceActive)
    BY <1>1, MayDispatch
  <2>3. DispatchPost(waiting, granted)
    BY <2>1, <2>2, DispatchStep
  <2>4. QED
    BY <2>1, <2>3 DEF Release
<1>4. QED
  BY <1>2, <1>3

\* quarantine, when the ticket still holds its slot.
LEMMA QuarantineStep ==
  ASSUME SlotInv, NEW q \in granted, Quarantine(q)
  PROVE  /\ DispatchPost({w \in waiting : Key(w) # Key(q)}, granted \ {q})
         /\ UNCHANGED <<seq, sequence, waited>>
<1> DEFINE kept == {w \in waiting : Key(w) # Key(q)}
<1>1. /\ waited' = waited /\ seq' = seq /\ kept \in SUBSET waiting
      /\ \A w \in kept : Key(w) \notin quarantined'
  BY DEF Quarantine, SlotInv, Quarantines
<1>2. DispatchLocked(kept, granted \ {q}, globalActive - 1,
                     [resourceActive EXCEPT ![Key(q)] = @ - 1])
  BY DEF Quarantine
<1> HIDE DEF kept
<1>3. DispatchPre(kept, granted \ {q}, globalActive - 1,
                  [resourceActive EXCEPT ![Key(q)] = @ - 1])
  BY <1>1, MayDispatch
<1>4. DispatchPost(kept, granted \ {q})
  BY <1>2, <1>3, DispatchStep
<1>5. QED
  BY <1>4 DEF kept, Quarantine

---------------------------------------------------------------------------
(* The slot invariant                                                      *)

\* Calls that neither queue, hold nor release anything: only pc, the row, the
\* runtime or a probe changes.
Quiet(q) ==
  \/ Reserve(q) \/ ReserveRejected(q) \/ EnqueueRefused(q) \/ TakeGrant(q) \/ TakeRefusal(q)
  \/ FinishBeforeDispatch(q) \/ MarkDispatched(q) \/ MarkFails(q)
  \/ Reconcile(q) \/ ReconcileFails(q) \/ MarkUncertain(q) \/ RuntimeStops(q)

LEMMA NextCases ==
  ASSUME Next
  PROVE  \/ \E q \in Requests : \/ Quiet(q) \/ Enqueue(q) \/ Withdraw(q) \/ GiveBack(q)
                               \/ ReleaseUnmarked(q) \/ Answer(q) \/ Disconnect(q) \/ Abandon(q)
         \/ \E b \in Probers : \/ \E p \in LocalProfiles : StartProbe(b, p)
                              \/ ObserveIdle(b) \/ ReleaseIfCurrent(b) \/ GiveUpProbe(b)
         \/ Tick \/ Restart
BY DEF Next, Quiet, Advance, Probe

\* The parts of the invariant that read only the queue, its numbering and the
\* stages survive a dispatch out of W, once ticket q (if any) has moved on.
LEMMA TicketsAfterDispatch ==
  ASSUME SlotInv, NEW q, NEW W \in SUBSET waiting, NEW stage,
         stage \in {"refused", "doubtful", "settling"},
         q \in Requests, q \notin W, pc' = [pc EXCEPT ![q] = stage],
         DispatchPost(W, granted \ {q}), UNCHANGED <<seq, sequence>>,
         \A w \in W : Key(w) \notin quarantined',
         \A g \in granted \ {q} : Local(g) => Key(g) \notin quarantined'
  PROVE  Tickets' /\ Quarantines'
<1>1. waiting' \subseteq W /\ granted' = (granted \ {q}) \cup (W \ waiting')
  BY DEF DispatchPost
<1>2. Tickets'
  BY <1>1 DEF SlotInv, TypeOK, Tickets
<1>3. Quarantines'
  BY <1>1 DEF SlotInv, TypeOK, Quarantines, DispatchPost, Key, Local
<1>4. QED
  BY <1>2, <1>3

LEMMA SlotInvInit == Init => SlotInv
<1> SUFFICES ASSUME Init PROVE SlotInv
  OBVIOUS
<1>1. TypeOK
  BY DEF Init, TypeOK, Stages, RowStates
<1>2. Tickets /\ Quarantines /\ WorkConserving
  BY DEF Init, Tickets, Quarantines, WorkConserving
<1>3. SlotsAccounted
  <2>1. globalActive = 0 /\ Cardinality(granted) = 0
    BY FS_EmptySet DEF Init
  <2>2. ASSUME NEW k \in Keys PROVE resourceActive[k] = 0 /\ Cardinality(Holding(k)) = 0
    <3>1. Holding(k) = {}
      BY DEF Init, Holding
    <3>2. QED
      BY <3>1, FS_EmptySet DEF Init
  <2>3. QED
    BY <2>1, <2>2, LimitsAssumption DEF SlotsAccounted
<1>4. QED
  BY <1>1, <1>2, <1>3 DEF SlotInv

LEMMA SlotInvStep == SlotInv /\ [Next]_vars => SlotInv'
<1> SUFFICES ASSUME SlotInv, [Next]_vars PROVE SlotInv'
  OBVIOUS
<1> USE DEF memory, rows, runtime, Goto, SetRow
<1>1. ASSUME UNCHANGED <<waiting, granted, globalActive, resourceActive>>
      PROVE  SlotsAccounted' /\ WorkConserving'
  BY <1>1 DEF SlotInv, SlotsAccounted, WorkConserving, Holding, Key, Limit, Local
<1>2. ASSUME NEW q \in Requests, Quiet(q) PROVE SlotInv'
  <2>1. UNCHANGED memory
    BY <1>2 DEF Quiet, Reserve, ReserveRejected, EnqueueRefused, TakeGrant, TakeRefusal,
                FinishBeforeDispatch, MarkDispatched, MarkFails, Reconcile, ReconcileFails,
                MarkUncertain, RuntimeStops
  <2>2. TypeOK'
    <3>1. UNCHANGED <<probe, restarts>> /\ pc' \in [Requests -> Stages]
      BY <1>2 DEF Quiet, SlotInv, TypeOK, Stages, Reserve, ReserveRejected, EnqueueRefused,
                  TakeGrant, TakeRefusal, FinishBeforeDispatch, MarkDispatched, MarkFails,
                  Reconcile, ReconcileFails, MarkUncertain, RuntimeStops
    <3>2. ledger' \in [Requests -> RowStates]
      BY <1>2 DEF Quiet, SlotInv, TypeOK, RowStates, Reserve, ReserveRejected, EnqueueRefused,
                  TakeGrant, TakeRefusal, FinishBeforeDispatch, MarkDispatched, MarkFails,
                  Reconcile, ReconcileFails, MarkUncertain, RuntimeStops
    <3>3. charged' \in [Requests -> Nat]
      BY <1>2, RequestsAssumption
         DEF Quiet, SlotInv, TypeOK, Reserve, ReserveRejected, EnqueueRefused,
             TakeGrant, TakeRefusal, FinishBeforeDispatch, MarkDispatched, MarkFails,
             Reconcile, ReconcileFails, MarkUncertain, RuntimeStops
    <3>4. busy' \subseteq Requests /\ adrift' \subseteq Requests /\ spent' \in [Requests -> Nat]
      BY <1>2, RequestsAssumption
         DEF Quiet, SlotInv, TypeOK, Reserve, ReserveRejected, EnqueueRefused,
             TakeGrant, TakeRefusal, FinishBeforeDispatch, MarkDispatched, MarkFails,
             Reconcile, ReconcileFails, MarkUncertain, RuntimeStops
    <3>5. QED
      BY <2>1, <3>1, <3>2, <3>3, <3>4 DEF SlotInv, TypeOK
  <2>3. Tickets'
    BY <1>2, <2>1 DEF Quiet, SlotInv, TypeOK, Tickets, Reserve, ReserveRejected, EnqueueRefused,
                TakeGrant, TakeRefusal, FinishBeforeDispatch, MarkDispatched, MarkFails,
                Reconcile, ReconcileFails, MarkUncertain, RuntimeStops
  <2>4. Quarantines'
    BY <2>1 DEF SlotInv, Quarantines, Key, Local
  <2>5. QED
    BY <1>1, <2>1, <2>2, <2>3, <2>4 DEF SlotInv
<1>3. ASSUME NEW q \in Requests, Enqueue(q) PROVE SlotInv'
  <2> DEFINE W == waiting \cup {q}
  <2>1. /\ pc[q] = "admitted" /\ q \notin granted /\ q \notin waiting
        /\ pc' = [pc EXCEPT ![q] = "waiting"] /\ sequence' = sequence + 1
        /\ seq' = [seq EXCEPT ![q] = sequence + 1] /\ waited' = [waited EXCEPT ![q] = 0]
        /\ UNCHANGED <<quarantined, epoch, ledger, charged, busy, adrift, spent, probe, restarts>>
        /\ Key(q) \notin quarantined
    BY <1>3 DEF Enqueue, SlotInv, Tickets
  <2>2. DispatchPre(W, granted, globalActive, resourceActive)
    <3>1. /\ W \in SUBSET Requests /\ granted \in SUBSET Requests /\ W \cap granted = {}
          /\ waited' \in [Requests -> Nat] /\ seq' \in [Requests -> Nat]
          /\ \A r, t \in granted : Local(r) /\ Local(t) /\ Key(r) = Key(t) => r = t
      BY <2>1 DEF SlotInv, TypeOK, Tickets, Quarantines
    <3>2. \A r, t \in W : seq'[r] = seq'[t] => r = t
      BY <2>1 DEF SlotInv, TypeOK, Tickets
    <3>3. \A w \in W : Key(w) \notin quarantined'
      BY <2>1 DEF SlotInv, Quarantines
    <3>4. QED
      BY <3>1, <3>2, <3>3 DEF DispatchPre, SlotInv, TypeOK, SlotsAccounted, Holding
  <2>3. DispatchPost(W, granted)
    BY <1>3, <2>2, DispatchStep DEF Enqueue
  <2>4. waiting' \subseteq W /\ granted' = granted \cup (W \ waiting')
    BY <2>3 DEF DispatchPost
  <2>5. TypeOK'
    BY <2>1, <2>3, <2>4 DEF SlotInv, TypeOK, DispatchPost, Stages
  <2>6. Tickets'
    BY <2>1, <2>4 DEF SlotInv, TypeOK, Tickets
  <2>7. Quarantines'
    BY <2>1, <2>3, <2>4 DEF SlotInv, Quarantines, DispatchPost, Key, Local
  <2>8. QED
    BY <2>3, <2>5, <2>6, <2>7 DEF SlotInv, DispatchPost
<1>4. ASSUME NEW q \in Requests, Withdraw(q) PROVE SlotInv'
  <2>1. /\ waiting' = waiting \ {q} /\ pc[q] = "waiting"
        /\ pc' = [pc EXCEPT ![q] = IF q \in waiting THEN "refused" ELSE "giveback"]
        /\ UNCHANGED <<granted, seq, sequence, waited, globalActive, resourceActive, quarantined,
                       epoch, ledger, charged, busy, adrift, spent, probe, restarts>>
    BY <1>4 DEF Withdraw
  <2>2. TypeOK' /\ Tickets'
    BY <2>1 DEF SlotInv, TypeOK, Tickets, Stages
  <2>3. Quarantines' /\ SlotsAccounted' /\ WorkConserving'
    BY <2>1 DEF SlotInv, Quarantines, SlotsAccounted, WorkConserving, Holding, Key, Limit, Local
  <2>4. QED
    BY <2>2, <2>3 DEF SlotInv
<1>5. ASSUME NEW q \in Requests, NEW stage \in {"refused", "doubtful", "settling"},
             q \notin waiting, pc' = [pc EXCEPT ![q] = stage], Release(q),
             UNCHANGED <<ledger, charged, spent, probe, restarts>>,
             busy' \subseteq Requests, adrift' \subseteq Requests
      PROVE  SlotInv'
  <2>1. /\ DispatchPost(waiting, granted \ {q})
        /\ UNCHANGED <<seq, sequence, waited, quarantined, epoch>>
    BY <1>5, ReleaseStep
  <2>2. Tickets' /\ Quarantines'
    <3>1. /\ \A w \in waiting : Key(w) \notin quarantined'
          /\ \A g \in granted \ {q} : Local(g) => Key(g) \notin quarantined'
      BY <2>1 DEF SlotInv, Quarantines
    <3>2. QED
      BY <1>5, <2>1, <3>1, TicketsAfterDispatch
  <2>3. TypeOK'
    BY <1>5, <2>1 DEF SlotInv, TypeOK, DispatchPost, Stages
  <2>4. QED
    BY <2>1, <2>2, <2>3 DEF SlotInv, DispatchPost
<1>6. ASSUME NEW q \in Requests, GiveBack(q) PROVE SlotInv'
  BY <1>5, <1>6 DEF GiveBack, SlotInv, TypeOK, Tickets
<1>7. ASSUME NEW q \in Requests, ReleaseUnmarked(q) PROVE SlotInv'
  BY <1>5, <1>7 DEF ReleaseUnmarked, SlotInv, TypeOK, Tickets
<1>8. ASSUME NEW q \in Requests, Answer(q) \/ Disconnect(q) PROVE SlotInv'
  <2>1. /\ pc' = [pc EXCEPT ![q] = "settling"] /\ Release(q)
        /\ busy' \subseteq Requests /\ adrift' \subseteq Requests
        /\ UNCHANGED <<ledger, charged, spent, probe, restarts>>
    BY <1>8 DEF Answer, Disconnect, SlotInv, TypeOK
  <2>2. q \notin waiting
    BY <1>8 DEF Answer, Disconnect, SlotInv, Tickets
  <2>3. QED
    BY <1>5, <2>1, <2>2
<1>9. ASSUME NEW q \in Requests, Abandon(q) PROVE SlotInv'
  <2> DEFINE kept == {w \in waiting : Key(w) # Key(q)}
  <2>1. /\ pc' = [pc EXCEPT ![q] = "settling"] /\ q \in granted /\ Local(q)
        /\ Quarantine(q) /\ quarantined' = quarantined \cup {Key(q)}
        /\ epoch' = [epoch EXCEPT ![Key(q)] = seq[q]]
        /\ UNCHANGED <<ledger, charged, busy, adrift, spent, probe, restarts>>
    BY <1>9 DEF Abandon, Quarantine, SlotInv, Tickets
  <2>2. DispatchPost(kept, granted \ {q}) /\ UNCHANGED <<seq, sequence, waited>>
    BY <2>1, QuarantineStep
  <2>3. Tickets' /\ Quarantines'
    <3>1. /\ kept \in SUBSET waiting /\ q \notin kept
          /\ \A w \in kept : Key(w) \notin quarantined'
          /\ \A g \in granted \ {q} : Local(g) => Key(g) \notin quarantined'
      BY <2>1 DEF SlotInv, Quarantines
    <3>2. QED
      BY <2>1, <2>2, <3>1, TicketsAfterDispatch
  <2>4. TypeOK'
    <3>1. Key(q) \in Keys
      BY RequestsAssumption, ProfilesAssumption DEF Key
    <3>2. waiting' \subseteq Requests /\ granted' \subseteq Requests
      BY <2>2 DEF DispatchPost, SlotInv, TypeOK
    <3>3. QED
      BY <2>1, <2>2, <3>1, <3>2 DEF SlotInv, TypeOK, DispatchPost, Stages
  <2>5. QED
    BY <2>2, <2>3, <2>4 DEF SlotInv, DispatchPost
<1>10. ASSUME NEW b \in Probers, ReleaseIfCurrent(b) PROVE SlotInv'
  <2> DEFINE k == KeyOf[probe[b].profile]
  <2>1. UNCHANGED <<pc, seq, sequence, waited, ledger, charged, busy, adrift, spent, restarts>>
        /\ probe' = [probe EXCEPT ![b] = NoProbe]
    BY <1>10 DEF ReleaseIfCurrent
  <2>2. CASE UNCHANGED memory
    <3>1. TypeOK' /\ Tickets' /\ Quarantines'
      BY <2>1, <2>2 DEF SlotInv, TypeOK, Tickets, Quarantines, Key, Local
    <3>2. QED
      BY <1>1, <2>2, <3>1 DEF SlotInv
  <2>3. CASE /\ quarantined' = quarantined \ {k} /\ epoch' = [epoch EXCEPT ![k] = 0]
             /\ DispatchLocked(waiting, granted, globalActive, resourceActive)
    <3>1. DispatchPre(waiting, granted, globalActive, resourceActive)
      <4>1. \A w \in waiting : Key(w) \notin quarantined'
        BY <2>3 DEF SlotInv, Quarantines
      <4>2. QED
        BY <2>1, <4>1, MayDispatch
    <3>2. DispatchPost(waiting, granted)
      BY <2>3, <3>1, DispatchStep
    <3>3. waiting' \subseteq waiting /\ granted' = granted \cup (waiting \ waiting')
      BY <3>2 DEF DispatchPost
    <3>4. TypeOK' /\ Tickets'
      BY <2>1, <2>3, <3>2, <3>3 DEF SlotInv, TypeOK, Tickets, DispatchPost
    <3>5. Quarantines'
      BY <2>3, <3>2, <3>3 DEF SlotInv, Quarantines, DispatchPost, Key, Local
    <3>6. QED
      BY <3>2, <3>4, <3>5 DEF SlotInv, DispatchPost
  <2>4. QED
    BY <1>10, <2>2, <2>3 DEF ReleaseIfCurrent
<1>11. ASSUME NEW b \in Probers, \/ \E p \in LocalProfiles : StartProbe(b, p)
                                \/ ObserveIdle(b) \/ GiveUpProbe(b)
       PROVE  SlotInv'
  <2>1. UNCHANGED <<pc, memory, rows, runtime, restarts>>
    BY <1>11 DEF StartProbe, ObserveIdle, GiveUpProbe
  <2>2. probe' \in [Probers -> Probes \cup {NoProbe}]
    <3>1. ASSUME NEW p \in LocalProfiles, StartProbe(b, p)
          PROVE  probe' \in [Probers -> Probes \cup {NoProbe}]
      <4>1. KeyOf[p] \in Keys /\ epoch[KeyOf[p]] \in Nat
        BY ProfilesAssumption DEF SlotInv, TypeOK
      <4>2. [phase |-> "polling", profile |-> p, epoch |-> epoch[KeyOf[p]]] \in Probes
        BY <4>1 DEF Probes
      <4>3. QED
        BY <3>1, <4>2 DEF StartProbe, SlotInv, TypeOK
    <3>2. CASE ObserveIdle(b)
      <4>1. probe[b] \in Probes /\ probe \in [Probers -> Probes \cup {NoProbe}]
        BY <3>2 DEF ObserveIdle, SlotInv, TypeOK, NoProbe
      <4>2. [probe[b] EXCEPT !.phase = "idle"] \in Probes
        BY <4>1 DEF Probes
      <4>3. probe' = [probe EXCEPT ![b] = [probe[b] EXCEPT !.phase = "idle"]]
        BY <3>2 DEF ObserveIdle
      <4> HIDE DEF Probes
      <4>4. QED
        BY <4>1, <4>2, <4>3
    <3>3. CASE GiveUpProbe(b)
      BY <3>3 DEF GiveUpProbe, SlotInv, TypeOK
    <3>4. QED
      BY <1>11, <3>1, <3>2, <3>3
  <2>3. TypeOK' /\ Tickets' /\ Quarantines'
    BY <2>1, <2>2 DEF SlotInv, TypeOK, Tickets, Quarantines, Key, Local
  <2>4. QED
    BY <1>1, <2>1, <2>3 DEF SlotInv
<1>12. CASE Tick
  <2>1. waited' \in [Requests -> Nat] /\ UNCHANGED <<pc, waiting, granted, seq, sequence, globalActive,
          resourceActive, quarantined, epoch, rows, runtime, probe, restarts>>
    BY <1>12 DEF Tick, SlotInv, TypeOK
  <2>2. TypeOK' /\ Tickets' /\ Quarantines'
    BY <2>1 DEF SlotInv, TypeOK, Tickets, Quarantines, Key, Local
  <2>3. QED
    BY <1>1, <2>1, <2>2 DEF SlotInv
<1>13. CASE Restart
  <2>1. TypeOK'
    BY <1>13 DEF Restart, SlotInv, TypeOK, Stages, RowStates
  <2>2. Tickets' /\ Quarantines' /\ WorkConserving'
    BY <1>13 DEF Restart, SlotInv, TypeOK, Tickets, Quarantines, WorkConserving
  <2>3. SlotsAccounted'
    <3>1. globalActive' = 0 /\ Cardinality(granted') = 0
      BY <1>13, FS_EmptySet DEF Restart
    <3>2. ASSUME NEW k \in Keys PROVE resourceActive'[k] = 0 /\ Cardinality(Holding(k)') = 0
      <4>1. Holding(k)' = {}
        BY <1>13 DEF Restart, Holding
      <4>2. QED
        BY <1>13, <4>1, FS_EmptySet DEF Restart
    <3>3. QED
      BY <3>1, <3>2, LimitsAssumption DEF SlotsAccounted
  <2>4. QED
    BY <2>1, <2>2, <2>3 DEF SlotInv
<1>14. CASE UNCHANGED vars
  <2>1. TypeOK' /\ Tickets' /\ Quarantines'
    BY <1>14 DEF vars, SlotInv, TypeOK, Tickets, Quarantines, Key, Local
  <2>2. QED
    BY <1>1, <1>14, <2>1 DEF vars, SlotInv
<1>15. QED
  BY <1>2, <1>3, <1>4, <1>6, <1>7, <1>8, <1>9, <1>10, <1>11, <1>12, <1>13, <1>14, NextCases

\* Every variable keeps its type: the counters and the epochs in particular
\* stay numbers through every dispatch.
THEOREM TypeCorrect == Spec => []TypeOK
<1>1. SlotInv => TypeOK
  BY DEF SlotInv
<1>2. QED
  BY SlotInvInit, SlotInvStep, <1>1, PTL DEF Spec

\* The slot counters always count the tickets that hold a slot, and the global
\* ceiling is never exceeded, for any number of requests and resources.
THEOREM SlotAccounting == Spec => []SlotsAccounted
<1>1. SlotInv => SlotsAccounted
  BY DEF SlotInv
<1>2. QED
  BY SlotInvInit, SlotInvStep, <1>1, PTL DEF Spec

\* No ticket ever waits while a slot it could take is free.
THEOREM WorkConservation == Spec => []WorkConserving
<1>1. SlotInv => WorkConserving
  BY DEF SlotInv
<1>2. QED
  BY SlotInvInit, SlotInvStep, <1>1, PTL DEF Spec

---------------------------------------------------------------------------
(* Local runtimes                                                          *)

LEMMA RuntimeInvInit == Init => RuntimeInv
BY DEF Init, RuntimeInv, Epochs, Confirmed, CancelledStaysQuarantined, OneAttached, Probing, NoProbe

\* Live tickets keep their numbers and no new epoch appears: Epochs survives.
LEMMA EpochsKept ==
  ASSUME Epochs, UNCHANGED <<seq, sequence, quarantined, epoch, probe>>,
         waiting' \cup granted' \subseteq waiting \cup granted
  PROVE  Epochs'
BY DEF Epochs, Probing

LEMMA RuntimeInvStep ==
  ASSUME OneRuntimePerKey
  PROVE  SlotInv /\ RuntimeInv /\ [Next]_vars => RuntimeInv'
<1> SUFFICES ASSUME SlotInv, RuntimeInv, [Next]_vars PROVE RuntimeInv'
  OBVIOUS
<1> USE DEF memory, rows, runtime, Goto, SetRow
<1>k. \A q \in Requests : Key(q) \in Keys
  BY RequestsAssumption, ProfilesAssumption DEF Key
\* A call that moves on without touching the quarantines: only generations that
\* were already cancelled, and the calls that are still in flight, matter.
<1>1. ASSUME NEW q \in Requests, NEW stage \in {"admitted", "waiting", "giveback", "refused", "ready",
                                               "unmarked", "doubtful", "done"},
             pc' = [pc EXCEPT ![q] = stage], pc[q] # "inflight", pc[q] # "lost",
             q \in busy => stage \in {"doubtful", "done"},
             busy' \subseteq busy, UNCHANGED <<quarantined, epoch, probe>>
      PROVE  Confirmed' /\ CancelledStaysQuarantined' /\ OneAttached'
  <2>1. Confirmed'
    BY <1>1 DEF RuntimeInv, Confirmed, SlotInv, TypeOK, Key, Local
  <2>2. CancelledStaysQuarantined' /\ OneAttached'
    BY <1>1 DEF RuntimeInv, CancelledStaysQuarantined, OneAttached, SlotInv, TypeOK, Key
  <2>3. QED
    BY <2>1, <2>2
<1>2. ASSUME NEW q \in Requests, Quiet(q) PROVE RuntimeInv'
  <2>1. UNCHANGED <<memory, probe>>
    BY <1>2 DEF Quiet, Reserve, ReserveRejected, EnqueueRefused, TakeGrant, TakeRefusal,
                FinishBeforeDispatch, MarkDispatched, MarkFails, Reconcile, ReconcileFails,
                MarkUncertain, RuntimeStops
  <2>2. Epochs'
    BY <2>1, EpochsKept DEF RuntimeInv
  <2>3. CASE MarkDispatched(q)
    <3>1. /\ q \in granted /\ q \notin busy /\ pc' = [pc EXCEPT ![q] = "inflight"]
          /\ busy' = IF Local(q) THEN busy \cup {q} ELSE busy
      BY <2>3 DEF MarkDispatched, SlotInv, Tickets, RuntimeInv, Confirmed
    <3>2. Confirmed'
      BY <3>1, <2>1 DEF RuntimeInv, Confirmed, SlotInv, TypeOK, Key, Local
    <3>3. CancelledStaysQuarantined'
      BY <3>1, <2>1 DEF RuntimeInv, CancelledStaysQuarantined, SlotInv, TypeOK, Key
    <3>4. ASSUME Local(q), NEW r \in busy, ProfileOf[r] = ProfileOf[q], pc[r] # "lost" PROVE FALSE
      <4>1. Local(r) /\ Key(r) = Key(q) /\ r \in Requests
        BY <3>4 DEF Local, Key, SlotInv, TypeOK
      <4>2. Key(q) \notin quarantined
        BY <3>1, <3>4 DEF SlotInv, Quarantines
      <4>3. pc[r] = "inflight"
        BY <3>4, <4>1, <4>2 DEF RuntimeInv, CancelledStaysQuarantined
      <4>4. r \in granted
        BY <4>1, <4>3 DEF SlotInv, Tickets
      <4>5. QED
        BY <3>1, <3>4, <4>1, <4>4 DEF SlotInv, Quarantines
    <3>5. OneAttached'
      <4> SUFFICES ASSUME NEW r \in busy', NEW t \in busy', ProfileOf[r] = ProfileOf[t],
                          pc'[r] # "lost", pc'[t] # "lost"
                   PROVE  r = t
        BY DEF OneAttached
      <4>1. \A u \in busy : u # q /\ pc'[u] = pc[u]
        BY <3>1 DEF SlotInv, TypeOK
      <4>2. CASE r \in busy /\ t \in busy
        BY <4>1, <4>2 DEF RuntimeInv, OneAttached
      <4>3. CASE r = q
        BY <3>1, <3>4, <4>1, <4>3
      <4>4. CASE t = q
        BY <3>1, <3>4, <4>1, <4>4
      <4>5. QED
        BY <3>1, <4>2, <4>3, <4>4
    <3>6. QED
      BY <2>2, <3>2, <3>3, <3>5 DEF RuntimeInv
  <2>4. CASE RuntimeStops(q)
    BY <2>1, <2>2, <2>4 DEF RuntimeStops, RuntimeInv, Confirmed, CancelledStaysQuarantined,
                            OneAttached, Key, Local
  <2>5. CASE \/ Reserve(q) \/ ReserveRejected(q) \/ EnqueueRefused(q) \/ TakeGrant(q) \/ TakeRefusal(q)
             \/ FinishBeforeDispatch(q) \/ MarkFails(q) \/ Reconcile(q) \/ ReconcileFails(q)
             \/ MarkUncertain(q)
    <3>1. PICK stage \in {"admitted", "refused", "ready", "unmarked", "doubtful", "done"} :
            /\ pc' = [pc EXCEPT ![q] = stage]
            /\ pc[q] \in {"idle", "admitted", "waiting", "refused", "ready", "settling", "doubtful"}
            /\ pc[q] \in {"settling", "doubtful"} => stage \in {"doubtful", "done"}
      BY <2>5 DEF Reserve, ReserveRejected, EnqueueRefused, TakeGrant, TakeRefusal,
                  FinishBeforeDispatch, MarkFails, Reconcile, ReconcileFails, MarkUncertain
    <3>2. busy' = busy
      BY <2>5 DEF Reserve, ReserveRejected, EnqueueRefused, TakeGrant, TakeRefusal,
                  FinishBeforeDispatch, MarkFails, Reconcile, ReconcileFails, MarkUncertain
    <3>3. q \in busy => stage \in {"doubtful", "done"}
      BY <3>1 DEF RuntimeInv, Confirmed
    <3>4. QED
      BY <1>1, <2>1, <2>2, <3>1, <3>2, <3>3 DEF RuntimeInv
  <2>6. QED
    BY <1>2, <2>3, <2>4, <2>5 DEF Quiet
<1>3. ASSUME NEW q \in Requests, Enqueue(q) PROVE RuntimeInv'
  <2>1. /\ pc[q] = "admitted" /\ pc' = [pc EXCEPT ![q] = "waiting"]
        /\ sequence' = sequence + 1 /\ seq' = [seq EXCEPT ![q] = sequence + 1]
        /\ UNCHANGED <<quarantined, epoch, probe, busy>>
        /\ waiting' \cup granted' \subseteq waiting \cup granted \cup {q}
    BY <1>3 DEF Enqueue, DispatchLocked
  <2>2. q \notin busy
    BY <2>1 DEF RuntimeInv, Confirmed
  <2>3. Epochs'
    <3>1. probe \in [Probers -> Probes \cup {NoProbe}] /\ sequence \in Nat /\ epoch \in [Keys -> Nat]
      BY DEF SlotInv, TypeOK
    <3>2. \A b \in Probers : Probing(b) => probe[b].epoch \in Nat
      BY <3>1 DEF Probing, Probes
    <3>3. \A r \in waiting \cup granted : r # q
      BY <2>1 DEF SlotInv, Tickets
    <3>4. QED
      BY <2>1, <3>1, <3>2, <3>3 DEF RuntimeInv, Epochs, Probing, SlotInv, TypeOK
  <2>4. QED
    BY <1>1, <2>1, <2>2, <2>3 DEF RuntimeInv
<1>4. ASSUME NEW q \in Requests, Withdraw(q) PROVE RuntimeInv'
  <2>1. /\ pc[q] = "waiting" /\ q \notin busy
        /\ pc' = [pc EXCEPT ![q] = IF q \in waiting THEN "refused" ELSE "giveback"]
        /\ UNCHANGED <<granted, seq, sequence, quarantined, epoch, probe, busy>>
        /\ waiting' \subseteq waiting
    BY <1>4 DEF Withdraw, RuntimeInv, Confirmed
  <2>2. QED
    BY <1>1, <2>1, EpochsKept DEF RuntimeInv
<1>5. ASSUME NEW q \in Requests, Release(q)
      PROVE  /\ UNCHANGED <<seq, sequence, quarantined, epoch>>
             /\ waiting' \cup granted' \subseteq waiting \cup granted
  BY <1>5, ReleaseStep DEF DispatchPost
<1>6. ASSUME NEW q \in Requests, GiveBack(q) \/ ReleaseUnmarked(q) PROVE RuntimeInv'
  <2>1. PICK stage \in {"refused", "doubtful"} :
          /\ pc[q] \in {"giveback", "unmarked"} /\ pc' = [pc EXCEPT ![q] = stage]
          /\ Release(q) /\ UNCHANGED <<probe, busy>>
    BY <1>6 DEF GiveBack, ReleaseUnmarked
  <2>2. q \notin busy
    BY <2>1 DEF RuntimeInv, Confirmed
  <2>3. QED
    BY <1>1, <1>5, <2>1, <2>2, EpochsKept DEF RuntimeInv
<1>7. ASSUME NEW q \in Requests, Answer(q) \/ Disconnect(q) PROVE RuntimeInv'
  <2>1. /\ pc' = [pc EXCEPT ![q] = "settling"] /\ Release(q)
        /\ busy' = busy \ {q} /\ UNCHANGED probe
    BY <1>7 DEF Answer, Disconnect
  <2>2. UNCHANGED <<quarantined, epoch>> /\ Epochs'
    BY <1>5, <2>1, EpochsKept DEF RuntimeInv
  <2>3. Confirmed' /\ CancelledStaysQuarantined' /\ OneAttached'
    BY <2>1, <2>2 DEF RuntimeInv, Confirmed, CancelledStaysQuarantined, OneAttached,
                      SlotInv, TypeOK, Key, Local
  <2>4. QED
    BY <2>2, <2>3 DEF RuntimeInv
<1>8. ASSUME NEW q \in Requests, Abandon(q) PROVE RuntimeInv'
  <2>1. /\ q \in granted /\ Local(q) /\ pc' = [pc EXCEPT ![q] = "settling"] /\ UNCHANGED <<probe, busy>>
        /\ quarantined' = quarantined \cup {Key(q)} /\ epoch' = [epoch EXCEPT ![Key(q)] = seq[q]]
        /\ Quarantine(q)
    BY <1>8 DEF Abandon, Quarantine, SlotInv, Tickets
  <2>2. UNCHANGED <<seq, sequence>> /\ waiting' \cup granted' \subseteq (waiting \cup granted) \ {q}
    <3>1. waiting \cap granted = {}
      BY DEF SlotInv, Tickets
    <3>2. QED
      BY <2>1, <3>1, QuarantineStep DEF DispatchPost
  <2>3. Epochs'
    <3>1. \A r \in waiting' \cup granted' : r \in waiting \cup granted /\ seq[r] # seq[q]
      BY <2>1, <2>2 DEF SlotInv, Tickets
    <3>2. seq[q] \in 1..sequence
      BY <2>1 DEF SlotInv, Tickets
    <3>3. QED
      BY <1>k, <2>1, <2>2, <3>1, <3>2 DEF RuntimeInv, Epochs, Probing, SlotInv, TypeOK
  <2>4. Confirmed'
    <3>1. ASSUME NEW b \in Probers, probe[b].phase = "idle" PROVE probe[b].epoch # seq[q]
      BY <2>1, <3>1 DEF RuntimeInv, Epochs, Probing, NoProbe
    <3>2. ASSUME NEW b \in Probers, probe'[b].phase = "idle",
                 epoch'[KeyOf[probe'[b].profile]] = probe'[b].epoch
          PROVE  KeyOf[probe[b].profile] # Key(q) /\ epoch[KeyOf[probe[b].profile]] = probe[b].epoch
      BY <1>k, <2>1, <3>1, <3>2 DEF SlotInv, TypeOK
    <3>3. QED
      BY <2>1, <3>2 DEF RuntimeInv, Confirmed, SlotInv, TypeOK, Key, Local
  <2>5. CancelledStaysQuarantined' /\ OneAttached'
    <3>1. pc[q] # "lost"
      BY <2>1 DEF SlotInv, Tickets
    <3>2. QED
      BY <2>1, <3>1 DEF RuntimeInv, CancelledStaysQuarantined, OneAttached, SlotInv, TypeOK, Key
  <2>6. QED
    BY <2>3, <2>4, <2>5 DEF RuntimeInv
<1>9. ASSUME NEW b \in Probers, ReleaseIfCurrent(b) PROVE RuntimeInv'
  <2> DEFINE k == KeyOf[probe[b].profile]
  <2>1. /\ probe[b].phase = "idle" /\ probe' = [probe EXCEPT ![b] = NoProbe]
        /\ UNCHANGED <<pc, seq, sequence, busy>>
        /\ waiting' \cup granted' \subseteq waiting \cup granted
    BY <1>9 DEF ReleaseIfCurrent, DispatchLocked
  <2>2. probe[b] \in Probes /\ k \in Keys
    BY <2>1, ProfilesAssumption DEF SlotInv, TypeOK, NoProbe, Probes
  <2>3. CASE epoch[k] # probe[b].epoch
    <3>1. UNCHANGED <<quarantined, epoch>>
      BY <1>9, <2>3 DEF ReleaseIfCurrent
    <3>2. Epochs'
      BY <2>1, <3>1 DEF RuntimeInv, Epochs, Probing, SlotInv, TypeOK
    <3>3. Confirmed' /\ CancelledStaysQuarantined' /\ OneAttached'
      BY <2>1, <3>1 DEF RuntimeInv, Confirmed, CancelledStaysQuarantined, OneAttached, NoProbe,
                        SlotInv, TypeOK, Key, Local
    <3>4. QED
      BY <3>2, <3>3 DEF RuntimeInv
  <2>4. CASE epoch[k] = probe[b].epoch
    <3>1. quarantined' = quarantined \ {k} /\ epoch' = [epoch EXCEPT ![k] = 0]
      BY <1>9, <2>4 DEF ReleaseIfCurrent
    <3>2. \A q \in busy : Key(q) = k => pc[q] \in {"inflight", "lost"}
      BY <2>1, <2>4 DEF RuntimeInv, Confirmed
    <3>3. Epochs'
      <4>1. \A q \in waiting \cup granted : seq[q] # 0
        BY DEF SlotInv, Tickets
      <4>2. QED
        BY <2>1, <2>2, <3>1, <4>1 DEF RuntimeInv, Epochs, Probing, SlotInv, TypeOK
    <3>4. Confirmed'
      BY <2>1, <2>2, <3>1, <3>2 DEF RuntimeInv, Confirmed, NoProbe, SlotInv, TypeOK, Key, Local
    <3>5. CancelledStaysQuarantined' /\ OneAttached'
      BY <2>1, <3>1, <3>2 DEF RuntimeInv, CancelledStaysQuarantined, OneAttached, Key
    <3>6. QED
      BY <3>3, <3>4, <3>5 DEF RuntimeInv
  <2>5. QED
    BY <2>3, <2>4
<1>10. ASSUME NEW b \in Probers, \/ \E p \in LocalProfiles : StartProbe(b, p)
                                \/ ObserveIdle(b) \/ GiveUpProbe(b)
       PROVE  RuntimeInv'
  <2>1. UNCHANGED <<pc, memory, rows, runtime, restarts>>
    BY <1>10 DEF StartProbe, ObserveIdle, GiveUpProbe
  <2>2. CancelledStaysQuarantined' /\ OneAttached'
    BY <2>1 DEF RuntimeInv, CancelledStaysQuarantined, OneAttached, Key
  <2>3. ASSUME NEW p \in LocalProfiles, StartProbe(b, p) PROVE Epochs' /\ Confirmed'
    <3>1. KeyOf[p] \in Keys
      BY ProfilesAssumption
    <3>2. /\ probe' = [probe EXCEPT ![b] = [phase |-> "polling", profile |-> p,
                                           epoch |-> epoch[KeyOf[p]]]]
          /\ probe \in [Probers -> Probes \cup {NoProbe}]
      BY <2>3 DEF StartProbe, SlotInv, TypeOK
    <3>3. QED
      BY <2>1, <3>1, <3>2 DEF RuntimeInv, Epochs, Confirmed, Probing, NoProbe, Key, Local
  <2>4. CASE ObserveIdle(b)
    <3>1. /\ probe \in [Probers -> Probes \cup {NoProbe}] /\ probe[b] \in Probes
          /\ probe' = [probe EXCEPT ![b] = [probe[b] EXCEPT !.phase = "idle"]]
          /\ \A q \in busy : ProfileOf[q] # probe[b].profile
      BY <2>4 DEF ObserveIdle, SlotInv, TypeOK, NoProbe
    <3>2. /\ probe'[b].profile = probe[b].profile /\ probe'[b].epoch = probe[b].epoch
          /\ probe[b].profile \in LocalProfiles /\ probe[b] # NoProbe /\ probe'[b] # NoProbe
          /\ \A c \in Probers \ {b} : probe'[c] = probe[c]
      BY <3>1 DEF Probes, NoProbe
    <3>3. \A q \in busy : Key(q) # KeyOf[probe[b].profile]
      BY <3>1, <3>2 DEF RuntimeInv, Confirmed, Local, Key, OneRuntimePerKey
    <3>4. Epochs'
      BY <2>1, <3>2 DEF RuntimeInv, Epochs, Probing
    <3>5. Confirmed'
      BY <2>1, <3>2, <3>3 DEF RuntimeInv, Confirmed, Key, Local
    <3>6. QED
      BY <3>4, <3>5, <2>2 DEF RuntimeInv
  <2>5. CASE GiveUpProbe(b)
    <3>1. /\ probe' = [probe EXCEPT ![b] = NoProbe]
          /\ probe \in [Probers -> Probes \cup {NoProbe}]
      BY <2>5 DEF GiveUpProbe, SlotInv, TypeOK
    <3>2. QED
      BY <2>1, <2>2, <3>1 DEF RuntimeInv, Epochs, Confirmed, Probing, NoProbe, Key, Local
  <2>6. QED
    BY <1>10, <2>2, <2>3, <2>4, <2>5 DEF RuntimeInv
<1>11. CASE Tick
  <2>1. UNCHANGED <<pc, waiting, granted, seq, sequence, quarantined, epoch, probe, busy>>
    BY <1>11 DEF Tick
  <2>2. QED
    BY <2>1, EpochsKept DEF RuntimeInv, Confirmed, CancelledStaysQuarantined, OneAttached, Key, Local
<1>12. CASE Restart
  <2>1. /\ quarantined' = {} /\ waiting' = {} /\ granted' = {} /\ sequence' = 0 /\ busy' = busy
        /\ \A k \in Keys : epoch'[k] = 0
        /\ \A b \in Probers : probe'[b] = NoProbe
    BY <1>12 DEF Restart
  <2>2. \A q \in busy : pc'[q] = "lost"
    BY <1>12 DEF Restart, RuntimeInv, Confirmed, SlotInv, TypeOK
  <2>3. QED
    BY <2>1, <2>2 DEF RuntimeInv, Epochs, Confirmed, CancelledStaysQuarantined, OneAttached,
                      Probing, NoProbe, Local
<1>13. CASE UNCHANGED vars
  BY <1>13, EpochsKept DEF vars, RuntimeInv, Confirmed, CancelledStaysQuarantined, OneAttached, Key, Local
<1>14. QED
  BY <1>2, <1>3, <1>4, <1>6, <1>7, <1>8, <1>9, <1>10, <1>11, <1>12, <1>13, NextCases

\* When no two local runtimes share a resource key, a quarantine outlives the
\* cancelled generation it was raised for, and a runtime generates for two
\* requests of one process only behind a connection that broke.
THEOREM QuarantineSafety ==
  ASSUME OneRuntimePerKey
  PROVE  Spec => [](CancelledStaysQuarantined /\ LocalExclusive)
<1>1. Init => SlotInv /\ RuntimeInv
  BY SlotInvInit, RuntimeInvInit
<1>2. SlotInv /\ RuntimeInv /\ [Next]_vars => (SlotInv /\ RuntimeInv)'
  BY SlotInvStep, RuntimeInvStep
<1>3. RuntimeInv => CancelledStaysQuarantined /\ LocalExclusive
  BY DEF RuntimeInv, OneAttached, LocalExclusive
<1>4. QED
  BY <1>1, <1>2, <1>3, PTL DEF Spec

\* Under the same assumption no cancellation, deadline, probe or grant that races
\* them lets a second generation start on a local runtime: one of two that run at
\* once has lost its connection, after which Do frees the slot unconfirmed.
THEOREM OneGenerationPerRuntime ==
  ASSUME OneRuntimePerKey
  PROVE  Spec => []LocalExclusive
<1>1. Spec => [](CancelledStaysQuarantined /\ LocalExclusive)
  BY QuarantineSafety
<1>2. QED
  BY <1>1, PTL

---------------------------------------------------------------------------
(* The usage ledger                                                        *)

\* A call that has not begun has no row, so that its reservation starts clean.
LedgerInv == /\ LedgerHonest
             /\ \A q \in Requests : pc[q] = "idle" => ledger[q] = "none"

\* The only step that lets a provider work for a request also marks its row.
LEMMA LedgerInvStep == TypeOK /\ LedgerInv /\ [Next]_vars => LedgerInv'
<1> SUFFICES ASSUME TypeOK, LedgerInv, [Next]_vars PROVE LedgerInv'
  OBVIOUS
<1> USE DEF memory, rows, runtime, Goto, SetRow
\* A step of one call that leaves every other row, and what was used, alone.
<1>1. ASSUME NEW q \in Requests, NEW stage, stage # "idle", pc' = [pc EXCEPT ![q] = stage],
             UNCHANGED spent, NEW state,
             ledger' = [ledger EXCEPT ![q] = state],
             \/ state = ledger[q] \/ state \in {"dispatched", "reconciled", "uncertain"}
             \/ ledger[q] \in {"none", "reserved"}
      PROVE  LedgerInv'
  BY <1>1 DEF LedgerInv, LedgerHonest, TypeOK
<1>2. ASSUME NEW q \in Requests, NEW stage, stage # "idle", pc' = [pc EXCEPT ![q] = stage],
             UNCHANGED <<ledger, spent>>
      PROVE  LedgerInv'
  BY <1>2 DEF LedgerInv, LedgerHonest, TypeOK
<1>3. ASSUME UNCHANGED <<pc, ledger, spent>> PROVE LedgerInv'
  BY <1>3 DEF LedgerInv, LedgerHonest
<1>4. ASSUME NEW q \in Requests, Quiet(q) PROVE LedgerInv'
  <2>1. CASE Reserve(q)
    <3>1. ledger[q] = "none" /\ ledger' = [ledger EXCEPT ![q] = "reserved"]
      BY <2>1 DEF Reserve, LedgerInv
    <3>2. QED
      BY <1>1, <2>1, <3>1 DEF Reserve
  <2>2. CASE MarkDispatched(q)
    BY <2>2 DEF MarkDispatched, LedgerInv, LedgerHonest, TypeOK
  <2>3. CASE FinishBeforeDispatch(q)
    BY <1>1, <1>2, <2>3 DEF FinishBeforeDispatch
  <2>4. CASE MarkFails(q)
    BY <1>1, <1>2, <2>4 DEF MarkFails
  <2>5. CASE Reconcile(q)
    BY <1>1, <2>5 DEF Reconcile
  <2>6. CASE MarkUncertain(q)
    BY <1>1, <1>2, <2>6 DEF MarkUncertain
  <2>7. CASE ReserveRejected(q) \/ EnqueueRefused(q) \/ TakeGrant(q) \/ TakeRefusal(q)
             \/ ReconcileFails(q)
    BY <1>2, <2>7 DEF ReserveRejected, EnqueueRefused, TakeGrant, TakeRefusal, ReconcileFails
  <2>8. CASE RuntimeStops(q)
    BY <1>3, <2>8 DEF RuntimeStops
  <2>9. QED
    BY <1>4, <2>1, <2>2, <2>3, <2>4, <2>5, <2>6, <2>7, <2>8 DEF Quiet
<1>5. ASSUME NEW q \in Requests, Withdraw(q) PROVE LedgerInv'
  <2>1. PICK stage \in {"refused", "giveback"} : pc' = [pc EXCEPT ![q] = stage]
    BY <1>5 DEF Withdraw
  <2>2. QED
    BY <1>2, <1>5, <2>1 DEF Withdraw
<1>6. ASSUME NEW q \in Requests,
             \/ Enqueue(q) \/ GiveBack(q) \/ ReleaseUnmarked(q)
             \/ Answer(q) \/ Disconnect(q) \/ Abandon(q)
      PROVE  LedgerInv'
  BY <1>2, <1>6 DEF Enqueue, GiveBack, ReleaseUnmarked, Answer, Disconnect, Abandon
<1>7. ASSUME NEW b \in Probers, \/ \E p \in LocalProfiles : StartProbe(b, p)
                               \/ ObserveIdle(b) \/ ReleaseIfCurrent(b) \/ GiveUpProbe(b)
      PROVE  LedgerInv'
  BY <1>3, <1>7 DEF StartProbe, ObserveIdle, ReleaseIfCurrent, GiveUpProbe
<1>8. CASE Tick
  BY <1>3, <1>8 DEF Tick
<1>9. CASE Restart
  <2>1. \A q \in Requests : /\ ledger'[q] = IF ledger[q] = "dispatched" THEN "uncertain" ELSE ledger[q]
                            /\ pc'[q] = "idle" => pc[q] = "idle"
    BY <1>9 DEF Restart
  <2>2. UNCHANGED spent
    BY <1>9 DEF Restart
  <2>3. QED
    BY <2>1, <2>2 DEF LedgerInv, LedgerHonest
<1>10. CASE UNCHANGED vars
  BY <1>3, <1>10 DEF vars
<1>11. QED
  BY <1>4, <1>5, <1>6, <1>7, <1>8, <1>9, <1>10, NextCases

\* No row ever claims that its provider was not called when it was, whatever
\* update failed and wherever the process stopped.
THEOREM LedgerHonesty == Spec => []LedgerHonest
<1>1. Init => TypeOK /\ LedgerInv
  <2>1. Init => LedgerInv
    BY DEF Init, LedgerInv, LedgerHonest
  <2>2. QED
    BY <2>1, SlotInvInit DEF SlotInv
<1>2. TypeOK /\ LedgerInv /\ [Next]_vars => LedgerInv'
  BY LedgerInvStep
<1>3. LedgerInv => LedgerHonest
  BY DEF LedgerInv
<1>4. QED
  BY TypeCorrect, <1>1, <1>2, <1>3, PTL DEF Spec

---------------------------------------------------------------------------
(* Sums over finite sets                                                   *)

\* Induction over the natural numbers, for a set of them.
LEMMA NaturalsReached ==
  ASSUME NEW P, P \subseteq Nat, 0 \in P, \A n \in P : n + 1 \in P
  PROVE  P = Nat
<1>1. SUFFICES ASSUME Nat \ P # {} PROVE FALSE
  OBVIOUS
<1>2. PICK n \in Nat \ P : \A m \in Nat \ P : n <= m
  BY <1>1, LeastNatural
<1>3. n - 1 \in P
  BY <1>2
<1>4. QED
  BY <1>2, <1>3

\* The element a sum takes next.
Element(s) == CHOOSE x \in s : TRUE

\* Induction over the subsets of a finite set, along the elements a sum takes.
LEMMA SubsetsReached ==
  ASSUME NEW S, IsFiniteSet(S), NEW P, {} \in P,
         \A s \in SUBSET S : s # {} /\ s \ {Element(s)} \in P => s \in P
  PROVE  \A s \in SUBSET S : s \in P
<1> DEFINE Reached == {n \in Nat : \A s \in SUBSET S : Cardinality(s) = n => s \in P}
<1>1. \A s \in SUBSET S : IsFiniteSet(s) /\ Cardinality(s) \in Nat
  BY FS_Subset, FS_CardinalityType
<1>2. 0 \in Reached
  BY <1>1, FS_EmptySet
<1>3. ASSUME NEW n \in Reached PROVE n + 1 \in Reached
  <2>1. ASSUME NEW s \in SUBSET S, Cardinality(s) = n + 1 PROVE s \in P
    <3>1. s # {}
      BY <2>1, FS_EmptySet
    <3>2. Element(s) \in s
      BY <3>1 DEF Element
    <3>3. Cardinality(s \ {Element(s)}) = Cardinality(s) - 1
      BY <1>1, <3>2, FS_RemoveElement
    <3>4. Cardinality(s \ {Element(s)}) = n
      BY <2>1, <3>3
    <3>5. QED
      BY <3>1, <3>4
  <2>2. QED
    BY <2>1
<1>4. Reached = Nat
  <2> HIDE DEF Reached
  <2>1. Reached \subseteq Nat
    BY DEF Reached
  <2>2. QED
    BY <1>2, <1>3, <2>1, NaturalsReached
<1>5. QED
  BY <1>1, <1>4

\* g is what SumFunctionOnSet computes on the subsets of S.
Sums(f, S, g) ==
  g = [s \in SUBSET S |-> IF s = {} THEN 0 ELSE f[Element(s)] + g[s \ {Element(s)}]]

SumsOf(f, S) == CHOOSE g : Sums(f, S, g)

\* The definition of a sum by recursion is one: the sums of the subsets of up to
\* n elements are there for every n.
LEMMA SumsExist ==
  ASSUME NEW f, NEW S, IsFiniteSet(S)
  PROVE  Sums(f, S, SumsOf(f, S))
<1> DEFINE Small(n) == {s \in SUBSET S : Cardinality(s) <= n}
           More(n, g) == [s \in Small(n) |-> IF s = {} THEN 0 ELSE f[Element(s)] + g[s \ {Element(s)}]]
           Reached == {n \in Nat : \E g : g = More(n, g)}
<1>1. \A s \in SUBSET S : IsFiniteSet(s) /\ Cardinality(s) \in Nat
  BY FS_Subset, FS_CardinalityType
<1>2. 0 \in Reached
  <2>1. \A s \in Small(0) : s = {}
    BY <1>1, FS_EmptySet
  <2>2. [s \in Small(0) |-> 0] = More(0, [s \in Small(0) |-> 0])
    BY <2>1
  <2>3. QED
    BY <2>2
<1>3. ASSUME NEW n \in Reached PROVE n + 1 \in Reached
  <2>1. PICK g : g = More(n, g)
    OBVIOUS
  <2> DEFINE h == More(n + 1, g)
  <2>2. ASSUME NEW s \in Small(n + 1), s # {}
        PROVE  s \ {Element(s)} \in Small(n)
    <3>1. Element(s) \in s
      BY <2>2 DEF Element
    <3>2. Cardinality(s \ {Element(s)}) = Cardinality(s) - 1
      BY <1>1, <3>1, FS_RemoveElement
    <3>3. QED
      BY <1>1, <3>2
  <2>3. \A s \in Small(n) : s \in Small(n + 1)
    BY <1>1
  <2>4. \A s \in Small(n) : h[s] = g[s]
    BY <2>1, <2>3
  <2>5. h = More(n + 1, h)
    BY <2>2, <2>4
  <2> HIDE DEF h, More
  <2>6. QED
    BY <2>5
<1>4. Reached = Nat
  <2> HIDE DEF Reached
  <2>1. Reached \subseteq Nat
    BY DEF Reached
  <2>2. QED
    BY <1>2, <1>3, <2>1, NaturalsReached
<1>5. Small(Cardinality(S)) = SUBSET S
  BY <1>1, FS_Subset
<1>6. PICK g : g = More(Cardinality(S), g)
  BY <1>1, <1>4
<1>7. Sums(f, S, g)
  BY <1>5, <1>6 DEF Sums
<1>8. QED
  BY <1>7 DEF SumsOf

\* g holds the sums of f over the subsets of S.
Totals(f, S, g) ==
  /\ SumFunctionOnSet(f, S) = g[S] /\ g[{}] = 0
  /\ \A s \in SUBSET S : s # {} => g[s] = f[Element(s)] + g[s \ {Element(s)}]

LEMMA SumStep ==
  ASSUME NEW f, NEW S, IsFiniteSet(S)
  PROVE  \E g : Totals(f, S, g)
<1> DEFINE g == SumsOf(f, S)
<1>1. SumFunctionOnSet(f, S) = g[S]
  BY DEF SumFunctionOnSet, FoldFunctionOnSet, MapThenFoldSet, SumsOf, Sums, Element
<1>2. Sums(f, S, g)
  BY SumsExist
<1> HIDE DEF g
<1>3. g = [s \in SUBSET S |-> IF s = {} THEN 0 ELSE f[Element(s)] + g[s \ {Element(s)}]]
  BY <1>2 DEF Sums
<1>4. g[{}] = 0
  BY <1>3
<1>5. ASSUME NEW s \in SUBSET S, s # {}
      PROVE  g[s] = f[Element(s)] + g[s \ {Element(s)}]
  BY <1>3, <1>5
<1>6. Totals(f, S, g)
  BY <1>1, <1>4, <1>5 DEF Totals
<1>7. QED
  BY <1>6

\* The sum of nothing but zeros.
LEMMA SumOfZeros ==
  ASSUME NEW f, NEW S, IsFiniteSet(S), \A x \in S : f[x] = 0
  PROVE  SumFunctionOnSet(f, S) = 0
<1>1. PICK g : Totals(f, S, g)
  BY SumStep
<1> DEFINE P == {s \in SUBSET S : g[s] = 0}
<1>2. {} \in P
  BY <1>1 DEF Totals
<1>3. ASSUME NEW s \in SUBSET S, s # {}, s \ {Element(s)} \in P PROVE s \in P
  <2>1. Element(s) \in S
    BY <1>3 DEF Element
  <2>2. g[s] = f[Element(s)] + g[s \ {Element(s)}] /\ f[Element(s)] = 0
    BY <1>1, <1>3, <2>1 DEF Totals
  <2>3. g[s \ {Element(s)}] = 0
    BY <1>3
  <2>4. QED
    BY <2>2, <2>3
<1> HIDE DEF P
<1>4. S \in P
  BY <1>2, <1>3, SubsetsReached
<1>5. QED
  BY <1>1, <1>4 DEF P, Totals

\* A sum whose terms do not grow, except that of x by c, grows by c at most.
LEMMA SumGrows ==
  ASSUME NEW f, NEW h, NEW S, IsFiniteSet(S), NEW x, NEW c \in Nat,
         \A y \in S : /\ f[y] \in Nat /\ h[y] \in Nat
                      /\ h[y] <= f[y] + (IF y = x THEN c ELSE 0)
  PROVE  /\ SumFunctionOnSet(f, S) \in Nat /\ SumFunctionOnSet(h, S) \in Nat
         /\ SumFunctionOnSet(h, S) <= SumFunctionOnSet(f, S) + c
<1>1. PICK F : Totals(f, S, F)
  BY SumStep
<1>2. PICK H : Totals(h, S, H)
  BY SumStep
<1> DEFINE Grown(s) == IF x \in s THEN c ELSE 0
           P == {s \in SUBSET S : F[s] \in Nat /\ H[s] \in Nat /\ H[s] <= F[s] + Grown(s)}
<1>3. {} \in P
  BY <1>1, <1>2 DEF Totals
<1>4. ASSUME NEW s \in SUBSET S, s # {}, s \ {Element(s)} \in P PROVE s \in P
  <2> DEFINE e == Element(s)
             rest == s \ {e}
  <2>1. e \in s
    BY <1>4 DEF Element
  <2>2. F[s] = f[e] + F[rest] /\ H[s] = h[e] + H[rest]
    BY <1>1, <1>2, <1>4 DEF Totals
  <2>3. F[rest] \in Nat /\ H[rest] \in Nat /\ H[rest] <= F[rest] + Grown(rest)
    BY <1>4
  <2> HIDE DEF e
  <2>4. Grown(s) = Grown(rest) + (IF e = x THEN c ELSE 0) /\ Grown(rest) \in Nat
    BY <2>1
  <2>5. f[e] \in Nat /\ h[e] \in Nat /\ h[e] <= f[e] + (IF e = x THEN c ELSE 0)
    BY <2>1
  <2> HIDE DEF rest, Grown
  <2>6. F[s] \in Nat /\ H[s] \in Nat /\ H[s] <= F[s] + Grown(s)
    BY <2>2, <2>3, <2>4, <2>5
  <2>7. QED
    BY <2>6
<1>5. P \subseteq SUBSET S
  OBVIOUS
<1>6. \A s \in P : F[s] \in Nat /\ H[s] \in Nat /\ H[s] <= F[s] + c
  OBVIOUS
<1> HIDE DEF P
<1>7. S \in P
  BY <1>3, <1>4, SubsetsReached
<1>8. QED
  BY <1>1, <1>2, <1>6, <1>7 DEF Totals

---------------------------------------------------------------------------
(* Budgets                                                                 *)

\* The columns of q's row, and what its provider used, from one step to the next.
RowMoves(q) ==
  \/ /\ ledger'[q] = ledger[q] /\ charged'[q] = charged[q] /\ spent'[q] = spent[q]
  \/ /\ ledger[q] = "reserved" /\ ledger'[q] = "dispatched" /\ charged'[q] = charged[q]
     /\ spent'[q] \in 1..Cost[q]
  \/ /\ ledger[q] \in {"reserved", "dispatched"}
     /\ ledger'[q] \in {"cancelled_before_dispatch", "dispatched", "uncertain"}
     /\ charged'[q] = charged[q] /\ spent'[q] = spent[q]
  \/ /\ ledger[q] = "dispatched" /\ ledger'[q] = "reconciled" /\ charged'[q] \in {spent[q], Cost[q]}
     /\ spent'[q] = spent[q]

LEMMA LedgerMoves ==
  ASSUME TypeOK, [Next]_vars
  PROVE  \/ \E q \in Requests : Reserve(q)
         \/ \A q \in Requests : RowMoves(q)
<1> USE DEF memory, rows, runtime, Goto, SetRow
<1>1. ASSUME UNCHANGED <<ledger, charged, spent>> PROVE \A q \in Requests : RowMoves(q)
  BY <1>1 DEF RowMoves
<1>2. ASSUME NEW q \in Requests, UNCHANGED <<charged, spent>>, NEW state, ledger' = [ledger EXCEPT ![q] = state],
             ledger[q] \in {"reserved", "dispatched"}, state \in {"cancelled_before_dispatch", "dispatched", "uncertain"}
      PROVE  \A r \in Requests : RowMoves(r)
  BY <1>2 DEF RowMoves, TypeOK
<1>3. ASSUME NEW q \in Requests, Quiet(q), ~Reserve(q) PROVE \A r \in Requests : RowMoves(r)
  <2>1. CASE MarkDispatched(q)
    <3>1. PICK n \in 1..Cost[q] : spent' = [spent EXCEPT ![q] = n]
      BY <2>1 DEF MarkDispatched
    <3>2. QED
      BY <2>1, <3>1 DEF MarkDispatched, RowMoves, TypeOK
  <2>2. CASE Reconcile(q)
    <3>1. PICK n \in {spent[q], Cost[q]} : charged' = [charged EXCEPT ![q] = n]
      BY <2>2 DEF Reconcile
    <3>2. QED
      BY <2>2, <3>1 DEF Reconcile, RowMoves, TypeOK
  <2>3. CASE FinishBeforeDispatch(q) \/ MarkFails(q) \/ MarkUncertain(q)
    BY <1>1, <1>2, <2>3 DEF FinishBeforeDispatch, MarkFails, MarkUncertain
  <2>4. CASE \/ ReserveRejected(q) \/ EnqueueRefused(q) \/ TakeGrant(q) \/ TakeRefusal(q)
             \/ ReconcileFails(q) \/ RuntimeStops(q)
    BY <1>1, <2>4 DEF ReserveRejected, EnqueueRefused, TakeGrant, TakeRefusal, ReconcileFails, RuntimeStops
  <2>5. QED
    BY <1>3, <2>1, <2>2, <2>3, <2>4 DEF Quiet
<1>4. ASSUME NEW q \in Requests, \/ Enqueue(q) \/ Withdraw(q) \/ GiveBack(q)
                                 \/ ReleaseUnmarked(q) \/ Answer(q) \/ Disconnect(q) \/ Abandon(q)
      PROVE  \A r \in Requests : RowMoves(r)
  BY <1>1, <1>4 DEF Enqueue, Withdraw, GiveBack, ReleaseUnmarked, Answer, Disconnect, Abandon
<1>5. ASSUME NEW b \in Probers, \/ \E p \in LocalProfiles : StartProbe(b, p)
                               \/ ObserveIdle(b) \/ ReleaseIfCurrent(b) \/ GiveUpProbe(b)
      PROVE  \A r \in Requests : RowMoves(r)
  BY <1>1, <1>5 DEF StartProbe, ObserveIdle, ReleaseIfCurrent, GiveUpProbe
<1>6. CASE Tick
  BY <1>1, <1>6 DEF Tick
<1>7. CASE Restart
  BY <1>7 DEF Restart, RowMoves
<1>8. CASE UNCHANGED vars
  BY <1>1, <1>8 DEF vars
<1>9. QED
  BY <1>3, <1>4, <1>5, <1>6, <1>7, <1>8, NextCases

(***************************************************************************)
(* What counts against a scope fits its budget, and covers what providers  *)
(* used: a call uses no more than was reserved for it, and no less than    *)
(* that is charged once its row is reconciled.                             *)
(***************************************************************************)
BudgetInv ==
  /\ \A s \in Scopes : Used(s) <= Budget[s]
  /\ \A q \in Requests : /\ spent[q] <= Cost[q]
                         /\ ledger[q] = "reconciled" => spent[q] <= charged[q] /\ charged[q] <= Cost[q]

LEMMA CountedType == ASSUME TypeOK, NEW q \in Requests PROVE Counted(q) \in Nat
BY RequestsAssumption DEF TypeOK, Counted

LEMMA ScopesAreFinite == ASSUME NEW s PROVE IsFiniteSet(ChargedTo(s)) /\ ChargedTo(s) \subseteq Requests
BY RequestsAssumption, FS_Subset DEF ChargedTo

\* A row that moves counts for no more than it did.
LEMMA CountsShrink ==
  ASSUME TypeOK, BudgetInv, NEW q \in Requests, RowMoves(q)
  PROVE  Counted(q)' <= Counted(q)
<1>1. Cost[q] \in Nat /\ spent[q] \in Nat /\ charged[q] \in Nat /\ spent[q] <= Cost[q]
  BY RequestsAssumption DEF TypeOK, BudgetInv
<1>2. Counted(q)' = CASE ledger'[q] = "reconciled" -> charged'[q]
                      [] ledger'[q] \in {"reserved", "dispatched", "uncertain"} -> Cost[q]
                      [] OTHER -> 0
  BY DEF Counted
<1>3. QED
  BY <1>1, <1>2 DEF Counted, RowMoves, TypeOK

LEMMA UsedGrows ==
  ASSUME TypeOK, TypeOK', NEW s, NEW x, NEW c \in Nat,
         \A q \in ChargedTo(s) : Counted(q)' <= Counted(q) + (IF q = x THEN c ELSE 0)
  PROVE  Used(s) \in Nat /\ Used(s)' \in Nat /\ Used(s)' <= Used(s) + c
<1> DEFINE f == [q \in Requests |-> Counted(q)]
           h == [q \in Requests |-> Counted(q)']
<1>1. \A q \in ChargedTo(s) : /\ f[q] \in Nat /\ h[q] \in Nat
                              /\ h[q] <= f[q] + (IF q = x THEN c ELSE 0)
  <2>1. \A q \in Requests : Counted(q) \in Nat /\ Counted(q)' \in Nat
    <3>1. ASSUME TypeOK, NEW q \in Requests PROVE Counted(q) \in Nat
      BY <3>1, CountedType
    <3>2. ASSUME NEW q \in Requests PROVE Counted(q)' \in Nat
      BY RequestsAssumption DEF TypeOK, Counted
    <3>3. QED
      BY <3>1, <3>2
  <2>2. QED
    BY <2>1, ScopesAreFinite
<1>2. Used(s) = SumFunctionOnSet(f, ChargedTo(s)) /\ Used(s)' = SumFunctionOnSet(h, ChargedTo(s))
  BY DEF Used, ChargedTo
<1> HIDE DEF f, h
<1>3. QED
  BY <1>1, <1>2, ScopesAreFinite, SumGrows

LEMMA BudgetInvStep == TypeOK /\ TypeOK' /\ LedgerInv /\ BudgetInv /\ [Next]_vars => BudgetInv'
<1> SUFFICES ASSUME TypeOK, TypeOK', LedgerInv, BudgetInv, [Next]_vars PROVE BudgetInv'
  OBVIOUS
<1>1. \A q \in Requests : Cost[q] \in Nat /\ Counted(q) \in Nat
  BY RequestsAssumption, CountedType
<1>2. \A s \in Scopes : Budget[s] \in Nat
  BY LimitsAssumption
<1>3. CASE \A q \in Requests : RowMoves(q)
  <2>1. \A q \in Requests : /\ spent'[q] <= Cost[q]
                            /\ ledger'[q] = "reconciled" => spent'[q] <= charged'[q] /\ charged'[q] <= Cost[q]
    BY <1>1, <1>3 DEF RowMoves, BudgetInv, TypeOK
  <2>2. ASSUME NEW s \in Scopes PROVE Used(s)' <= Budget[s]
    <3>1. \A q \in ChargedTo(s) : Counted(q)' <= Counted(q)
      BY <1>3, CountsShrink, ScopesAreFinite
    <3>2. \A q \in ChargedTo(s) : Counted(q)' <= Counted(q) + (IF q = s THEN 0 ELSE 0)
      BY <1>1, <3>1, ScopesAreFinite
    <3>3. Used(s) \in Nat /\ Used(s)' \in Nat /\ Used(s)' <= Used(s) + 0
      BY <3>2, UsedGrows
    <3>4. QED
      BY <1>2, <3>3 DEF BudgetInv
  <2>3. QED
    BY <2>1, <2>2 DEF BudgetInv
<1>4. ASSUME NEW q \in Requests, Reserve(q) PROVE BudgetInv'
  <2>1. /\ ledger' = [ledger EXCEPT ![q] = "reserved"] /\ UNCHANGED <<charged, spent>> /\ Fits(q)
        /\ ledger[q] = "none"
    BY <1>4 DEF Reserve, SetRow, runtime, LedgerInv
  <2>2. \A r \in Requests : Counted(r)' <= Counted(r) + (IF r = q THEN Cost[q] ELSE 0)
    <3>1. ASSUME NEW r \in Requests, r # q PROVE Counted(r)' = Counted(r)
      BY <2>1, <3>1 DEF Counted, TypeOK
    <3>2. Counted(q)' = Cost[q] /\ Counted(q) = 0
      BY <2>1 DEF Counted, TypeOK
    <3>3. QED
      BY <1>1, <3>1, <3>2
  <2>3. ASSUME NEW s \in Scopes PROVE Used(s)' <= Budget[s]
    <3>1. CASE s \in ScopesOf[q]
      <4>1. Used(s) \in Nat /\ Used(s)' \in Nat /\ Used(s)' <= Used(s) + Cost[q]
        BY <1>1, <2>2, UsedGrows, ScopesAreFinite
      <4>2. Used(s) + Cost[q] <= Budget[s]
        BY <2>1, <3>1 DEF Fits
      <4>3. QED
        BY <1>1, <1>2, <4>1, <4>2
    <3>2. CASE s \notin ScopesOf[q]
      <4>1. \A r \in ChargedTo(s) : Counted(r)' <= Counted(r) + (IF r = q THEN 0 ELSE 0)
        BY <1>1, <2>2, <3>2 DEF ChargedTo
      <4>2. Used(s) \in Nat /\ Used(s)' \in Nat /\ Used(s)' <= Used(s) + 0
        BY <4>1, UsedGrows
      <4>3. QED
        BY <1>2, <4>2 DEF BudgetInv
    <3>3. QED
      BY <3>1, <3>2
  <2>4. \A r \in Requests : /\ spent'[r] <= Cost[r]
                            /\ ledger'[r] = "reconciled" => spent'[r] <= charged'[r] /\ charged'[r] <= Cost[r]
    BY <2>1 DEF BudgetInv, TypeOK
  <2>5. QED
    BY <2>3, <2>4 DEF BudgetInv
<1>5. QED
  BY <1>3, <1>4, LedgerMoves

\* A row counts for what its provider used, or more.
LEMMA CountedCovers ==
  ASSUME TypeOK, LedgerInv, BudgetInv, NEW s \in Scopes
  PROVE  SumFunctionOnSet(spent, ChargedTo(s)) <= Budget[s]
<1> DEFINE f == [q \in Requests |-> Counted(q)]
<1>1. \A q \in Requests : Counted(q) \in Nat /\ spent[q] \in Nat /\ spent[q] <= Counted(q)
  BY CountedType, RequestsAssumption DEF TypeOK, LedgerInv, LedgerHonest, BudgetInv, Counted, RowStates
<1>2. \A q \in ChargedTo(s) : f[q] \in Nat /\ spent[q] \in Nat /\ spent[q] <= f[q] + (IF q = s THEN 0 ELSE 0)
  BY <1>1, ScopesAreFinite
<1>3. Used(s) = SumFunctionOnSet(f, ChargedTo(s))
  BY DEF Used
<1> HIDE DEF f
<1>4. /\ SumFunctionOnSet(spent, ChargedTo(s)) \in Nat /\ Used(s) \in Nat
      /\ SumFunctionOnSet(spent, ChargedTo(s)) <= Used(s) + 0
  BY <1>2, <1>3, ScopesAreFinite, SumGrows
<1>5. QED
  BY <1>4, LimitsAssumption DEF BudgetInv

\* What providers really used for a scope never exceeds its budget, whatever
\* update of a row failed and wherever the process stopped: the reservation of a
\* row in doubt goes on counting.
THEOREM BudgetsAreHeld == Spec => []BudgetHeld
<1>1. Init => TypeOK /\ LedgerInv /\ BudgetInv
  <2>1. Init => TypeOK
    BY SlotInvInit DEF SlotInv
  <2>2. Init => LedgerInv
    BY DEF Init, LedgerInv, LedgerHonest
  <2>3. ASSUME Init PROVE BudgetInv
    <3>1. \A q \in Requests : Cost[q] \in Nat /\ spent[q] = 0 /\ ledger[q] = "none"
      BY <2>3, RequestsAssumption DEF Init
    <3>2. ASSUME NEW s \in Scopes PROVE Used(s) <= Budget[s]
      <4> DEFINE f == [q \in Requests |-> Counted(q)]
      <4>1. \A q \in ChargedTo(s) : f[q] = 0
        BY <3>1, ScopesAreFinite DEF Counted
      <4>2. Used(s) = SumFunctionOnSet(f, ChargedTo(s))
        BY DEF Used
      <4> HIDE DEF f
      <4>3. Used(s) = 0
        BY <4>1, <4>2, ScopesAreFinite, SumOfZeros
      <4>4. QED
        BY <4>3, LimitsAssumption
    <3>3. QED
      BY <3>1, <3>2 DEF BudgetInv
  <2>4. QED
    BY <2>1, <2>2, <2>3
<1>2. TypeOK /\ TypeOK' /\ LedgerInv /\ BudgetInv /\ [Next]_vars => LedgerInv' /\ BudgetInv'
  BY LedgerInvStep, BudgetInvStep
<1>3. TypeOK /\ LedgerInv /\ BudgetInv => BudgetHeld
  BY CountedCovers DEF BudgetHeld
<1>4. QED
  BY TypeCorrect, <1>1, <1>2, <1>3, PTL DEF Spec

---------------------------------------------------------------------------
(* Aging                                                                   *)

\* A ticket that has waited out its rank is ahead of every later ticket of its
\* resource in the order of dispatchLocked.
LEMMA AgedIsAhead ==
  waited \in [Requests -> Nat] /\ seq \in [Requests -> Nat] =>
    \A q, w \in Requests : Overtakes(q, w) => ~Before(q, w)
<1> SUFFICES ASSUME waited \in [Requests -> Nat], seq \in [Requests -> Nat],
                    NEW q \in Requests, NEW w \in Requests, Overtakes(q, w)
             PROVE  ~Before(q, w)
  OBVIOUS
<1>1. Effective(w) = 0
  <2>1. waited[w] \in Nat /\ Rank[w] \in Nat /\ AgingTicks \in Nat \ {0}
        /\ waited[w] >= Rank[w] * AgingTicks
    BY LimitsAssumption, RequestsAssumption DEF Overtakes
  <2>2. waited[w] \div AgingTicks >= Rank[w]
    BY <2>1
  <2>3. waited[w] \div AgingTicks \in Int
    BY <2>1
  <2>4. QED
    BY <2>1, <2>2, <2>3 DEF Effective
<1>2. Effective(q) \in Int /\ Effective(q) >= 0
  BY LimitsAssumption, RequestsAssumption DEF Effective
<1>3. QED
  BY <1>1, <1>2 DEF Before, Overtakes

\* Once a ticket has waited out its rank, nothing that joined its resource
\* later is granted before it: background work is not starved.
THEOREM NoStarvation == Spec => AgedNeverOvertaken
<1> DEFINE Fair == \A q \in granted' \ granted, w \in waiting' : ~Overtakes(q, w)'
<1>1. (waited \in [Requests -> Nat] /\ seq \in [Requests -> Nat] =>
        \A q, w \in Requests : Overtakes(q, w) => ~Before(q, w))'
  BY AgedIsAhead, PTL
<1>2. ASSUME SlotInv, SlotInv', NEW W, NEW held, DispatchPost(W, held), held \subseteq granted
      PROVE  Fair
  <2>1. waited' \in [Requests -> Nat] /\ seq' \in [Requests -> Nat]
        /\ waiting' \subseteq Requests /\ granted' \subseteq Requests
    BY <1>2 DEF SlotInv, TypeOK
  <2>2. ASSUME NEW q \in granted' \ granted, NEW w \in waiting', Overtakes(q, w)' PROVE FALSE
    <3>1. q \in W \ waiting'
      BY <1>2 DEF DispatchPost
    <3>2. Key(q) = Key(w) /\ Local(q) = Local(w)
      BY <2>2 DEF Overtakes, Key, Local
    <3>3. Before(q, w)'
      BY <1>2, <3>1, <3>2 DEF DispatchPost
    <3>4. QED
      BY <1>1, <2>1, <2>2, <3>3
  <2>3. QED
    BY <2>2
<1>3. ASSUME SlotInv, SlotInv', [Next]_vars PROVE Fair \/ UNCHANGED vars
  <2> USE DEF memory, rows, runtime
  <2>1. ASSUME granted' \subseteq granted PROVE Fair
    BY <2>1
  <2>2. ASSUME NEW q \in Requests, Release(q) PROVE Fair
    BY <1>2, <1>3, <2>2, ReleaseStep
  <2>3. ASSUME NEW q \in Requests, Quiet(q) \/ Withdraw(q) PROVE Fair
    BY <2>1, <2>3 DEF Quiet, Reserve, ReserveRejected, EnqueueRefused, TakeGrant, TakeRefusal,
                FinishBeforeDispatch, MarkDispatched, MarkFails, Reconcile, ReconcileFails,
                MarkUncertain, RuntimeStops, Withdraw
  <2>4. ASSUME NEW q \in Requests, Enqueue(q) PROVE Fair
    <3>1. DispatchLocked(waiting \cup {q}, granted, globalActive, resourceActive)
      BY <2>4 DEF Enqueue
    <3>2. DispatchPre(waiting \cup {q}, granted, globalActive, resourceActive)
      <4>1. /\ pc[q] = "admitted" /\ seq' = [seq EXCEPT ![q] = sequence + 1]
            /\ UNCHANGED quarantined /\ Key(q) \notin quarantined
        BY <2>4 DEF Enqueue
      <4>2. \A r, t \in waiting \cup {q} : seq'[r] = seq'[t] => r = t
        BY <1>3, <4>1 DEF SlotInv, TypeOK, Tickets
      <4>3. /\ waiting \cup {q} \in SUBSET Requests /\ granted \in SUBSET Requests
            /\ (waiting \cup {q}) \cap granted = {}
            /\ waited' \in [Requests -> Nat] /\ seq' \in [Requests -> Nat]
            /\ \A w \in waiting \cup {q} : Key(w) \notin quarantined'
            /\ \A r, t \in granted : Local(r) /\ Local(t) /\ Key(r) = Key(t) => r = t
        BY <1>3, <4>1 DEF SlotInv, TypeOK, Tickets, Quarantines
      <4>4. QED
        BY <1>3, <4>2, <4>3 DEF DispatchPre, SlotInv, TypeOK, SlotsAccounted, Holding
    <3>3. DispatchPost(waiting \cup {q}, granted)
      BY <3>1, <3>2, DispatchStep
    <3>4. QED
      BY <1>2, <1>3, <3>3
  <2>5. ASSUME NEW q \in Requests,
               GiveBack(q) \/ ReleaseUnmarked(q) \/ Answer(q) \/ Disconnect(q)
        PROVE  Fair
    BY <2>2, <2>5 DEF GiveBack, ReleaseUnmarked, Answer, Disconnect
  <2>6. ASSUME NEW q \in Requests, Abandon(q) PROVE Fair
    <3>1. q \in granted /\ Quarantine(q)
      BY <1>3, <2>6 DEF Abandon, SlotInv, Tickets
    <3>2. DispatchPost({w \in waiting : Key(w) # Key(q)}, granted \ {q})
      BY <1>3, <3>1, QuarantineStep
    <3>3. QED
      BY <1>2, <1>3, <3>2
  <2>7. ASSUME NEW b \in Probers, ReleaseIfCurrent(b) PROVE Fair
    <3>1. CASE UNCHANGED memory
      BY <2>1, <3>1
    <3>2. CASE DispatchLocked(waiting, granted, globalActive, resourceActive) /\ ~UNCHANGED memory
      <4>1. waited' = waited /\ seq' = seq /\ quarantined' \subseteq quarantined
        BY <2>7, <3>2 DEF ReleaseIfCurrent
      <4>2. DispatchPre(waiting, granted, globalActive, resourceActive)
        <5>1. waiting \in SUBSET waiting /\ \A w \in waiting : Key(w) \notin quarantined'
          BY <1>3, <4>1 DEF SlotInv, Quarantines
        <5>2. QED
          BY <1>3, <4>1, <5>1, MayDispatch
      <4>3. QED
        BY <1>2, <1>3, <3>2, <4>2, DispatchStep
    <3>3. QED
      BY <2>7, <3>1, <3>2 DEF ReleaseIfCurrent
  <2>8. ASSUME NEW b \in Probers, \/ \E p \in LocalProfiles : StartProbe(b, p)
                                 \/ ObserveIdle(b) \/ GiveUpProbe(b)
        PROVE  Fair
    BY <2>1, <2>8 DEF StartProbe, ObserveIdle, GiveUpProbe
  <2>9. CASE Tick \/ Restart
    BY <2>1, <2>9 DEF Tick, Restart
  <2>10. QED
    BY <1>3, <2>3, <2>4, <2>5, <2>6, <2>7, <2>8, <2>9, NextCases
<1>4. SlotInv /\ SlotInv' /\ [Next]_vars => [Fair]_vars
  BY <1>3
<1>5. QED
  BY SlotInvInit, SlotInvStep, <1>4, PTL DEF Spec, AgedNeverOvertaken
=============================================================================
