------------------------ MODULE MCInferenceScheduler ------------------------
(* Instances of InferenceScheduler for TLC.                                *)
EXTENDS InferenceScheduler, TLC

CONSTANTS q1, q2, q3, q4, home, lab, cloud, k1, k2, owner, turn

\* Three requests compete for one local runtime, a fourth uses a remote one.
SlotsProfileOf == q1 :> home @@ q2 :> home @@ q3 :> home @@ q4 :> cloud
SlotsRank == q1 :> 0 @@ q2 :> 1 @@ q3 :> 0 @@ q4 :> 0

\* Two local requests and a remote one compete for a single global slot.
ProgressProfileOf == q1 :> home @@ q2 :> home @@ q3 :> cloud
ProgressRank == q1 :> 0 @@ q2 :> 1 @@ q3 :> 0

\* A local and a remote profile share the resource group k1.
GroupProfileOf == q1 :> home @@ q2 :> home @@ q3 :> cloud
FlatRank == [q \in Requests |-> 0]

\* Two local runtimes share the resource group k1.
PairProfileOf == q1 :> home @@ q2 :> lab @@ q3 :> home

OwnKey == home :> k1 @@ cloud :> k2
OneGroup == [p \in Profiles |-> k1]

UnitCost == [q \in Requests |-> 1]
LedgerCost == q1 :> 2 @@ q2 :> 1 @@ q3 :> 2
NoScopes == [q \in Requests |-> {}]
NoBudget == [s \in Scopes |-> 0]
LedgerScopes == q1 :> {owner, turn} @@ q2 :> {owner} @@ q3 :> {owner, turn}
LedgerBudget == owner :> 4 @@ turn :> 3
=============================================================================
