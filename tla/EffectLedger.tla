---------------------------- MODULE EffectLedger ----------------------------
(***************************************************************************)
(* What a durable ledger of external effects promises, whoever runs them   *)
(* and wherever the process stops: an action is carried out at most once   *)
(* and only after it was dispatched; one that may have been carried out is *)
(* never recorded as one that was not; and a record of what happened is    *)
(* final.  Each operation moves on its own; a step may move several.       *)
(***************************************************************************)
EXTENDS Naturals

CONSTANT Operations

VARIABLES
  fate,      \* fate[o]: state of the ledger's record of operation o
  performed  \* performed[o]: times the action of o was carried out

vars == <<fate, performed>>

Init == /\ fate = [o \in Operations |-> "none"]
        /\ performed = [o \in Operations |-> 0]

Becomes(o, state) == fate'[o] = state /\ performed'[o] = performed[o]
Keep(o) == Becomes(o, fate[o])
Plan(o) == fate[o] = "none" /\ Becomes(o, "planned")
Abandon(o) == fate[o] = "planned" /\ Becomes(o, "abandoned")
Dispatch(o) == fate[o] = "planned" /\ Becomes(o, "dispatched")
Observe(o) == fate[o] = "dispatched" /\ Becomes(o, "observed")
LoseSight(o) == fate[o] = "dispatched" /\ Becomes(o, "uncertain")
Reconcile(o) == fate[o] = "uncertain" /\ Becomes(o, "reconciled")

\* The action itself: also by a caller that learns too late that others have
\* given the operation up.
Perform(o) == /\ fate[o] \in {"dispatched", "uncertain", "reconciled"}
              /\ performed[o] = 0
              /\ fate'[o] = fate[o] /\ performed'[o] = 1

Move(o) == \/ Keep(o) \/ Plan(o) \/ Abandon(o) \/ Dispatch(o) \/ Observe(o)
           \/ LoseSight(o) \/ Reconcile(o) \/ Perform(o)

Next == \A o \in Operations : Move(o)

Spec == Init /\ [][Next]_vars
=============================================================================
