--------------------------- MODULE SessionHistory ---------------------------
(***************************************************************************)
(* What the rows of a session tell its owner, whoever wrote them and       *)
(* wherever the process stopped: a sequence of turns, one at a time, each  *)
(* begun when nothing of the last is left in progress and ended once; a    *)
(* stop that, once asked for, is the only end a turn can come to by its    *)
(* own doing; and effects that are proposed, claimed and carried out by    *)
(* the turn that has the session, one at a time, each at most once, and    *)
(* reported as carried out only when they were.  There are no calls here   *)
(* and no startup: TurnLease shows that its goroutines and its recovery do *)
(* nothing else.                                                           *)
(***************************************************************************)
EXTENDS Integers

CONSTANTS Turns, Effects, None

VARIABLES
  holder,  \* the turn that has the session, or None
  ending,  \* ending[t]: "none" before turn t is begun, "open", or how it ended
  stop,    \* stop[t]: what became of the request to stop turn t
  effect,  \* effect[a]: state and turn of an effect that needs approval
  done     \* done[a]: how often effect a was carried out

history == <<holder, ending, stop, effect, done>>

Init ==
  /\ holder = None
  /\ ending = [t \in Turns |-> "none"]
  /\ stop = [t \in Turns |-> "none"]
  /\ effect = [a \in Effects |-> [state |-> "none", turn |-> None]]
  /\ done = [a \in Effects |-> 0]

\* The effects of turn t in these states.
Of(t, states) == {a \in Effects : effect[a].turn = t /\ effect[a].state \in states}
InProgress == {a \in Effects : effect[a].state = "executing"}

\* Turn t was asked to stop, and that it has is not confirmed.
Unconfirmed(t) == stop[t] \in {"stopping", "needs_review"}

\* The undecided effects of these turns are decided for the owner.
Withdrawn(turns) ==
  [a \in Effects |-> IF effect[a].state = "pending" /\ effect[a].turn \in turns
                     THEN [effect[a] EXCEPT !.state = "cancelled"] ELSE effect[a]]

-----------------------------------------------------------------------------
(* Turns.                                                                  *)

\* A turn whose continuation was blocked has nothing left to stop.
Begin(t) ==
  /\ holder = None /\ ending[t] = "none" /\ \A u \in Turns : u < t => ending[u] # "none"
  /\ InProgress = {} /\ \A u \in Turns : Unconfirmed(u) => ending[u] = "blocked"
  /\ holder' = t /\ ending' = [ending EXCEPT ![t] = "open"]
  /\ UNCHANGED <<stop, effect, done>>

End(t, how) ==
  /\ holder = t /\ ending[t] = "open" /\ Of(t, {"pending", "executing"}) = {}
  /\ how \in {"completed", "failed"} => stop[t] = "none"
  /\ holder' = None /\ ending' = [ending EXCEPT ![t] = how]
  /\ UNCHANGED <<stop, effect, done>>

AskToStop(t) ==
  /\ holder = t /\ ending[t] = "open" /\ stop[t] = "none"
  /\ stop' = [stop EXCEPT ![t] = "stopping"]
  /\ UNCHANGED <<holder, ending, effect, done>>

\* However the stop comes out, the turn is over and asks for nothing any more.
Stops(t, outcome) ==
  /\ Unconfirmed(t)
  /\ holder = t \/ ending[t] = "blocked"
  /\ stop' = [stop EXCEPT ![t] = outcome]
  /\ ending' = [ending EXCEPT ![t] = IF @ = "open" THEN "stopped" ELSE @]
  /\ effect' = Withdrawn({t}) /\ done' = done

Confirm(t) ==
  /\ Stops(t, "stopped") /\ Of(t, {"executing", "uncertain"}) = {}
  /\ holder' = IF holder = t THEN None ELSE holder

Doubt(t) == Stops(t, "needs_review") /\ holder' = holder

-----------------------------------------------------------------------------
(* Effects.                                                                *)

Propose(a, t) ==
  /\ effect[a].state = "none"
  /\ holder = t /\ ending[t] = "open" /\ Of(t, {"pending", "executing"}) = {}
  /\ effect' = [effect EXCEPT ![a] = [state |-> "pending", turn |-> t]]
  /\ UNCHANGED <<holder, ending, stop, done>>

Decide(a, decision) ==
  /\ effect[a].state = "pending" /\ holder = effect[a].turn /\ stop[holder] = "none"
  /\ effect' = [effect EXCEPT ![a].state = decision]
  /\ UNCHANGED <<holder, ending, stop, done>>

CarryOut(a) ==
  /\ effect[a].state = "executing" /\ holder = effect[a].turn /\ done[a] = 0
  /\ done' = [done EXCEPT ![a] = 1]
  /\ UNCHANGED <<holder, ending, stop, effect>>

Report(a, result) ==
  /\ effect[a].state = "executing" /\ holder = effect[a].turn
  /\ result = "executed" => done[a] = 1
  /\ effect' = [effect EXCEPT ![a].state = result]
  /\ UNCHANGED <<holder, ending, stop, done>>

-----------------------------------------------------------------------------
(* What a process that was cut off leaves to the next one.                 *)

\* An effect it was at: a look at the world may tell whether it happened, and
\* one that did not may be asked for again.  The turn has lost the session.
Lose(a, verdict) ==
  /\ InProgress = {a}
  /\ verdict = "executed" => done[a] = 1
  /\ verdict = "pending" => done[a] = 0
  /\ effect' = [effect EXCEPT ![a].state = verdict]
  /\ holder' = None
  /\ UNCHANGED <<ending, stop, done>>

\* The stops it was asked for: the latest such turn has the session again.
Reclaim(t) ==
  /\ InProgress = {} /\ Unconfirmed(t) /\ \A u \in Turns : Unconfirmed(u) => u <= t
  /\ stop' = [u \in Turns |-> IF stop[u] = "stopping" THEN "needs_review" ELSE stop[u]]
  /\ effect' = Withdrawn({u \in Turns : stop[u] # "none"})
  /\ holder' = t
  /\ UNCHANGED <<ending, done>>

-----------------------------------------------------------------------------
Next ==
  \/ \E t \in Turns : \/ Begin(t) \/ AskToStop(t) \/ Confirm(t) \/ Doubt(t) \/ Reclaim(t)
                      \/ \E how \in {"completed", "failed", "blocked", "interrupted"} : End(t, how)
  \/ \E a \in Effects : \/ \E t \in Turns : Propose(a, t)
                        \/ \E decision \in {"executing", "denied"} : Decide(a, decision)
                        \/ CarryOut(a)
                        \/ \E result \in {"executed", "failed", "uncertain"} : Report(a, result)
                        \/ \E verdict \in {"executed", "pending", "uncertain"} : Lose(a, verdict)

Spec == Init /\ [][Next]_history
=============================================================================
