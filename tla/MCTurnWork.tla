----------------------------- MODULE MCTurnWork -----------------------------
(***************************************************************************)
(* Turns, and what they lead to, in one run: the turns of a session, their *)
(* automatic continuation, the reviews that their milestones trigger, and  *)
(* the skill candidates that come of reviews.  A behaviour is one of       *)
(* Parts; the others stay at their initial states.                         *)
(***************************************************************************)
EXTENDS TurnLease, AutoRetry, LearningOutbox, SkillLifecycle, TLC

CONSTANTS Parts, x1, x2

VARIABLE part \* the one that runs

turnWorkVars == <<part, vars, retryVars, learningVars, skillVars>>

\* Two kinds of trigger of one milestone.
OneMilestone == x1 :> "turn" @@ x2 :> "turn"

\* Only one part moves, so that workers, drains and deciders are called Calls, too.
Interchangeable == Permutations(Calls)

TurnWorkInit ==
  /\ part \in Parts
  /\ Init /\ RetryInit /\ LearningInit /\ SkillInit
  /\ part = "retry" \/ contract = [disabled |-> FALSE, mode |-> "auto"]

TurnPart ==
  /\ part = "turn" /\ Next
  /\ UNCHANGED <<part, retryVars, learningVars, skillVars>>

RetryPart ==
  /\ part = "retry" /\ RetryNext
  /\ UNCHANGED <<part, vars, learningVars, skillVars>>

LearningPart ==
  /\ part = "learning" /\ LearningNext
  /\ UNCHANGED <<part, vars, retryVars, skillVars>>

SkillPart ==
  /\ part = "skills" /\ SkillNext
  /\ UNCHANGED <<part, vars, retryVars, learningVars>>

TurnWorkNext == TurnPart \/ RetryPart \/ LearningPart \/ SkillPart

TurnWorkSpec == TurnWorkInit /\ [][TurnWorkNext]_turnWorkVars
=============================================================================
