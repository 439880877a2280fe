----------------------------- MODULE MCTaskWork -----------------------------
(* TaskEngine where it is widest, one part of it at a time: TLC explores   *)
(* the states that lie in one of four focuses, each of which bounds the    *)
(* rows it is not about.                                                   *)
EXTENDS MCTaskEngine

NoProposals == \A a \in Attempts : proposal[a] = "none"
\* One plan, approved when it is reviewed and not given up.
OnePlan == plans <= 1 /\ task.plan = plans /\ verdict[1] # "rejected"
OneRun == \A r \in Runs : r > 1 => run[r].state = "none"
OneAttempt == \A a \in Attempts : a > 1 => attempt[a].state = "none"
FirstGeneration == \A r \in Runs : run[r].generation <= 1
ShortSteps == \A s \in Steps : step[s].rev <= 3 \/ step[s].state = "blocked"
OneEffect == \A e \in Effects : e > 1 => effect[e].state = "none"
\* Only the first step of a plan is worked on.
FirstStepOnly == \A p \in Plans : step[<<p, "test">>].rev = 1

\* A proposal is asked for first, and then a command.
ProposeThenRun == [e \in Effects |-> IF e = 1 THEN "propose" ELSE "run"]

\* Two effects on a step: of an old owner of a run and a new one, with a crash
\* between them, or of one run and the next.
Executing == /\ FirstStepOnly /\ OnePlan /\ NoProposals /\ passed = {} /\ doubted = {}
             /\ run[2].state = "none" \/ (run[2].generation <= 1 /\ restarts = 0)
\* Proposals, their reviews and what resumes after them.
Reviewing == OneEffect /\ OneRun /\ FirstStepOnly /\ OnePlan /\ passed = {} /\ doubted = {}
\* Two plans, one of them not approved.
Planning == /\ OneRun /\ OneAttempt /\ FirstStepOnly /\ FirstGeneration /\ ShortSteps
            /\ NoProposals /\ restarts = 0 /\ doubted = {} /\ \A e \in Effects : effect[e].state = "none"
\* Two steps to the end, in an ordinary run and in a goal's; a check passes for the
\* revision a step is worked on at or for the one before, and the first one's may fail.
Completing == /\ OneEffect /\ OneAttempt /\ FirstGeneration /\ ShortSteps /\ NoProposals /\ OnePlan
              /\ passed \subseteq Steps \X {1, 2} /\ doubted \subseteq {<<<<1, "edit">>, 2>>}

InFocus == Executing \/ Reviewing \/ Planning \/ Completing
StaysInFocus == InFocus'
=============================================================================
