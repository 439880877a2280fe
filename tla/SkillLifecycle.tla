--------------------------- MODULE SkillLifecycle ---------------------------
(***************************************************************************)
(* The versions of one skill: candidates that are proposed, edited,        *)
(* replayed, evaluated and reviewed, their promotion by a person or by the *)
(* authority policy, and archives, by a person or by the curator, and      *)
(* their restoration.                                                      *)
(*                                                                         *)
(* The database has one connection, so that a transaction is an action;    *)
(* the gates of a promotion are reads before its transaction.              *)
(***************************************************************************)
EXTENDS Naturals, Sequences

CONSTANTS
  MaxCandidates, MaxRevision,  \* bounds: candidates, and their revisions
  Deciders,                    \* goroutines of calls that take several steps
  MaxActs                      \* bound: calls, and stops of the process

ASSUME SkillAssumption == MaxCandidates \in Nat /\ MaxRevision \in Nat \ {0} /\ MaxActs \in Nat

VARIABLES
  skill,      \* the skill's row
  versions,   \* versions[v]: the version it was derived from
  candidate,  \* candidate[c]: row and content of a candidate
  replays,    \* replays[c]: replay runs in the order of their start
  evals,      \* evals[c]: behavioral evaluations, and the revision each is really of
  reviews,    \* reviews[c]: decisions about what the revisions may do
  archives,   \* archives[n]: the version, and whether a restoration was proposed
  policy,     \* the authority policy's mode and revision
  decider,    \* decider[d]: where a call stands
  actions,    \* how many authority actions are running, completed and failed
  promotions, \* history: the candidates promoted, and under which revision
  acts

skillVars == <<skill, versions, candidate, replays, evals, reviews, archives, policy, decider, actions, promotions, acts>>

CandidateIds == 1..MaxCandidates
Plain == [lint |-> TRUE, wide |-> FALSE, test |-> "completed"]
\* What checks and gates see of a package: at most one thing is wrong with it.
Contents == {Plain, [Plain EXCEPT !.lint = FALSE], [Plain EXCEPT !.wide = TRUE],
             [Plain EXCEPT !.test = "implicit"], [Plain EXCEPT !.test = "failed"]}
NoCandidate == [state |-> "none", kind |-> "none", base |-> 0, rev |-> 0, replayed |-> FALSE, content |-> Plain]
IdleDecider == [op |-> "none", pc |-> "idle", cand |-> 0, seen |-> NoCandidate, expected |-> 0, version |-> 0,
                replay |-> 0, row |-> FALSE]
Last(s) == s[Len(s)]

Open(c) == candidate[c].state \in {"needs_review", "quarantined"}
ChecksPassed(row) == row.content.lint /\ (row.kind = "improve" => row.replayed)
Checked(row) == [row EXCEPT !.state = IF ChecksPassed(row) THEN "needs_review" ELSE "quarantined"]
Act == acts < MaxActs /\ acts' = acts + 1
DeciderAt(d, pc) == decider[d].pc = pc
DeciderGoes(d, pc) == decider' = [decider EXCEPT ![d].pc = pc]
DeciderEnds(d) == decider' = [decider EXCEPT ![d] = IdleDecider]
\* A call with an authority row has to settle it.
PromotionEnds(d, outcome) ==
  decider' = [decider EXCEPT ![d] = IF decider[d].row THEN [IdleDecider EXCEPT !.op = "promote", !.pc = outcome] ELSE IdleDecider]

-----------------------------------------------------------------------------
(* Candidates.                                                             *)

\* CreateCandidate, with checks; a candidate that improves waits for its replay.
NewCandidate(c, kind, base, content) ==
  /\ candidate[c].state = "none" /\ \A b \in CandidateIds : b < c => candidate[b].state # "none"
  /\ candidate' = [candidate EXCEPT ![c] = Checked([NoCandidate EXCEPT !.kind = kind, !.base = base, !.rev = 1, !.content = content])]

\* ProposeImprovement starts from the active version; the replay follows.
ProposeImprovement(d, c) ==
  /\ Act /\ DeciderAt(d, "idle") /\ skill.state = "active"
  /\ \E content \in Contents : NewCandidate(c, "improve", skill.version, content)
  /\ decider' = [decider EXCEPT ![d] = [IdleDecider EXCEPT !.op = "replay", !.pc = "replay", !.cand = c]]
  /\ UNCHANGED <<skill, versions, replays, evals, reviews, archives, policy, actions, promotions>>

\* Mutant: an edit leaves the revision as it is.
EditInPlace(d, c) ==
  /\ Act /\ DeciderAt(d, "idle") /\ Open(c) /\ candidate[c].rev < MaxRevision
  /\ \E content \in Contents :
       candidate' = [candidate EXCEPT ![c] = Checked([candidate[c] EXCEPT !.content = content, !.replayed = FALSE])]
  /\ decider' = IF candidate[c].kind = "improve"
                    THEN [decider EXCEPT ![d] = [IdleDecider EXCEPT !.op = "replay", !.pc = "replay", !.cand = c]]
                    ELSE decider
  /\ UNCHANGED <<skill, versions, replays, evals, reviews, archives, policy, actions, promotions>>

\* UpdateCandidate replaces the content and takes the checks back.
EditCandidate(d, c) ==
  /\ Act /\ DeciderAt(d, "idle") /\ Open(c) /\ candidate[c].rev < MaxRevision
  /\ \E content \in Contents :
       candidate' = [candidate EXCEPT ![c] = Checked([candidate[c] EXCEPT !.rev = @ + 1, !.content = content, !.replayed = FALSE])]
  /\ decider' = IF candidate[c].kind = "improve"
                    THEN [decider EXCEPT ![d] = [IdleDecider EXCEPT !.op = "replay", !.pc = "replay", !.cand = c]]
                    ELSE decider
  /\ UNCHANGED <<skill, versions, replays, evals, reviews, archives, policy, actions, promotions>>

RejectCandidate(c) ==
  /\ Act /\ Open(c)
  /\ candidate' = [candidate EXCEPT ![c].state = "rejected", ![c].rev = @ + 1]
  /\ UNCHANGED <<skill, versions, replays, evals, reviews, archives, policy, decider, actions, promotions>>

\* RunCandidateReplay binds its run to what it read, and runs it.
StartReplay(d) ==
  LET c == decider[d].cand
  IN  /\ DeciderAt(d, "replay")
      /\ IF Open(c)
           THEN /\ replays' = [replays EXCEPT ![c] = Append(@, [rev |-> candidate[c].rev, state |-> "running"])]
                /\ decider' = [decider EXCEPT ![d].pc = "replaying", ![d].seen = candidate[c], ![d].replay = Len(replays[c]) + 1]
           ELSE UNCHANGED replays /\ DeciderEnds(d)
      /\ UNCHANGED <<skill, versions, candidate, evals, reviews, archives, policy, actions, promotions, acts>>

FinishReplay(d) ==
  LET c == decider[d].cand
  IN  /\ DeciderAt(d, "replaying") /\ DeciderGoes(d, "apply")
      /\ replays' = [replays EXCEPT ![c][decider[d].replay].state = decider[d].seen.content.test]
      /\ UNCHANGED <<skill, versions, candidate, evals, reviews, archives, policy, actions, promotions, acts>>

\* The checks are the revision's that was replayed, or are left alone.
ApplyReplayChecks(d) ==
  LET c == decider[d].cand
      replayed == decider[d].seen.content.test # "failed"
  IN  /\ DeciderAt(d, "apply") /\ DeciderEnds(d)
      /\ candidate' = IF Open(c) /\ candidate[c].rev = decider[d].seen.rev
                        THEN [candidate EXCEPT ![c] = Checked([candidate[c] EXCEPT !.replayed = replayed])]
                        ELSE candidate
      /\ UNCHANGED <<skill, versions, replays, evals, reviews, archives, policy, actions, promotions, acts>>

\* A runner outside of the program evaluates what it reads,
StartEvaluation(d, c) ==
  /\ Act /\ DeciderAt(d, "idle") /\ Open(c)
  /\ decider' = [decider EXCEPT ![d] = [IdleDecider EXCEPT !.op = "evaluate", !.pc = "evaluating", !.cand = c, !.seen = candidate[c]]]
  /\ UNCHANGED <<skill, versions, candidate, replays, evals, reviews, archives, policy, actions, promotions>>

\* and its report is bound to the candidate as it stands when it comes.
RecordBehavioralEval(d) ==
  LET c == decider[d].cand
  IN  /\ DeciderAt(d, "evaluating") /\ DeciderEnds(d)
      /\ \E state \in {"passed", "failed"} :
           evals' = [evals EXCEPT ![c] = Append(@, [rev |-> candidate[c].rev, of |-> decider[d].seen.rev, state |-> state])]
      /\ UNCHANGED <<skill, versions, candidate, replays, reviews, archives, policy, actions, promotions, acts>>

\* A later decision about a revision replaces the earlier one.
ReviewCandidateCapabilities(c) ==
  /\ Act /\ candidate[c].content.wide /\ candidate[c].rev \in 1..MaxRevision
  /\ \E decision \in {"approve", "deny"} :
       reviews' = [reviews EXCEPT ![c][candidate[c].rev] = [decision |-> decision, approved |-> @.approved \/ decision = "approve"]]
  /\ UNCHANGED <<skill, versions, candidate, replays, evals, archives, policy, decider, actions, promotions>>

-----------------------------------------------------------------------------
(* Promotion.                                                              *)

\* Of the revision that the person saw, or, with 0, of whatever there is.
StartPromotion(d, c) ==
  /\ Act /\ DeciderAt(d, "idle") /\ candidate[c].state = "needs_review" /\ ChecksPassed(candidate[c])
  /\ \E expected \in {0, candidate[c].rev} :
       decider' = [decider EXCEPT ![d] = [IdleDecider EXCEPT !.op = "promote", !.cand = c, !.seen = candidate[c], !.expected = expected,
                     !.pc = IF candidate[c].kind = "improve" THEN "gate replay" ELSE "gate review"]]
  /\ UNCHANGED <<skill, versions, candidate, replays, evals, reviews, archives, policy, actions, promotions>>

\* TryAutomatedPromotion reads the policy,
StartAutomation(d, c) ==
  /\ Act /\ DeciderAt(d, "idle") /\ policy.gated /\ candidate[c].state # "none"
  /\ decider' = [decider EXCEPT ![d] = [IdleDecider EXCEPT !.op = "promote", !.pc = "qualify", !.cand = c]]
  /\ UNCHANGED <<skill, versions, candidate, replays, evals, reviews, archives, policy, actions, promotions>>

\* and looks whether the candidate is one to promote.
QualifyCandidate(d) ==
  LET c == decider[d].cand
  IN  /\ DeciderAt(d, "qualify")
      /\ IF ChecksPassed(candidate[c]) /\ candidate[c].kind = "improve"
           THEN decider' = [decider EXCEPT ![d].pc = "preflight", ![d].expected = candidate[c].rev, ![d].row = TRUE]
                /\ actions' = [actions EXCEPT !.running = @ + 1]
           ELSE UNCHANGED actions /\ DeciderEnds(d)
      /\ UNCHANGED <<skill, versions, candidate, replays, evals, reviews, archives, policy, promotions, acts>>

Preflight(d) ==
  LET c == decider[d].cand
  IN  /\ DeciderAt(d, "preflight")
      /\ IF candidate[c].state = "needs_review" /\ candidate[c].rev = decider[d].expected /\ ChecksPassed(candidate[c])
           THEN decider' = [decider EXCEPT ![d].pc = "gate replay", ![d].seen = candidate[c]]
           ELSE PromotionEnds(d, "fail")
      /\ UNCHANGED <<skill, versions, candidate, replays, evals, reviews, archives, policy, actions, promotions, acts>>

\* A gate lets the call go on to the next, or ends it.
Gate(d, from, to, passes) ==
  /\ DeciderAt(d, from)
  /\ IF passes THEN DeciderGoes(d, to) ELSE PromotionEnds(d, "fail")
  /\ UNCHANGED <<skill, versions, candidate, replays, evals, reviews, archives, policy, actions, promotions, acts>>

RequireCurrentReplay(d) ==
  LET c == decider[d].cand
  IN  Gate(d, "gate replay", "gate review",
           replays[c] # <<>> /\ Last(replays[c]) = [rev |-> decider[d].seen.rev, state |-> "completed"])

RequireCapabilityReview(d) ==
  LET seen == decider[d].seen
  IN  Gate(d, "gate review", IF seen.kind = "improve" THEN "gate evaluation" ELSE "promote",
           seen.content.wide => reviews[decider[d].cand][seen.rev].decision = "approve")

RequireCurrentBehavioralEval(d) ==
  LET c == decider[d].cand
  IN  Gate(d, "gate evaluation", "promote",
           evals[c] # <<>> /\ Last(evals[c]).rev = decider[d].seen.rev /\ Last(evals[c]).state = "passed")

\* The transaction.  It reads the candidate, but no gate, again.
PromoteCandidate(d) ==
  LET c == decider[d].cand
      row == candidate[c]
      version == Len(versions) + 1
  IN  /\ DeciderAt(d, "promote")
      /\ IF /\ row.state = "needs_review" /\ ChecksPassed(row)
            /\ decider[d].expected \in {0, row.rev}
            /\ row.base = skill.version
           THEN /\ versions' = Append(versions, row.base)
                /\ skill' = [skill EXCEPT !.state = "active", !.version = version]
                /\ candidate' = [candidate EXCEPT ![c].state = "promoted", ![c].rev = @ + 1]
                /\ promotions' = promotions \cup {[cand |-> c, rev |-> row.rev, expected |-> decider[d].expected]}
                /\ PromotionEnds(d, "complete")
           ELSE UNCHANGED <<versions, skill, candidate, promotions>> /\ PromotionEnds(d, "fail")
      /\ UNCHANGED <<replays, evals, reviews, archives, policy, actions, acts>>

\* The authority row is settled after what it is about.
SettleAction(d) ==
  /\ decider[d].pc \in {"complete", "fail"} /\ DeciderEnds(d)
  /\ actions' = IF DeciderAt(d, "complete") THEN [actions EXCEPT !.running = @ - 1, !.completed = @ + 1]
                                            ELSE [actions EXCEPT !.running = @ - 1, !.failed = @ + 1]
  /\ UNCHANGED <<skill, versions, candidate, replays, evals, reviews, archives, policy, promotions, acts>>

-----------------------------------------------------------------------------
(* Archives and settings.                                                  *)

Archived ==
  /\ skill.state = "active"
  /\ archives' = Append(archives, [version |-> skill.version, restored |-> FALSE])
  /\ skill' = [skill EXCEPT !.state = "archived"]

ArchiveSkill ==
  /\ Act /\ Archived
  /\ UNCHANGED <<versions, candidate, replays, evals, reviews, policy, decider, actions, promotions>>

\* TryCuratorArchive has a finding about a version, and reads the policy.
StartCuration(d) ==
  /\ Act /\ DeciderAt(d, "idle") /\ policy.gated
  /\ decider' = [decider EXCEPT ![d] = [IdleDecider EXCEPT !.op = "curate", !.pc = "stale", !.version = skill.version]]
  /\ UNCHANGED <<skill, versions, candidate, replays, evals, reviews, archives, policy, actions, promotions>>

CheckStale(d) ==
  /\ DeciderAt(d, "stale")
  /\ IF skill.version = decider[d].version /\ skill.state = "active" /\ ~skill.pinned
       THEN /\ decider' = [decider EXCEPT ![d].pc = "archive", ![d].row = TRUE]
            /\ actions' = [actions EXCEPT !.running = @ + 1]
       ELSE UNCHANGED actions /\ DeciderEnds(d)
  /\ UNCHANGED <<skill, versions, candidate, replays, evals, reviews, archives, policy, promotions, acts>>

\* ArchiveSkill looks at neither the version nor the pin.
ArchiveStale(d) ==
  /\ DeciderAt(d, "archive")
  /\ IF skill.state = "active" THEN Archived /\ PromotionEnds(d, "complete")
                               ELSE UNCHANGED <<archives, skill>> /\ PromotionEnds(d, "fail")
  /\ UNCHANGED <<versions, candidate, replays, evals, reviews, policy, actions, promotions, acts>>

\* An archive comes back as a candidate, and once.
RestoreArchive(c) ==
  /\ Act
  /\ \E n \in 1..Len(archives) :
       /\ ~archives[n].restored /\ archives' = [archives EXCEPT ![n].restored = TRUE]
       /\ NewCandidate(c, "restore", archives[n].version, Plain)
  /\ UNCHANGED <<skill, versions, replays, evals, reviews, policy, decider, actions, promotions>>

UpdateSkillControls ==
  /\ Act /\ skill.state = "active" /\ skill' = [skill EXCEPT !.pinned = ~@]
  /\ UNCHANGED <<versions, candidate, replays, evals, reviews, archives, policy, decider, actions, promotions>>

SaveAuthorityPolicy ==
  /\ Act /\ policy' = [gated |-> ~policy.gated, revision |-> policy.revision + 1]
  /\ UNCHANGED <<skill, versions, candidate, replays, evals, reviews, archives, decider, actions, promotions>>

\* The process stops: its calls are gone, and authority rows stay as they are.
StopSkills ==
  /\ Act /\ decider' = [d \in Deciders |-> IF DeciderAt(d, "evaluating") THEN decider[d] ELSE IdleDecider]
  /\ UNCHANGED <<skill, versions, candidate, replays, evals, reviews, archives, policy, actions, promotions>>

-----------------------------------------------------------------------------
SkillInit ==
  /\ skill = [state |-> "active", version |-> 1, pinned |-> FALSE]
  /\ versions = <<0>>
  /\ candidate = [c \in CandidateIds |-> NoCandidate]
  /\ replays = [c \in CandidateIds |-> <<>>]
  /\ evals = [c \in CandidateIds |-> <<>>]
  /\ reviews = [c \in CandidateIds |-> [r \in 1..MaxRevision |-> [decision |-> "none", approved |-> FALSE]]]
  /\ archives = <<>>
  /\ policy = [gated |-> FALSE, revision |-> 1]
  /\ decider = [d \in Deciders |-> IdleDecider]
  /\ actions = [running |-> 0, completed |-> 0, failed |-> 0]
  /\ promotions = {}
  /\ acts = 0

SkillNext ==
  \/ \E d \in Deciders, c \in CandidateIds :
       \/ ProposeImprovement(d, c) \/ EditCandidate(d, c) \/ StartEvaluation(d, c)
       \/ StartPromotion(d, c) \/ StartAutomation(d, c)
  \/ \E d \in Deciders :
       \/ StartReplay(d) \/ FinishReplay(d) \/ ApplyReplayChecks(d) \/ RecordBehavioralEval(d)
       \/ QualifyCandidate(d) \/ Preflight(d) \/ RequireCurrentReplay(d) \/ RequireCapabilityReview(d)
       \/ RequireCurrentBehavioralEval(d) \/ PromoteCandidate(d) \/ SettleAction(d)
       \/ StartCuration(d) \/ CheckStale(d) \/ ArchiveStale(d)
  \/ \E c \in CandidateIds : RejectCandidate(c) \/ ReviewCandidateCapabilities(c) \/ RestoreArchive(c)
  \/ ArchiveSkill \/ UpdateSkillControls \/ SaveAuthorityPolicy \/ StopSkills

SkillSpec == SkillInit /\ [][SkillNext]_skillVars

-----------------------------------------------------------------------------
(* Properties.                                                             *)

CandidateRow == [state : {"none", "needs_review", "quarantined", "promoted", "rejected"},
                 kind : {"none", "improve", "restore"}, base : Nat, rev : Nat, replayed : BOOLEAN, content : Contents]
DeciderRow == [op : {"none", "replay", "evaluate", "promote", "curate"},
               pc : {"idle", "replay", "replaying", "apply", "evaluating", "qualify", "preflight",
                     "gate replay", "gate review", "gate evaluation", "promote", "complete", "fail", "stale", "archive"},
               cand : CandidateIds \cup {0}, seen : CandidateRow, expected : Nat, version : Nat, replay : Nat,
               row : BOOLEAN]

\* Rows and calls have their shapes.
SkillTypeOK ==
  /\ skill \in [state : {"active", "archived"}, version : Nat, pinned : BOOLEAN]
  /\ versions \in Seq(Nat)
  /\ candidate \in [CandidateIds -> CandidateRow]
  /\ replays \in [CandidateIds -> Seq([rev : Nat, state : {"running", "completed", "implicit", "failed"}])]
  /\ evals \in [CandidateIds -> Seq([rev : Nat, of : Nat, state : {"passed", "failed"}])]
  /\ reviews \in [CandidateIds -> [1..MaxRevision -> [decision : {"none", "approve", "deny"}, approved : BOOLEAN]]]
  /\ archives \in Seq([version : Nat, restored : BOOLEAN])
  /\ policy \in [gated : BOOLEAN, revision : Nat]
  /\ decider \in [Deciders -> DeciderRow]
  /\ actions \in [running : Nat, completed : Nat, failed : Nat]
  /\ acts \in Nat

\* What became active had passed the gates as it was: an improvement that was
\* promoted under the revision somebody saw has a completed replay and a
\* passing evaluation on record for that revision, and whatever widens a
\* skill's capabilities was approved, over edits, replays and reviews that
\* come between the gates and the transaction (PromoteCandidate,
\* service.go:392-430).
PromotedAsGated ==
  \A p \in promotions : p.expected # 0 =>
       LET c == p.cand
       IN  /\ candidate[c].kind = "improve" =>
                /\ \E n \in 1..Len(replays[c]) : replays[c][n] = [rev |-> p.rev, state |-> "completed"]
                /\ \E n \in 1..Len(evals[c]) : evals[c][n].rev = p.rev /\ evals[c][n].state = "passed"
           /\ candidate[c].content.wide => reviews[c][p.rev].approved

\* No promotion overwrites a version that its author had not seen: each version
\* derives from the one before it, however promotions, archives and
\* restorations of several candidates overlap (service.go:486).
VersionsFormAChain == \A v \in 1..Len(versions) : versions[v] = v - 1

\* "If the candidate has been edited since the run started, the evaluation
\* describes something that no longer exists and is refused" (behavioral.go:80).
\* It does not hold: the report names no revision, and gets the current one.
EvaluatedAsItIs == \A c \in CandidateIds : \A n \in 1..Len(evals[c]) : evals[c][n].of = evals[c][n].rev

\* "A later Skill change makes the decision ineligible" (authority.go:220).  It does
\* not hold: the version may change between the check and the archive.
CuratorArchivesWhatItSaw ==
  [][\A d \in Deciders : DeciderAt(d, "archive") /\ skill'.state # skill.state /\ decider'[d].pc = "complete" =>
       skill.version = decider[d].version]_skillVars
=============================================================================
