----------------------- MODULE SkillLifecycle_proofs -----------------------
(***************************************************************************)
(* What holds of a skill for any number of candidates, of revisions, of    *)
(* calls at the same time and of stops: its versions form a chain, and     *)
(* what was promoted under a revision somebody saw had passed the gates as *)
(* it was then.                                                            *)
(*                                                                         *)
(* A gate is passed long before the transaction that relies on it.  What   *)
(* carries it over is that nothing a gate looked at is ever taken back for *)
(* the same revision (Kept), so that a call's own record of the gates it   *)
(* passed stays true whatever the other calls do.                          *)
(***************************************************************************)
EXTENDS SkillLifecycle, TLAPS

Gates == {"gate replay", "gate review", "gate evaluation", "promote"}
\* Places of a call that is about a candidate.
AboutCandidate == Gates \cup {"replay", "replaying", "apply", "evaluating", "qualify", "preflight"}
ReplayRow == [rev : Nat, state : {"running", "completed", "implicit", "failed"}]
EvalRow == [rev : Nat, of : Nat, state : {"passed", "failed"}]
ReviewRow == [decision : {"none", "approve", "deny"}, approved : BOOLEAN]
ArchiveRow == [version : Nat, restored : BOOLEAN]
Revs == 1..MaxRevision

Replayed(c, r) == \E n \in 1..Len(replays[c]) : replays[c][n] = [rev |-> r, state |-> "completed"]
Evaluated(c, r) == \E n \in 1..Len(evals[c]) : evals[c][n].rev = r /\ evals[c][n].state = "passed"
Approved(c, r) == reviews[c][r].approved

\* A call at the gates has read a revision, which is history or is what there is.
SeesRevision(h) == h.pc \in Gates =>
  /\ candidate[h.cand].state # "none" /\ h.seen.kind = candidate[h.cand].kind
  /\ h.seen.rev \in Revs /\ h.expected \in {0, h.seen.rev}
  /\ h.seen.rev <= candidate[h.cand].rev
  /\ h.seen.rev = candidate[h.cand].rev => h.seen.content = candidate[h.cand].content

\* The gates behind it are on record for that revision.
PassedGates(h) ==
  /\ h.pc \in Gates \ {"gate replay"} /\ h.seen.kind = "improve" => Replayed(h.cand, h.seen.rev)
  /\ h.pc \in {"gate evaluation", "promote"} /\ h.seen.content.wide => Approved(h.cand, h.seen.rev)
  /\ h.pc = "promote" /\ h.seen.kind = "improve" => Evaluated(h.cand, h.seen.rev)

\* A replay under way has its own row, and nobody else's.
HasReplay(h) == h.pc = "replaying" =>
  h.replay \in 1..Len(replays[h.cand]) /\ replays[h.cand][h.replay].state = "running"

GoodCall(h) == /\ h.pc \in AboutCandidate => h.cand \in CandidateIds
               /\ SeesRevision(h) /\ PassedGates(h) /\ HasReplay(h)

SameReplay(h, k) == h.pc = "replaying" /\ k.pc = "replaying" /\ h.cand = k.cand /\ h.replay = k.replay

CallsOK ==
  /\ decider \in [Deciders -> DeciderRow]
  /\ \A d \in Deciders : GoodCall(decider[d])
  /\ \A d, e \in Deciders : d # e => ~SameReplay(decider[d], decider[e])

Chain == /\ skill \in [state : {"active", "archived"}, version : Nat, pinned : BOOLEAN]
         /\ versions \in Seq(Nat) /\ archives \in Seq(ArchiveRow)
         /\ VersionsFormAChain /\ skill.version = Len(versions)

CandidatesOK == /\ candidate \in [CandidateIds -> CandidateRow]
                /\ \A c \in CandidateIds : Open(c) => candidate[c].rev \in Revs

RecordsOK == /\ replays \in [CandidateIds -> Seq(ReplayRow)] /\ evals \in [CandidateIds -> Seq(EvalRow)]
             /\ reviews \in [CandidateIds -> [Revs -> ReviewRow]]
             /\ \A c \in CandidateIds, r \in Revs : reviews[c][r].decision = "approve" => Approved(c, r)

\* A promoted candidate stays as it was promoted, and so do the gates it passed.
GoodPromotion(p) ==
  /\ p.cand \in CandidateIds /\ candidate[p.cand].state = "promoted"
  /\ p.expected # 0 =>
       /\ p.rev \in Revs
       /\ candidate[p.cand].kind = "improve" => Replayed(p.cand, p.rev) /\ Evaluated(p.cand, p.rev)
       /\ candidate[p.cand].content.wide => Approved(p.cand, p.rev)

IInv == Chain /\ CandidatesOK /\ RecordsOK /\ CallsOK /\ (\A p \in promotions : GoodPromotion(p))

-----------------------------------------------------------------------------
(* What no step takes back.                                                *)

CandidatesKept == \A c \in CandidateIds : candidate[c].state # "none" =>
  /\ candidate'[c].state # "none" /\ candidate'[c].kind = candidate[c].kind
  /\ candidate[c].rev <= candidate'[c].rev
  /\ candidate'[c].rev = candidate[c].rev => candidate'[c].content = candidate[c].content
  /\ candidate[c].state = "promoted" => candidate'[c] = candidate[c]

RecordsKept == \A c \in CandidateIds :
  /\ \A r : Replayed(c, r) => Replayed(c, r)'
  /\ \A r : Evaluated(c, r) => Evaluated(c, r)'
  /\ \A r \in Revs : Approved(c, r) => Approved(c, r)'

ReplaysKept == \A c \in CandidateIds : \A n \in 1..Len(replays[c]) :
                 n \in 1..Len(replays'[c]) /\ replays'[c][n] = replays[c][n]

Kept == CandidatesKept /\ RecordsKept

LEMMA PromotionsStay ==
  ASSUME IInv, Kept
  PROVE  \A p \in promotions : GoodPromotion(p)'
BY DEF IInv, Kept, CandidatesKept, RecordsKept, GoodPromotion, CandidatesOK

\* What a call has seen and passed stays true.
LEMMA CallStays ==
  ASSUME IInv, Kept, CandidatesOK', NEW h \in DeciderRow, GoodCall(h),
         h.pc = "replaying" => h.replay \in 1..Len(replays'[h.cand]) /\ replays'[h.cand][h.replay].state = "running"
  PROVE  GoodCall(h)'
<1>1. SeesRevision(h)'
  <2>1. h.pc \in Gates => /\ h.cand \in CandidateIds /\ SeesRevision(h)
                          /\ candidate[h.cand].rev \in Nat /\ candidate'[h.cand].rev \in Nat
    BY DEF GoodCall, AboutCandidate, IInv, CandidatesOK, CandidateRow
  <2>2. QED
    BY <2>1 DEF Kept, CandidatesKept, SeesRevision, Revs
<1>2. PassedGates(h)'
  <2>1. h.pc \in Gates => h.cand \in CandidateIds /\ h.seen.rev \in Revs
    BY DEF GoodCall, SeesRevision, AboutCandidate
  <2>2. PassedGates(h)
    BY DEF GoodCall
  <2>3. h.pc \in Gates => /\ Replayed(h.cand, h.seen.rev) => Replayed(h.cand, h.seen.rev)'
                          /\ Evaluated(h.cand, h.seen.rev) => Evaluated(h.cand, h.seen.rev)'
                          /\ Approved(h.cand, h.seen.rev) => Approved(h.cand, h.seen.rev)'
    BY <2>1, Zenon DEF Kept, RecordsKept
  <2>4. QED
    BY <2>2, <2>3 DEF PassedGates, Gates
<1>3. QED
  BY <1>1, <1>2 DEF GoodCall, HasReplay

LEMMA OthersStay ==
  ASSUME IInv, Kept, CandidatesOK', ReplaysKept, NEW e \in Deciders, decider'[e] = decider[e]
  PROVE  GoodCall(decider[e])'
<1>1. PICK k \in DeciderRow : k = decider[e] /\ k = decider'[e]
  BY DEF IInv, CallsOK
<1>2. GoodCall(k)
  BY <1>1 DEF IInv, CallsOK
<1>3. k.pc = "replaying" => /\ k.replay \in 1..Len(replays'[k.cand])
                            /\ replays'[k.cand][k.replay].state = "running"
  BY <1>2 DEF GoodCall, HasReplay, AboutCandidate, ReplaysKept
<1>4. GoodCall(k)'
  BY <1>2, <1>3, CallStays
<1>5. QED
  BY <1>1, <1>4 DEF GoodCall, SeesRevision, PassedGates, HasReplay

\* One call moves, and does not start a replay.
LEMMA OneCallMoves ==
  ASSUME IInv, Kept, CandidatesOK', ReplaysKept, NEW d \in Deciders, NEW h \in DeciderRow,
         decider' = [decider EXCEPT ![d] = h], GoodCall(h)', h.pc # "replaying"
  PROVE  CallsOK'
<1>1. /\ decider' \in [Deciders -> DeciderRow]
      /\ \A e \in Deciders : decider'[e] = IF e = d THEN h ELSE decider[e]
  BY DEF IInv, CallsOK
<1>2. \A e \in Deciders : e # d => GoodCall(decider[e])'
  BY <1>1, OthersStay
<1>3. \A e \in Deciders : GoodCall(decider[e])'
  BY <1>1, <1>2 DEF GoodCall, SeesRevision, PassedGates, HasReplay
<1>4. \A e, f \in Deciders : e # f => ~SameReplay(decider'[e], decider'[f])
  BY <1>1 DEF IInv, CallsOK, SameReplay
<1>5. QED
  BY <1>1, <1>3, <1>4 DEF CallsOK

LEMMA CallsStay ==
  ASSUME IInv, Kept, CandidatesOK', ReplaysKept, UNCHANGED decider
  PROVE  CallsOK'
<1>1. \A e \in Deciders : GoodCall(decider[e])'
  BY OthersStay
<1>2. QED
  BY <1>1 DEF IInv, CallsOK

\* Away from the gates, a call relies on nothing.
LEMMA AwayFromGates ==
  ASSUME NEW h \in DeciderRow, h.pc \notin Gates \cup {"replaying"}, h.pc \in AboutCandidate => h.cand \in CandidateIds
  PROVE  GoodCall(h) /\ GoodCall(h)'
BY DEF GoodCall, SeesRevision, PassedGates, HasReplay, Gates

LEMMA IdleIsCall == IdleDecider \in DeciderRow /\ IdleDecider.pc = "idle"
<1>1. NoCandidate \in CandidateRow
  BY DEF NoCandidate, CandidateRow, Contents
<1>2. QED
  BY <1>1 DEF IdleDecider, DeciderRow

\* A call begins, at a place that is not a gate.
LEMMA CallBegins ==
  ASSUME IInv, Kept, CandidatesOK', ReplaysKept, NEW d \in Deciders, NEW h \in DeciderRow,
         decider' = [decider EXCEPT ![d] = h], h.pc \notin Gates \cup {"replaying"},
         h.pc \in AboutCandidate => h.cand \in CandidateIds
  PROVE  CallsOK'
<1>1. GoodCall(h)'
  BY AwayFromGates
<1>2. QED
  BY <1>1, OneCallMoves DEF Gates

LEMMA CallEnds ==
  ASSUME IInv, Kept, CandidatesOK', ReplaysKept, NEW d \in Deciders,
         DeciderEnds(d) \/ (\E outcome \in {"complete", "fail"} : PromotionEnds(d, outcome))
  PROVE  CallsOK'
<1>1. PICK h \in DeciderRow : decider' = [decider EXCEPT ![d] = h] /\ h.pc \in {"idle", "complete", "fail"}
  <2>1. CASE decider' = [decider EXCEPT ![d] = IdleDecider]
    BY <2>1, IdleIsCall
  <2>2. ASSUME NEW outcome \in {"complete", "fail"},
               decider' = [decider EXCEPT ![d] = [IdleDecider EXCEPT !.op = "promote", !.pc = outcome]]
        PROVE  \E h \in DeciderRow : decider' = [decider EXCEPT ![d] = h] /\ h.pc \in {"idle", "complete", "fail"}
    <3>1. [IdleDecider EXCEPT !.op = "promote", !.pc = outcome] \in DeciderRow
      BY IdleIsCall DEF DeciderRow
    <3>2. [IdleDecider EXCEPT !.op = "promote", !.pc = outcome].pc = outcome
      BY IdleIsCall DEF DeciderRow
    <3>3. QED
      BY <2>2, <3>1, <3>2
  <2>3. QED
    BY <2>1, <2>2 DEF DeciderEnds, PromotionEnds
<1>2. h.pc \notin Gates \cup AboutCandidate \cup {"replaying"}
  BY <1>1 DEF Gates, AboutCandidate
<1>3. QED
  BY <1>1, <1>2, CallBegins

\* Nothing changes that a call relies on.
LEMMA CallGoes ==
  ASSUME IInv, Kept, CandidatesOK', ReplaysKept, NEW d \in Deciders, NEW h \in DeciderRow,
         decider' = [decider EXCEPT ![d] = h], GoodCall(h), h.pc # "replaying"
  PROVE  CallsOK'
BY OneCallMoves, CallStays

-----------------------------------------------------------------------------
(* What candidates and records do.                                         *)

LEMMA CandidatesStay ==
  ASSUME IInv, UNCHANGED candidate
  PROVE  CandidatesKept /\ CandidatesOK'
BY DEF IInv, CandidatesKept, CandidatesOK, CandidateRow, Open

LEMMA RecordsStay ==
  ASSUME IInv, UNCHANGED <<replays, evals, reviews>>
  PROVE  RecordsKept /\ ReplaysKept /\ RecordsOK'
BY DEF IInv, RecordsKept, ReplaysKept, RecordsOK, Replayed, Evaluated, Approved

LEMMA CandidateMoves ==
  ASSUME IInv, NEW c \in CandidateIds, NEW row \in CandidateRow, candidate' = [candidate EXCEPT ![c] = row],
         candidate[c].state # "promoted", row.state # "none",
         candidate[c].state # "none" => /\ row.kind = candidate[c].kind /\ candidate[c].rev <= row.rev
                                        /\ row.rev = candidate[c].rev => row.content = candidate[c].content,
         row.state \in {"needs_review", "quarantined"} => row.rev \in Revs
  PROVE  CandidatesKept /\ CandidatesOK'
<1>1. /\ candidate' \in [CandidateIds -> CandidateRow]
      /\ \A b \in CandidateIds : candidate'[b] = IF b = c THEN row ELSE candidate[b]
  BY DEF IInv, CandidatesOK
<1>2. CandidatesKept
  BY <1>1 DEF IInv, CandidatesKept, CandidatesOK, CandidateRow
<1>3. CandidatesOK'
  BY <1>1 DEF IInv, CandidatesOK, Open
<1>4. QED
  BY <1>2, <1>3

LEMMA CheckedRow ==
  ASSUME NEW row \in CandidateRow
  PROVE  /\ Checked(row) \in CandidateRow /\ Checked(row).state \in {"needs_review", "quarantined"}
         /\ Checked(row).kind = row.kind /\ Checked(row).rev = row.rev /\ Checked(row).content = row.content
<1> DEFINE s == IF ChecksPassed(row) THEN "needs_review" ELSE "quarantined"
<1>1. s \in {"needs_review", "quarantined"} /\ Checked(row) = [row EXCEPT !.state = s]
  BY DEF Checked
<1> HIDE DEF s
<1>2. QED
  BY <1>1 DEF CandidateRow

LEMMA NewCandidateGood ==
  ASSUME IInv, NEW c \in CandidateIds, NEW kind \in {"improve", "restore"}, NEW base \in Nat, NEW content \in Contents,
         NewCandidate(c, kind, base, content)
  PROVE  CandidatesKept /\ CandidatesOK'
<1> DEFINE row == [NoCandidate EXCEPT !.kind = kind, !.base = base, !.rev = 1, !.content = content]
<1>1. row \in CandidateRow /\ row.rev = 1
  BY DEF NoCandidate, CandidateRow
<1>2. candidate[c].state = "none" /\ candidate' = [candidate EXCEPT ![c] = Checked(row)]
  BY DEF NewCandidate
<1>3. 1 \in Revs
  BY SkillAssumption DEF Revs
<1> HIDE DEF row
<1>4. QED
  BY <1>1, <1>2, <1>3, CheckedRow, CandidateMoves

\* What a step that promotes nothing has to show.
LEMMA Together ==
  ASSUME IInv, CandidatesKept, RecordsKept, Chain', CandidatesOK', RecordsOK', CallsOK', UNCHANGED promotions
  PROVE  IInv'
BY PromotionsStay DEF Kept, IInv

LEMMA ChainStays ==
  ASSUME IInv, UNCHANGED <<skill, versions, archives>>
  PROVE  Chain'
BY DEF IInv, Chain, VersionsFormAChain

-----------------------------------------------------------------------------
(* The steps.                                                              *)

LEMMA InitGood == SkillInit => IInv
<1> SUFFICES ASSUME SkillInit PROVE IInv
  OBVIOUS
<1>1. NoCandidate \in CandidateRow
  BY DEF NoCandidate, CandidateRow, Contents
<1>2. Chain
  BY DEF SkillInit, Chain, VersionsFormAChain
<1>3. CandidatesOK
  BY <1>1 DEF SkillInit, CandidatesOK, Open, NoCandidate
<1>4. RecordsOK
  BY DEF SkillInit, RecordsOK, ReviewRow, Revs
<1>5. CallsOK
  <2>1. GoodCall(IdleDecider)
    BY IdleIsCall DEF GoodCall, SeesRevision, PassedGates, HasReplay, AboutCandidate, Gates
  <2>2. QED
    BY <2>1, IdleIsCall DEF SkillInit, CallsOK, SameReplay
<1>6. QED
  BY <1>2, <1>3, <1>4, <1>5 DEF IInv, SkillInit

\* A replay starts for a new candidate, and for an edited one.
LEMMA ReplayQueued ==
  ASSUME IInv, Kept, CandidatesOK', ReplaysKept, NEW d \in Deciders, NEW c \in CandidateIds,
         decider' = [decider EXCEPT ![d] = [IdleDecider EXCEPT !.op = "replay", !.pc = "replay", !.cand = c]]
  PROVE  CallsOK'
<1> DEFINE h == [IdleDecider EXCEPT !.op = "replay", !.pc = "replay", !.cand = c]
<1>1. h \in DeciderRow /\ h.pc = "replay" /\ h.cand = c
  BY IdleIsCall DEF DeciderRow
<1>2. PICK k \in DeciderRow : decider' = [decider EXCEPT ![d] = k] /\ k.pc = "replay" /\ k.cand = c
  BY <1>1
<1>3. QED
  BY <1>2, CallBegins DEF Gates

LEMMA ProposeStep ==
  ASSUME IInv, NEW d \in Deciders, NEW c \in CandidateIds, ProposeImprovement(d, c)
  PROVE  IInv'
<1>1. CandidatesKept /\ CandidatesOK'
  <2>1. skill.version \in Nat
    BY DEF IInv, Chain
  <2>2. QED
    BY <2>1, NewCandidateGood DEF ProposeImprovement
<1>2. RecordsKept /\ ReplaysKept /\ RecordsOK' /\ Chain'
  BY RecordsStay, ChainStays DEF ProposeImprovement
<1>3. CallsOK'
  BY <1>1, <1>2, ReplayQueued DEF ProposeImprovement, Kept
<1>4. QED
  BY <1>1, <1>2, <1>3, Together DEF ProposeImprovement

LEMMA EditStep ==
  ASSUME IInv, NEW d \in Deciders, NEW c \in CandidateIds, EditCandidate(d, c)
  PROVE  IInv'
<1>1. CandidatesKept /\ CandidatesOK'
  <2>1. PICK content \in Contents :
          candidate' = [candidate EXCEPT ![c] =
            Checked([candidate[c] EXCEPT !.rev = candidate[c].rev + 1, !.content = content, !.replayed = FALSE])]
    BY DEF EditCandidate
  <2> DEFINE n == candidate[c].rev + 1
             row == [candidate[c] EXCEPT !.rev = n, !.content = content, !.replayed = FALSE]
  <2>2. candidate[c] \in CandidateRow /\ candidate[c].rev \in Nat
    BY DEF IInv, CandidatesOK, CandidateRow
  <2>3. n \in Revs /\ candidate[c].rev < n /\ candidate[c].state \in {"needs_review", "quarantined"}
    BY <2>2, SkillAssumption DEF EditCandidate, Open, Revs
  <2>4. candidate' = [candidate EXCEPT ![c] = Checked(row)]
    BY <2>1
  <2>5. n \in Nat
    BY <2>2
  <2> HIDE DEF n
  <2>6. row \in CandidateRow /\ row.rev = n /\ row.kind = candidate[c].kind
    BY <2>2, <2>5 DEF CandidateRow
  <2> HIDE DEF row
  <2>7. PICK k \in CandidateRow : /\ k = Checked(row) /\ k.state \in {"needs_review", "quarantined"}
                                  /\ k.rev = n /\ k.kind = candidate[c].kind
    BY <2>6, CheckedRow
  <2>8. candidate[c].rev # n /\ candidate[c].rev <= n
    BY <2>2, <2>3, <2>5
  <2>9. QED
    BY <2>3, <2>4, <2>7, <2>8, CandidateMoves
<1>2. RecordsKept /\ ReplaysKept /\ RecordsOK' /\ Chain'
  BY RecordsStay, ChainStays DEF EditCandidate
<1>3. CallsOK'
  <2>1. CASE UNCHANGED decider
    BY <1>1, <1>2, <2>1, CallsStay DEF Kept
  <2>2. CASE decider' = [decider EXCEPT ![d] = [IdleDecider EXCEPT !.op = "replay", !.pc = "replay", !.cand = c]]
    BY <1>1, <1>2, <2>2, ReplayQueued DEF Kept
  <2>3. QED
    BY <2>1, <2>2 DEF EditCandidate
<1>4. QED
  BY <1>1, <1>2, <1>3, Together DEF EditCandidate

LEMMA RejectStep ==
  ASSUME IInv, NEW c \in CandidateIds, RejectCandidate(c)
  PROVE  IInv'
<1>1. CandidatesKept /\ CandidatesOK'
  <2> DEFINE n == candidate[c].rev + 1
             row == [candidate[c] EXCEPT !.state = "rejected", !.rev = n]
  <2>1. candidate[c] \in CandidateRow /\ n \in Nat /\ candidate[c].rev < n /\ candidate[c].state # "promoted"
    BY DEF IInv, CandidatesOK, CandidateRow, RejectCandidate, Open
  <2>2. candidate' = [candidate EXCEPT ![c] = row]
    BY DEF RejectCandidate, IInv, CandidatesOK
  <2>2a. candidate[c].rev <= n /\ n # candidate[c].rev
    BY DEF IInv, CandidatesOK, CandidateRow
  <2> HIDE DEF n
  <2>3. row \in CandidateRow /\ row.rev = n /\ row.kind = candidate[c].kind /\ row.state = "rejected"
    BY <2>1 DEF CandidateRow
  <2> HIDE DEF row
  <2>4. QED
    BY <2>1, <2>2, <2>2a, <2>3, CandidateMoves
<1>2. RecordsKept /\ ReplaysKept /\ RecordsOK' /\ Chain'
  BY RecordsStay, ChainStays DEF RejectCandidate
<1>3. QED
  BY <1>1, <1>2, CallsStay, Together DEF RejectCandidate, Kept

LEMMA RestoreStep ==
  ASSUME IInv, NEW c \in CandidateIds, RestoreArchive(c)
  PROVE  IInv'
<1>1. PICK n \in 1..Len(archives) : /\ archives' = [archives EXCEPT ![n].restored = TRUE]
                                    /\ NewCandidate(c, "restore", archives[n].version, Plain)
  BY DEF RestoreArchive
<1>2. archives[n] \in ArchiveRow
  BY DEF IInv, Chain
<1>3. CandidatesKept /\ CandidatesOK'
  <2>1. Plain \in Contents
    BY DEF Contents
  <2>2. archives[n].version \in Nat
    BY <1>2 DEF ArchiveRow
  <2>3. QED
    BY <1>1, <2>1, <2>2, NewCandidateGood
<1>4. RecordsKept /\ ReplaysKept /\ RecordsOK'
  BY RecordsStay DEF RestoreArchive
<1>5. Chain'
  <2>1. [archives[n] EXCEPT !.restored = TRUE] \in ArchiveRow
    BY <1>2 DEF ArchiveRow
  <2>2. archives' \in Seq(ArchiveRow)
    BY <1>1, <2>1 DEF IInv, Chain
  <2>3. QED
    BY <2>2 DEF IInv, Chain, VersionsFormAChain, RestoreArchive
<1>6. QED
  BY <1>3, <1>4, <1>5, CallsStay, Together DEF RestoreArchive, Kept

LEMMA ApplyChecksStep ==
  ASSUME IInv, NEW d \in Deciders, ApplyReplayChecks(d)
  PROVE  IInv'
<1> DEFINE c == decider[d].cand
<1>1. CandidatesKept /\ CandidatesOK'
  <2>1. CASE UNCHANGED candidate
    BY <2>1, CandidatesStay
  <2>2. CASE ~UNCHANGED candidate
    <3> DEFINE row == [candidate[c] EXCEPT !.replayed = decider[d].seen.content.test # "failed"]
    <3>1. Open(c) /\ c \in CandidateIds
      BY <2>2 DEF ApplyReplayChecks, IInv, CallsOK, GoodCall, AboutCandidate, DeciderAt
    <3>2. candidate' = [candidate EXCEPT ![c] = Checked(row)]
      BY <2>2, <3>1 DEF ApplyReplayChecks, IInv, CandidatesOK
    <3>3. candidate[c] \in CandidateRow /\ candidate[c].rev \in Revs
      BY <3>1 DEF IInv, CandidatesOK
    <3>4. /\ row \in CandidateRow /\ row.rev = candidate[c].rev /\ row.kind = candidate[c].kind
          /\ row.content = candidate[c].content
      BY <3>3 DEF CandidateRow
    <3>5. candidate[c].state \in {"needs_review", "quarantined"} /\ candidate[c].rev <= candidate[c].rev
      BY <3>1, <3>3 DEF Open, Revs
    <3> HIDE DEF row, c
    <3>6. QED
      BY <3>1, <3>2, <3>3, <3>4, <3>5, CheckedRow, CandidateMoves
  <2>3. QED
    BY <2>1, <2>2
<1>2. RecordsKept /\ ReplaysKept /\ RecordsOK' /\ Chain'
  BY RecordsStay, ChainStays DEF ApplyReplayChecks
<1>3. CallsOK'
  BY <1>1, <1>2, CallEnds DEF ApplyReplayChecks, Kept
<1>4. QED
  BY <1>1, <1>2, <1>3, Together DEF ApplyReplayChecks

(***************************************************************************)
(* A call that looks at what there is, and changes nothing but its place.  *)
(***************************************************************************)
Looks == UNCHANGED <<candidate, versions, replays, evals, reviews, promotions>>

LEMMA LooksKeeps ==
  ASSUME IInv, Looks
  PROVE  /\ CandidatesKept /\ CandidatesOK' /\ RecordsKept /\ ReplaysKept /\ RecordsOK' /\ Kept
         /\ Chain' /\ CallsOK' => IInv'
BY CandidatesStay, RecordsStay, Together DEF Looks, Kept

LEMMA LookStep ==
  ASSUME IInv, Looks, UNCHANGED <<skill, archives>>, NEW d \in Deciders, NEW h \in DeciderRow,
         decider' = [decider EXCEPT ![d] = h], GoodCall(h), h.pc # "replaying"
  PROVE  IInv'
BY LooksKeeps, ChainStays, CallGoes DEF Looks

LEMMA LookEnds ==
  ASSUME IInv, Looks, Chain', NEW d \in Deciders,
         DeciderEnds(d) \/ (\E outcome \in {"complete", "fail"} : PromotionEnds(d, outcome))
  PROVE  IInv'
BY LooksKeeps, CallEnds

LEMMA StartsStep ==
  ASSUME IInv, NEW d \in Deciders, NEW c \in CandidateIds, StartEvaluation(d, c) \/ StartAutomation(d, c)
  PROVE  IInv'
<1>1. Looks /\ UNCHANGED <<skill, archives>>
  BY DEF StartEvaluation, StartAutomation, Looks
<1>2. candidate[c] \in CandidateRow
  BY DEF IInv, CandidatesOK
<1>3. PICK h \in DeciderRow : decider' = [decider EXCEPT ![d] = h] /\ h.cand = c /\ h.pc \in {"evaluating", "qualify"}
  <2>1. CASE StartEvaluation(d, c)
    <3> DEFINE h == [IdleDecider EXCEPT !.op = "evaluate", !.pc = "evaluating", !.cand = c, !.seen = candidate[c]]
    <3>1. h \in DeciderRow /\ h.cand = c /\ h.pc = "evaluating"
      BY <1>2, IdleIsCall DEF DeciderRow
    <3>2. QED
      BY <2>1, <3>1 DEF StartEvaluation
  <2>2. CASE StartAutomation(d, c)
    <3> DEFINE h == [IdleDecider EXCEPT !.op = "promote", !.pc = "qualify", !.cand = c]
    <3>1. h \in DeciderRow /\ h.cand = c /\ h.pc = "qualify"
      BY IdleIsCall DEF DeciderRow
    <3>2. QED
      BY <2>2, <3>1 DEF StartAutomation
  <2>3. QED
    BY <2>1, <2>2
<1>4. GoodCall(h)
  BY <1>3, AwayFromGates DEF Gates
<1>5. QED
  BY <1>1, <1>3, <1>4, LookStep

LEMMA StartPromotionStep ==
  ASSUME IInv, NEW d \in Deciders, NEW c \in CandidateIds, StartPromotion(d, c)
  PROVE  IInv'
<1> DEFINE pc == IF candidate[c].kind = "improve" THEN "gate replay" ELSE "gate review"
           call(expected) == [IdleDecider EXCEPT !.op = "promote", !.cand = c, !.seen = candidate[c],
                                                 !.expected = expected, !.pc = pc]
<1>1. Looks /\ UNCHANGED <<skill, archives>>
  BY DEF StartPromotion, Looks
<1>2. candidate[c] \in CandidateRow /\ candidate[c].rev \in Revs /\ candidate[c].state = "needs_review"
  BY DEF IInv, CandidatesOK, StartPromotion, Open
<1>3. candidate[c].rev \in Nat
  BY <1>2, Zenon DEF CandidateRow
<1>4. \/ decider' = [decider EXCEPT ![d] = call(0)]
      \/ decider' = [decider EXCEPT ![d] = call(candidate[c].rev)]
  BY Zenon DEF StartPromotion
<1>5. pc \in {"gate replay", "gate review"} /\ (pc = "gate review" => candidate[c].kind # "improve")
  OBVIOUS
<1> HIDE DEF pc
<1>6. \A n \in Nat : /\ call(n) \in DeciderRow /\ call(n).pc = pc /\ call(n).cand = c
                     /\ call(n).seen = candidate[c] /\ call(n).expected = n
  BY <1>2, <1>5, IdleIsCall DEF DeciderRow
<1> HIDE DEF call
<1>7. PICK h \in DeciderRow : /\ decider' = [decider EXCEPT ![d] = h] /\ h.pc = pc /\ h.cand = c
                              /\ h.seen = candidate[c] /\ h.expected \in {0, candidate[c].rev}
  BY <1>3, <1>4, <1>6
<1>8. GoodCall(h)
  <2>1. h.pc \in {"gate replay", "gate review"}
    BY <1>5, <1>7, Zenon
  <2>2. candidate[c].rev <= candidate[c].rev
    BY <1>3
  <2>3. QED
    BY <1>2, <1>5, <1>7, <2>1, <2>2 DEF GoodCall, SeesRevision, PassedGates, HasReplay, Gates
<1>9. h.pc # "replaying"
  BY <1>5, <1>7
<1>10. QED
  BY <1>1, <1>7, <1>8, <1>9, LookStep

LEMMA QualifyStep ==
  ASSUME IInv, NEW d \in Deciders, QualifyCandidate(d)
  PROVE  IInv'
<1>1. Looks /\ UNCHANGED <<skill, archives>> /\ Chain'
  BY ChainStays DEF QualifyCandidate, Looks
<1>2. CASE DeciderEnds(d)
  BY <1>1, <1>2, LookEnds
<1>3. CASE ~DeciderEnds(d)
  <2> DEFINE k == [decider[d] EXCEPT !.pc = "preflight", !.expected = candidate[decider[d].cand].rev, !.row = TRUE]
  <2>1. decider[d] \in DeciderRow /\ decider[d].cand \in CandidateIds /\ candidate[decider[d].cand].rev \in Nat
    BY DEF IInv, CallsOK, GoodCall, AboutCandidate, QualifyCandidate, DeciderAt, CandidatesOK, CandidateRow
  <2>2. k \in DeciderRow /\ k.pc = "preflight" /\ k.cand \in CandidateIds
    BY <2>1 DEF DeciderRow
  <2>3. PICK h \in DeciderRow : decider' = [decider EXCEPT ![d] = h] /\ h.pc = "preflight" /\ h.cand \in CandidateIds
    BY <1>3, <2>2 DEF QualifyCandidate
  <2>4. GoodCall(h)
    BY <2>3, AwayFromGates DEF Gates
  <2>5. QED
    BY <1>1, <2>3, <2>4, LookStep
<1>4. QED
  BY <1>2, <1>3

LEMMA PreflightStep ==
  ASSUME IInv, NEW d \in Deciders, Preflight(d)
  PROVE  IInv'
<1> DEFINE c == decider[d].cand
<1>1. Looks /\ UNCHANGED <<skill, archives>> /\ Chain'
  BY ChainStays DEF Preflight, Looks
<1>2. CASE PromotionEnds(d, "fail")
  BY <1>1, <1>2, LookEnds
<1>3. CASE ~PromotionEnds(d, "fail")
  <2> DEFINE k == [decider[d] EXCEPT !.pc = "gate replay", !.seen = candidate[c]]
  <2>1. decider[d] \in DeciderRow /\ c \in CandidateIds
    BY DEF IInv, CallsOK, GoodCall, AboutCandidate, Preflight, DeciderAt
  <2>2. /\ candidate[c].state = "needs_review" /\ candidate[c].rev = decider[d].expected
        /\ decider' = [decider EXCEPT ![d] = [decider[d] EXCEPT !.pc = "gate replay", !.seen = candidate[c]]]
    BY <1>3, Zenon DEF Preflight
  <2>2a. decider' = [decider EXCEPT ![d] = k]
    BY <2>2
  <2>3. candidate[c] \in CandidateRow /\ candidate[c].rev \in Revs
    BY <2>1, <2>2 DEF IInv, CandidatesOK, Open
  <2>4. /\ k \in DeciderRow /\ k.pc = "gate replay" /\ k.cand = c /\ k.seen = candidate[c]
        /\ k.expected = candidate[c].rev
    BY <2>1, <2>2, <2>3 DEF DeciderRow
  <2> HIDE DEF k
  <2>5. PICK h \in DeciderRow : /\ decider' = [decider EXCEPT ![d] = h] /\ h.pc = "gate replay" /\ h.cand = c
                                /\ h.seen = candidate[c] /\ h.expected = candidate[c].rev
    BY <2>2a, <2>4
  <2>6. GoodCall(h)
    <3>1. candidate[c].rev <= candidate[c].rev
      BY <2>3 DEF Revs
    <3>2. QED
      BY <2>1, <2>2, <2>3, <2>5, <3>1 DEF GoodCall, SeesRevision, PassedGates, HasReplay, Gates
  <2>7. QED
    BY <1>1, <2>5, <2>6, LookStep
<1>4. QED
  BY <1>2, <1>3

(***************************************************************************)
(* A gate that passes puts what it saw on the call's own record.           *)
(***************************************************************************)
LEMMA GateStep ==
  ASSUME IInv, NEW d \in Deciders, NEW to \in Gates \ {"gate replay"}, NEW from \in Gates, NEW passes \in BOOLEAN,
         Gate(d, from, to, passes),
         passes /\ decider[d].pc = from /\ GoodCall(decider[d]) /\ decider[d] \in DeciderRow =>
           LET h == decider[d]
           IN  /\ h.seen.kind = "improve" => Replayed(h.cand, h.seen.rev)
               /\ to \in {"gate evaluation", "promote"} /\ h.seen.content.wide => Approved(h.cand, h.seen.rev)
               /\ to = "promote" /\ h.seen.kind = "improve" => Evaluated(h.cand, h.seen.rev)
  PROVE  IInv'
<1>1. Looks /\ UNCHANGED <<skill, archives>> /\ Chain'
  BY ChainStays DEF Gate, Looks
<1>2. CASE ~passes
  <2>1. PromotionEnds(d, "fail")
    BY <1>2 DEF Gate
  <2>2. QED
    BY <1>1, <2>1, LookEnds
<1>3. CASE passes
  <2>1. PICK g \in DeciderRow : g = decider[d] /\ GoodCall(g) /\ g.pc = from
    BY DEF IInv, CallsOK, Gate, DeciderAt
  <2> DEFINE k == [g EXCEPT !.pc = to]
  <2>2. k \in DeciderRow /\ k.pc = to /\ k.cand = g.cand /\ k.seen = g.seen /\ k.expected = g.expected
    BY <2>1 DEF DeciderRow, Gates
  <2>3. decider' = [decider EXCEPT ![d] = k]
    BY <1>3, <2>1 DEF Gate, DeciderGoes
  <2> HIDE DEF k
  <2>4. PICK h \in DeciderRow : /\ decider' = [decider EXCEPT ![d] = h] /\ h.pc = to /\ h.cand = g.cand
                                /\ h.seen = g.seen /\ h.expected = g.expected
    BY <2>2, <2>3
  <2>5. /\ g.seen.kind = "improve" => Replayed(g.cand, g.seen.rev)
        /\ to \in {"gate evaluation", "promote"} /\ g.seen.content.wide => Approved(g.cand, g.seen.rev)
        /\ to = "promote" /\ g.seen.kind = "improve" => Evaluated(g.cand, g.seen.rev)
    BY <1>3, <2>1
  <2>6. SeesRevision(g) /\ g.cand \in CandidateIds
    BY <2>1 DEF GoodCall, AboutCandidate
  <2>7. GoodCall(h)
    BY <2>1, <2>4, <2>5, <2>6 DEF GoodCall, SeesRevision, PassedGates, HasReplay, Gates
  <2>8. h.pc # "replaying"
    BY <2>4 DEF Gates
  <2>9. QED
    BY <1>1, <2>4, <2>7, <2>8, LookStep
<1>4. QED
  BY <1>2, <1>3

LEMMA GatesStep ==
  ASSUME IInv, NEW d \in Deciders,
         RequireCurrentReplay(d) \/ RequireCapabilityReview(d) \/ RequireCurrentBehavioralEval(d)
  PROVE  IInv'
<1> DEFINE h == decider[d]
<1>1. CASE RequireCurrentReplay(d)
  <2> DEFINE passes == /\ replays[h.cand] # <<>>
                       /\ Last(replays[h.cand]) = [rev |-> h.seen.rev, state |-> "completed"]
  <2>1. Gate(d, "gate replay", "gate review", passes)
    BY <1>1 DEF RequireCurrentReplay
  <2>2. passes /\ h.cand \in CandidateIds => Replayed(h.cand, h.seen.rev)
    BY DEF IInv, RecordsOK, Replayed, Last
  <2>3. h.pc = "gate replay" /\ GoodCall(h) => h.cand \in CandidateIds
    BY DEF GoodCall, AboutCandidate, Gates
  <2> HIDE DEF passes
  <2>4. passes \in BOOLEAN
    BY DEF passes
  <2>5. QED
    BY <2>1, <2>2, <2>3, <2>4, GateStep DEF Gates
<1>2. CASE RequireCapabilityReview(d)
  <2> DEFINE passes == h.seen.content.wide => reviews[h.cand][h.seen.rev].decision = "approve"
             to == IF h.seen.kind = "improve" THEN "gate evaluation" ELSE "promote"
  <2>1. Gate(d, "gate review", to, passes) /\ passes \in BOOLEAN
    BY <1>2 DEF RequireCapabilityReview
  <2>2. ASSUME passes, h.pc = "gate review", GoodCall(h)
        PROVE  /\ h.seen.kind = "improve" => Replayed(h.cand, h.seen.rev)
               /\ h.seen.content.wide => Approved(h.cand, h.seen.rev)
               /\ to = "promote" => h.seen.kind # "improve"
    BY <2>2 DEF GoodCall, PassedGates, SeesRevision, AboutCandidate, Gates, IInv, RecordsOK
  <2>3. to \in {"gate evaluation", "promote"}
    OBVIOUS
  <2> HIDE DEF passes, to
  <2>4. QED
    BY <2>1, <2>2, <2>3, GateStep DEF Gates
<1>3. CASE RequireCurrentBehavioralEval(d)
  <2> DEFINE passes == /\ evals[h.cand] # <<>>
                       /\ Last(evals[h.cand]).rev = h.seen.rev /\ Last(evals[h.cand]).state = "passed"
  <2>1. Gate(d, "gate evaluation", "promote", passes) /\ passes \in BOOLEAN
    BY <1>3 DEF RequireCurrentBehavioralEval
  <2>2. passes /\ h.cand \in CandidateIds => Evaluated(h.cand, h.seen.rev)
    BY DEF IInv, RecordsOK, Evaluated, Last
  <2>3. ASSUME h.pc = "gate evaluation", GoodCall(h)
        PROVE  /\ h.cand \in CandidateIds /\ h.seen.kind = "improve" => Replayed(h.cand, h.seen.rev)
               /\ h.cand \in CandidateIds /\ (h.seen.content.wide => Approved(h.cand, h.seen.rev))
    BY <2>3 DEF GoodCall, PassedGates, AboutCandidate, Gates
  <2> HIDE DEF passes
  <2>4. QED
    BY <2>1, <2>2, <2>3, GateStep DEF Gates
<1>4. QED
  BY <1>1, <1>2, <1>3

LEMMA StartReplayStep ==
  ASSUME IInv, NEW d \in Deciders, StartReplay(d)
  PROVE  IInv'
<1> DEFINE c == decider[d].cand
<1>1. CASE ~Open(c)
  <2>1. Looks /\ Chain' /\ DeciderEnds(d)
    BY <1>1, ChainStays DEF StartReplay, Looks
  <2>2. QED
    BY <2>1, LookEnds
<1>2. CASE Open(c)
  <2>1. c \in CandidateIds /\ decider[d] \in DeciderRow
    BY DEF IInv, CallsOK, GoodCall, AboutCandidate, StartReplay, DeciderAt
  <2>2. candidate[c] \in CandidateRow /\ candidate[c].rev \in Nat
    BY <2>1 DEF IInv, CandidatesOK, CandidateRow
  <2> DEFINE row == [rev |-> candidate[c].rev, state |-> "running"]
             n == Len(replays[c]) + 1
             k == [decider[d] EXCEPT !.pc = "replaying", !.seen = candidate[c], !.replay = n]
  <2>3. replays[c] \in Seq(ReplayRow) /\ n \in Nat /\ row \in ReplayRow
    BY <2>1, <2>2 DEF IInv, RecordsOK, ReplayRow
  <2>4. /\ replays' = [replays EXCEPT ![c] = Append(replays[c], row)]
        /\ decider' = [decider EXCEPT ![d] = k]
    BY <1>2 DEF StartReplay
  <2>5. k \in DeciderRow /\ k.pc = "replaying" /\ k.cand = c /\ k.replay = n
    BY <2>1, <2>2, <2>3 DEF DeciderRow
  <2> HIDE DEF k
  <2>6. /\ Len(replays'[c]) = n /\ replays'[c][n].state = "running"
        /\ \A m \in 1..Len(replays[c]) : m \in 1..Len(replays'[c]) /\ replays'[c][m] = replays[c][m]
        /\ replays' \in [CandidateIds -> Seq(ReplayRow)]
        /\ \A b \in CandidateIds : b # c => replays'[b] = replays[b]
    BY <2>1, <2>3, <2>4 DEF IInv, RecordsOK
  <2>7. ReplaysKept
    BY <2>6 DEF ReplaysKept
  <2>8. RecordsKept /\ RecordsOK'
    <3>1. ASSUME NEW b \in CandidateIds
          PROVE  /\ \A r : Replayed(b, r) => Replayed(b, r)'
                 /\ \A r : Evaluated(b, r) => Evaluated(b, r)'
                 /\ \A r \in Revs : Approved(b, r) => Approved(b, r)'
      BY <2>7 DEF ReplaysKept, Replayed, Evaluated, Approved, StartReplay
    <3>2. RecordsOK'
      BY <2>6 DEF IInv, RecordsOK, Approved, StartReplay
    <3>3. QED
      BY <3>1, <3>2 DEF RecordsKept
  <2>9. CandidatesKept /\ CandidatesOK' /\ Chain'
    BY CandidatesStay, ChainStays DEF StartReplay
  <2>10. CallsOK'
    <3>1. /\ decider' \in [Deciders -> DeciderRow]
          /\ \A e \in Deciders : decider'[e] = IF e = d THEN k ELSE decider[e]
      BY <2>4, <2>5 DEF IInv, CallsOK
    <3>2. GoodCall(decider[d])'
      <4>1. decider'[d].pc = "replaying" /\ decider'[d].cand = c /\ decider'[d].replay = n
        BY <2>5, <3>1
      <4>2. n \in 1..Len(replays'[c])
        BY <2>3, <2>6
      <4>3. QED
        BY <2>1, <2>6, <4>1, <4>2 DEF GoodCall, SeesRevision, PassedGates, HasReplay, Gates
    <3>3. ASSUME NEW e \in Deciders, e # d
          PROVE  GoodCall(decider[e])' /\ ~SameReplay(decider'[e], k)
      <4>1. GoodCall(decider[e])'
        BY <2>7, <2>8, <2>9, <3>1, <3>3, OthersStay DEF Kept
      <4>2. decider[e].pc = "replaying" /\ decider[e].cand = c => decider[e].replay \in 1..Len(replays[c])
        BY DEF IInv, CallsOK, GoodCall, HasReplay
      <4>3. QED
        BY <2>3, <2>5, <3>1, <3>3, <4>1, <4>2 DEF SameReplay
    <3>4. \A e, f \in Deciders : e # f => ~SameReplay(decider'[e], decider'[f])
      BY <3>1, <3>3 DEF IInv, CallsOK, SameReplay
    <3>5. \A e \in Deciders : GoodCall(decider[e])'
      BY <3>2, <3>3
    <3>6. QED
      BY <3>1, <3>4, <3>5 DEF CallsOK
  <2>11. QED
    BY <2>8, <2>9, <2>10, Together DEF StartReplay
<1>3. QED
  BY <1>1, <1>2

\* Only a row that runs is written, and no two calls run the same.
LEMMA FinishReplayStep ==
  ASSUME IInv, NEW d \in Deciders, FinishReplay(d)
  PROVE  IInv'
<1> DEFINE c == decider[d].cand
           n == decider[d].replay
           t == decider[d].seen.content.test
           row == [replays[c][n] EXCEPT !.state = t]
<1>1. /\ decider[d] \in DeciderRow /\ c \in CandidateIds
      /\ decider[d].pc = "replaying" /\ n \in 1..Len(replays[c]) /\ replays[c][n].state = "running"
  BY DEF IInv, CallsOK, GoodCall, HasReplay, AboutCandidate, FinishReplay, DeciderAt
<1>2. t \in {"completed", "implicit", "failed"}
  <2>1. decider[d].seen.content \in Contents
    BY <1>1 DEF DeciderRow, CandidateRow
  <2>2. QED
    BY <2>1 DEF Contents, Plain
<1>3. replays[c] \in Seq(ReplayRow) /\ replays[c][n] \in ReplayRow
  BY <1>1 DEF IInv, RecordsOK
<1>4. row \in ReplayRow
  BY <1>2, <1>3 DEF ReplayRow
<1>5. replays' = [replays EXCEPT ![c] = [replays[c] EXCEPT ![n] = row]]
  BY DEF FinishReplay
<1> HIDE DEF row, t
<1>6. /\ replays' \in [CandidateIds -> Seq(ReplayRow)]
      /\ Len(replays'[c]) = Len(replays[c]) /\ replays'[c][n] = row
      /\ \A m \in 1..Len(replays[c]) : m # n => replays'[c][m] = replays[c][m]
      /\ \A b \in CandidateIds : b # c => replays'[b] = replays[b]
  BY <1>1, <1>3, <1>4, <1>5 DEF IInv, RecordsOK
<1>7. RecordsKept /\ RecordsOK'
  <2>1. ASSUME NEW b \in CandidateIds, NEW r, Replayed(b, r)
        PROVE  Replayed(b, r)'
    <3>1. PICK m \in 1..Len(replays[b]) : replays[b][m] = [rev |-> r, state |-> "completed"]
      BY <2>1 DEF Replayed
    <3>2. b = c => m # n
      BY <1>1, <3>1
    <3>3. m \in 1..Len(replays'[b]) /\ replays'[b][m] = replays[b][m]
      BY <1>6, <3>2
    <3>4. QED
      BY <3>1, <3>3 DEF Replayed
  <2>2. RecordsKept
    BY <2>1 DEF RecordsKept, Evaluated, Approved, FinishReplay
  <2>3. RecordsOK'
    BY <1>6 DEF IInv, RecordsOK, Approved, FinishReplay
  <2>4. QED
    BY <2>2, <2>3
<1>8. CandidatesKept /\ CandidatesOK' /\ Chain'
  BY CandidatesStay, ChainStays DEF FinishReplay
<1>9. CallsOK'
  <2> DEFINE k == [decider[d] EXCEPT !.pc = "apply"]
  <2>1. k \in DeciderRow /\ k.pc = "apply" /\ k.cand = c
    BY <1>1 DEF DeciderRow
  <2>2. decider' = [decider EXCEPT ![d] = k]
    BY DEF FinishReplay, DeciderGoes
  <2> HIDE DEF k
  <2>3. /\ decider' \in [Deciders -> DeciderRow]
        /\ \A e \in Deciders : decider'[e] = IF e = d THEN k ELSE decider[e]
    BY <2>1, <2>2 DEF IInv, CallsOK
  <2>4. GoodCall(decider[d])'
    BY <1>1, <2>1, <2>3 DEF GoodCall, SeesRevision, PassedGates, HasReplay, Gates
  <2>5. ASSUME NEW e \in Deciders, e # d
        PROVE  GoodCall(decider[e])'
    <3>1. PICK g \in DeciderRow : g = decider[e] /\ g = decider'[e]
      BY <2>3, <2>5 DEF IInv, CallsOK
    <3>2. GoodCall(g) /\ ~SameReplay(decider[d], g)
      BY <2>5, <3>1 DEF IInv, CallsOK
    <3>3. g.pc = "replaying" => g.replay \in 1..Len(replays'[g.cand]) /\ replays'[g.cand][g.replay].state = "running"
      <4>1. SUFFICES ASSUME g.pc = "replaying"
                     PROVE  g.replay \in 1..Len(replays'[g.cand]) /\ replays'[g.cand][g.replay].state = "running"
        OBVIOUS
      <4>2. /\ g.cand \in CandidateIds /\ g.replay \in 1..Len(replays[g.cand])
            /\ replays[g.cand][g.replay].state = "running"
        BY <3>2, <4>1 DEF GoodCall, HasReplay, AboutCandidate
      <4>3. g.cand = c => g.replay # n
        BY <1>1, <3>2, <4>1 DEF SameReplay
      <4>4. QED
        BY <1>6, <4>2, <4>3
    <3>4. GoodCall(g)'
      BY <1>7, <1>8, <3>2, <3>3, CallStays DEF Kept
    <3>5. QED
      BY <3>1, <3>4 DEF GoodCall, SeesRevision, PassedGates, HasReplay
  <2>6. \A e, f \in Deciders : e # f => ~SameReplay(decider'[e], decider'[f])
    BY <2>1, <2>3 DEF IInv, CallsOK, SameReplay
  <2>7. \A e \in Deciders : GoodCall(decider[e])'
    BY <2>4, <2>5
  <2>8. QED
    BY <2>3, <2>6, <2>7 DEF CallsOK
<1>10. QED
  BY <1>7, <1>8, <1>9, Together DEF FinishReplay

LEMMA RecordEvalStep ==
  ASSUME IInv, NEW d \in Deciders, RecordBehavioralEval(d)
  PROVE  IInv'
<1> DEFINE c == decider[d].cand
<1>1. c \in CandidateIds /\ decider[d] \in DeciderRow
  BY DEF IInv, CallsOK, GoodCall, AboutCandidate, RecordBehavioralEval, DeciderAt
<1>2. PICK state \in {"passed", "failed"} :
        evals' = [evals EXCEPT ![c] = Append(@, [rev |-> candidate[c].rev, of |-> decider[d].seen.rev, state |-> state])]
  BY DEF RecordBehavioralEval
<1> DEFINE row == [rev |-> candidate[c].rev, of |-> decider[d].seen.rev, state |-> state]
<1>3. row \in EvalRow
  BY <1>1 DEF IInv, CandidatesOK, DeciderRow, CandidateRow, EvalRow
<1>4. evals' = [evals EXCEPT ![c] = Append(evals[c], row)]
  BY <1>2
<1> HIDE DEF row
<1>5. /\ evals' \in [CandidateIds -> Seq(EvalRow)]
      /\ \A b \in CandidateIds : \A m \in 1..Len(evals[b]) :
            m \in 1..Len(evals'[b]) /\ evals'[b][m] = evals[b][m]
  BY <1>1, <1>3, <1>4 DEF IInv, RecordsOK
<1>6. RecordsKept /\ ReplaysKept /\ RecordsOK'
  BY <1>5 DEF IInv, RecordsKept, ReplaysKept, RecordsOK, Replayed, Evaluated, Approved, RecordBehavioralEval
<1>7. CandidatesKept /\ CandidatesOK' /\ Chain'
  BY CandidatesStay, ChainStays DEF RecordBehavioralEval
<1>8. QED
  BY <1>6, <1>7, CallEnds, Together DEF RecordBehavioralEval, Kept

LEMMA ReviewStep ==
  ASSUME IInv, NEW c \in CandidateIds, ReviewCandidateCapabilities(c)
  PROVE  IInv'
<1> DEFINE r == candidate[c].rev
<1>1. PICK decision \in {"approve", "deny"} :
        reviews' = [reviews EXCEPT ![c][r] = [decision |-> decision,
                                              approved |-> reviews[c][r].approved \/ decision = "approve"]]
  BY DEF ReviewCandidateCapabilities
<1> DEFINE a == reviews[c][r].approved \/ decision = "approve"
           row == [decision |-> decision, approved |-> a]
<1>2. r \in Revs /\ reviews[c] \in [Revs -> ReviewRow] /\ a \in BOOLEAN
  BY DEF IInv, RecordsOK, ReviewCandidateCapabilities, Revs, ReviewRow
<1>3. row \in ReviewRow /\ (row.decision = "approve" => row.approved) /\ (Approved(c, r) => row.approved)
  BY <1>2 DEF ReviewRow, Approved
<1>4. reviews' = [reviews EXCEPT ![c] = [reviews[c] EXCEPT ![r] = row]]
  BY <1>1
<1> HIDE DEF row, a, r
<1>5. /\ reviews' \in [CandidateIds -> [Revs -> ReviewRow]]
      /\ \A b \in CandidateIds, q \in Revs : reviews'[b][q] = IF b = c /\ q = r THEN row ELSE reviews[b][q]
  BY <1>2, <1>3, <1>4 DEF IInv, RecordsOK
<1>6. RecordsKept /\ ReplaysKept /\ RecordsOK'
  <2>1. \A b \in CandidateIds, q \in Revs : Approved(b, q) => Approved(b, q)'
    BY <1>3, <1>5 DEF Approved
  <2>2. \A b \in CandidateIds, q \in Revs : reviews'[b][q].decision = "approve" => reviews'[b][q].approved
    BY <1>3, <1>5 DEF IInv, RecordsOK, Approved
  <2>3. QED
    BY <1>5, <2>1, <2>2 DEF IInv, RecordsKept, ReplaysKept, RecordsOK, Replayed, Evaluated, Approved,
                            ReviewCandidateCapabilities
<1>7. CandidatesKept /\ CandidatesOK' /\ Chain'
  BY CandidatesStay, ChainStays DEF ReviewCandidateCapabilities
<1>8. QED
  BY <1>6, <1>7, CallsStay, Together DEF ReviewCandidateCapabilities, Kept

(***************************************************************************)
(* The transaction relies on the revision: if it is the one that the call  *)
(* saw, then so is the content, and the gates were passed for it.          *)
(***************************************************************************)
LEMMA PromoteStep ==
  ASSUME IInv, NEW d \in Deciders, PromoteCandidate(d)
  PROVE  IInv'
<1> DEFINE c == decider[d].cand
           row == candidate[c]
           n == row.rev + 1
           new == [row EXCEPT !.state = "promoted", !.rev = n]
           p == [cand |-> c, rev |-> row.rev, expected |-> decider[d].expected]
<1>1. CASE UNCHANGED candidate /\ UNCHANGED <<versions, skill, promotions>> /\ PromotionEnds(d, "fail")
  <2>1. Looks /\ Chain'
    BY <1>1, ChainStays DEF PromoteCandidate, Looks
  <2>2. QED
    BY <1>1, <2>1, LookEnds
<1>2. CASE /\ row.state = "needs_review" /\ decider[d].expected \in {0, row.rev} /\ row.base = skill.version
           /\ versions' = Append(versions, row.base)
           /\ skill' = [skill EXCEPT !.state = "active", !.version = Len(versions) + 1]
           /\ candidate' = [candidate EXCEPT ![c].state = "promoted", ![c].rev = @ + 1]
           /\ promotions' = promotions \cup {p}
           /\ PromotionEnds(d, "complete")
  <2>1. PICK h \in DeciderRow : h = decider[d] /\ GoodCall(h) /\ h.pc = "promote"
    BY DEF IInv, CallsOK, PromoteCandidate, DeciderAt
  <2>2. c \in CandidateIds /\ h.cand = c
    BY <2>1 DEF GoodCall, AboutCandidate, Gates
  <2>3. row \in CandidateRow /\ row.rev \in Revs /\ row.rev \in Nat /\ row.base \in Nat
    <3>1. row \in CandidateRow /\ row.rev \in Revs
      BY <1>2, <2>2 DEF IInv, CandidatesOK, Open
    <3>2. QED
      BY <3>1 DEF CandidateRow
  <2>4. candidate' = [candidate EXCEPT ![c] = new]
    BY <1>2, <2>2 DEF IInv, CandidatesOK
  <2>5. n \in Nat /\ row.rev <= n /\ row.rev # n
    BY <2>3
  <2> HIDE DEF n
  <2>6. /\ new \in CandidateRow /\ new.state = "promoted" /\ new.kind = row.kind /\ new.rev = n
        /\ new.content = row.content
    BY <2>3, <2>5 DEF CandidateRow
  <2> HIDE DEF new
  <2>7. CandidatesKept /\ CandidatesOK'
    BY <1>2, <2>2, <2>4, <2>5, <2>6, CandidateMoves
  <2>8. RecordsKept /\ ReplaysKept /\ RecordsOK' /\ Kept
    BY <2>7, RecordsStay DEF PromoteCandidate, Kept
  <2>9. Chain'
    <3>1. row.base = Len(versions) /\ versions \in Seq(Nat) /\ Len(versions) \in Nat
      BY <1>2 DEF IInv, Chain
    <3>2. /\ versions' \in Seq(Nat) /\ Len(versions') = Len(versions) + 1
          /\ \A v \in 1..Len(versions') : versions'[v] = IF v = Len(versions) + 1 THEN row.base ELSE versions[v]
      BY <1>2, <2>3, <3>1
    <3>3. \A v \in 1..Len(versions) : versions[v] = v - 1
      BY DEF IInv, Chain, VersionsFormAChain
    <3>4. VersionsFormAChain'
      <4>1. ASSUME NEW v \in 1..Len(versions')
            PROVE  versions'[v] = v - 1
        <5>1. CASE v = Len(versions) + 1
          <6>1. versions'[v] = Len(versions)
            BY <3>1, <3>2, <5>1
          <6>2. QED
            BY <3>1, <5>1, <6>1
        <5>2. CASE v # Len(versions) + 1
          <6>1. v \in 1..Len(versions) /\ versions'[v] = versions[v]
            BY <3>1, <3>2, <5>2
          <6>2. QED
            BY <3>3, <6>1
        <5>3. QED
          BY <5>1, <5>2
      <4>2. QED
        BY <4>1 DEF VersionsFormAChain
    <3>5. /\ skill' \in [state : {"active", "archived"}, version : Nat, pinned : BOOLEAN]
          /\ skill'.version = Len(versions')
      <4> DEFINE m == Len(versions) + 1
                 sk == [skill EXCEPT !.state = "active", !.version = m]
      <4>1. skill \in [state : {"active", "archived"}, version : Nat, pinned : BOOLEAN] /\ m \in Nat
        BY <3>1 DEF IInv, Chain
      <4>2. skill' = sk /\ m = Len(versions')
        BY <1>2, <3>2
      <4> HIDE DEF m
      <4>3. sk \in [state : {"active", "archived"}, version : Nat, pinned : BOOLEAN] /\ sk.version = m
        BY <4>1
      <4>4. QED
        BY <4>2, <4>3
    <3>6. QED
      BY <3>2, <3>4, <3>5 DEF IInv, Chain, PromoteCandidate
  <2>10. CallsOK'
    BY <1>2, <2>7, <2>8, CallEnds
  <2>11. PICK q : q = p
    OBVIOUS
  <2>12. GoodPromotion(q)'
    <3>1. q.cand \in CandidateIds /\ q.cand = c /\ q.rev = row.rev /\ q.rev \in Revs /\ q.expected = h.expected
      BY <2>1, <2>2, <2>3, <2>11
    <3>2. candidate'[q.cand] = new
      BY <2>2, <2>4, <3>1 DEF IInv, CandidatesOK
    <3>3. ASSUME h.expected # 0
          PROVE  /\ row.kind = "improve" => Replayed(q.cand, q.rev) /\ Evaluated(q.cand, q.rev)
                 /\ row.content.wide => Approved(q.cand, q.rev)
      <4>1. SeesRevision(h) /\ PassedGates(h)
        BY <2>1 DEF GoodCall
      <4>2. h.seen.rev = row.rev
        BY <1>2, <2>1, <2>2, <3>3, <4>1 DEF SeesRevision, Gates
      <4>3. h.seen.kind = row.kind /\ h.seen.content = row.content
        BY <2>1, <2>2, <4>1, <4>2 DEF SeesRevision, Gates
      <4>4. QED
        BY <2>1, <2>2, <3>1, <4>1, <4>2, <4>3 DEF PassedGates, Gates
    <3>4. UNCHANGED <<replays, evals, reviews>>
      BY DEF PromoteCandidate
    <3>5. /\ Replayed(q.cand, q.rev) => Replayed(q.cand, q.rev)'
          /\ Evaluated(q.cand, q.rev) => Evaluated(q.cand, q.rev)'
          /\ Approved(q.cand, q.rev) => Approved(q.cand, q.rev)'
      BY <3>4 DEF Replayed, Evaluated, Approved
    <3>6. QED
      BY <2>6, <3>1, <3>2, <3>3, <3>5 DEF GoodPromotion
  <2>13. \A r \in promotions : GoodPromotion(r)'
    BY <2>8, PromotionsStay
  <2>14. promotions' = promotions \cup {q}
    BY <1>2, <2>11
  <2>15. \A r \in promotions' : GoodPromotion(r)'
    BY <2>12, <2>13, <2>14
  <2>16. QED
    BY <2>7, <2>8, <2>9, <2>10, <2>15 DEF IInv
<1>3. QED
  BY <1>1, <1>2 DEF PromoteCandidate

LEMMA SettleStep ==
  ASSUME IInv, NEW d \in Deciders, SettleAction(d)
  PROVE  IInv'
<1>1. Looks /\ Chain' /\ DeciderEnds(d)
  BY ChainStays DEF SettleAction, Looks
<1>2. QED
  BY <1>1, LookEnds

LEMMA ArchivedChain ==
  ASSUME IInv, Archived, UNCHANGED versions
  PROVE  Chain'
<1>1. [version |-> skill.version, restored |-> FALSE] \in ArchiveRow
  BY DEF IInv, Chain, ArchiveRow
<1>2. archives' \in Seq(ArchiveRow)
  BY <1>1 DEF IInv, Chain, Archived
<1>3. skill' \in [state : {"active", "archived"}, version : Nat, pinned : BOOLEAN] /\ skill'.version = skill.version
  BY DEF IInv, Chain, Archived
<1>4. QED
  BY <1>2, <1>3 DEF IInv, Chain, VersionsFormAChain

LEMMA CuratorStep ==
  ASSUME IInv, NEW d \in Deciders, StartCuration(d) \/ CheckStale(d) \/ ArchiveStale(d)
  PROVE  IInv'
<1>1. CASE StartCuration(d)
  <2> DEFINE k == [IdleDecider EXCEPT !.op = "curate", !.pc = "stale", !.version = skill.version]
  <2>1. k \in DeciderRow /\ k.pc = "stale"
    BY IdleIsCall DEF DeciderRow, IInv, Chain
  <2>2. PICK h \in DeciderRow : decider' = [decider EXCEPT ![d] = h] /\ h.pc = "stale"
    BY <1>1, <2>1 DEF StartCuration
  <2>3. GoodCall(h)
    BY <2>2, AwayFromGates DEF Gates, AboutCandidate
  <2>4. Looks /\ UNCHANGED <<skill, archives>>
    BY <1>1 DEF StartCuration, Looks
  <2>5. QED
    BY <2>2, <2>3, <2>4, LookStep
<1>2. CASE CheckStale(d)
  <2>1. Looks /\ UNCHANGED <<skill, archives>> /\ Chain'
    BY <1>2, ChainStays DEF CheckStale, Looks
  <2>2. CASE DeciderEnds(d)
    BY <2>1, <2>2, LookEnds
  <2>3. CASE ~DeciderEnds(d)
    <3> DEFINE k == [decider[d] EXCEPT !.pc = "archive", !.row = TRUE]
    <3>1. decider[d] \in DeciderRow
      BY DEF IInv, CallsOK
    <3>2. k \in DeciderRow /\ k.pc = "archive"
      BY <3>1 DEF DeciderRow
    <3>3. PICK h \in DeciderRow : decider' = [decider EXCEPT ![d] = h] /\ h.pc = "archive"
      BY <1>2, <2>3, <3>2 DEF CheckStale
    <3>4. GoodCall(h)
      BY <3>3, AwayFromGates DEF Gates, AboutCandidate
    <3>5. QED
      BY <2>1, <3>3, <3>4, LookStep
  <2>4. QED
    BY <2>2, <2>3
<1>3. CASE ArchiveStale(d)
  <2>1. Looks
    BY <1>3 DEF ArchiveStale, Looks
  <2>2. Chain'
    BY <1>3, ArchivedChain, ChainStays DEF ArchiveStale
  <2>3. QED
    BY <1>3, <2>1, <2>2, LookEnds DEF ArchiveStale
<1>4. QED
  BY <1>1, <1>2, <1>3

LEMMA SettingsStep ==
  ASSUME IInv, ArchiveSkill \/ UpdateSkillControls \/ SaveAuthorityPolicy
  PROVE  IInv'
<1>1. Looks /\ UNCHANGED decider
  BY DEF ArchiveSkill, UpdateSkillControls, SaveAuthorityPolicy, Looks
<1>2. Chain'
  <2>1. CASE ArchiveSkill
    BY <2>1, ArchivedChain DEF ArchiveSkill
  <2>2. CASE UpdateSkillControls
    BY <2>2 DEF UpdateSkillControls, IInv, Chain, VersionsFormAChain
  <2>3. CASE SaveAuthorityPolicy
    BY <2>3, ChainStays DEF SaveAuthorityPolicy
  <2>4. QED
    BY <2>1, <2>2, <2>3
<1>3. QED
  BY <1>1, <1>2, LooksKeeps, CallsStay

LEMMA StopStep ==
  ASSUME IInv, StopSkills
  PROVE  IInv'
<1>1. Looks /\ Chain'
  BY ChainStays DEF StopSkills, Looks
<1>2. \A e \in Deciders : decider'[e] = IdleDecider \/ (decider'[e] = decider[e] /\ decider[e].pc = "evaluating")
  BY DEF StopSkills, DeciderAt
<1>3. decider' \in [Deciders -> DeciderRow]
  BY IdleIsCall DEF StopSkills, IInv, CallsOK
<1>4. ASSUME NEW e \in Deciders
      PROVE  GoodCall(decider[e])'
  <2>1. PICK h \in DeciderRow : h = decider'[e]
    BY <1>3
  <2>2. h.pc \in {"idle", "evaluating"} /\ (h.pc = "evaluating" => h.cand \in CandidateIds)
    BY <1>2, <2>1, IdleIsCall DEF IInv, CallsOK, GoodCall, AboutCandidate
  <2>3. GoodCall(h)'
    BY <2>2, AwayFromGates DEF Gates, AboutCandidate
  <2>4. QED
    BY <2>1, <2>3 DEF GoodCall, SeesRevision, PassedGates, HasReplay
<1>5. \A e, f \in Deciders : e # f => ~SameReplay(decider'[e], decider'[f])
  BY <1>2, IdleIsCall DEF SameReplay
<1>6. CallsOK'
  BY <1>3, <1>4, <1>5 DEF CallsOK
<1>7. QED
  BY <1>1, <1>6, LooksKeeps

LEMMA Inductive == SkillSpec => []IInv
<1>1. IInv /\ [SkillNext]_skillVars => IInv'
  <2> SUFFICES ASSUME IInv, [SkillNext]_skillVars PROVE IInv'
    OBVIOUS
  <2>1. CASE UNCHANGED skillVars
    <3>1. Looks /\ UNCHANGED <<skill, archives, decider>>
      BY <2>1 DEF skillVars, Looks
    <3>2. QED
      BY <3>1, LooksKeeps, ChainStays, CallsStay DEF Looks
  <2>2. ASSUME NEW d \in Deciders, NEW c \in CandidateIds,
               \/ ProposeImprovement(d, c) \/ EditCandidate(d, c) \/ StartEvaluation(d, c)
               \/ StartPromotion(d, c) \/ StartAutomation(d, c)
        PROVE  IInv'
    BY <2>2, ProposeStep, EditStep, StartsStep, StartPromotionStep
  <2>3. ASSUME NEW d \in Deciders,
               \/ StartReplay(d) \/ FinishReplay(d) \/ ApplyReplayChecks(d) \/ RecordBehavioralEval(d)
               \/ QualifyCandidate(d) \/ Preflight(d) \/ RequireCurrentReplay(d) \/ RequireCapabilityReview(d)
               \/ RequireCurrentBehavioralEval(d) \/ PromoteCandidate(d) \/ SettleAction(d)
               \/ StartCuration(d) \/ CheckStale(d) \/ ArchiveStale(d)
        PROVE  IInv'
    BY <2>3, StartReplayStep, FinishReplayStep, ApplyChecksStep, RecordEvalStep, QualifyStep, PreflightStep,
       GatesStep, PromoteStep, SettleStep, CuratorStep
  <2>4. ASSUME NEW c \in CandidateIds, RejectCandidate(c) \/ ReviewCandidateCapabilities(c) \/ RestoreArchive(c)
        PROVE  IInv'
    BY <2>4, RejectStep, ReviewStep, RestoreStep
  <2>5. CASE ArchiveSkill \/ UpdateSkillControls \/ SaveAuthorityPolicy \/ StopSkills
    BY <2>5, SettingsStep, StopStep
  <2>6. QED
    BY <2>1, <2>2, <2>3, <2>4, <2>5 DEF SkillNext
<1>2. QED
  BY <1>1, InitGood, PTL DEF SkillSpec

-----------------------------------------------------------------------------
\* Each version of a skill derives from the one before it, whatever promotions,
\* archives and restorations overlap.
THEOREM VersionsChain == SkillSpec => []VersionsFormAChain
<1>1. IInv => VersionsFormAChain
  BY DEF IInv, Chain
<1>2. QED
  BY <1>1, Inductive, PTL

\* What was promoted under a revision had passed the gates as that revision.
THEOREM PromotionIsGated == SkillSpec => []PromotedAsGated
<1>1. IInv => PromotedAsGated
  BY DEF IInv, GoodPromotion, PromotedAsGated, Replayed, Evaluated, Approved
<1>2. QED
  BY <1>1, Inductive, PTL
=============================================================================
