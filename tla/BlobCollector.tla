---------------------------- MODULE BlobCollector ----------------------------
(***************************************************************************)
(* The content-addressed blobs, the rows that refer to them, and the       *)
(* curator's garbage collector: a dry run that lists what no row refers    *)
(* to, its application, which moves those blobs to a quarantine, and the   *)
(* restoration of what was moved.                                          *)
(*                                                                         *)
(* Files and rows are two systems.  A statement and a file operation are   *)
(* actions of their own, any of them may fail, and the process may stop.   *)
(***************************************************************************)
EXTENDS Naturals, FiniteSets

CONSTANTS
  MaxBlobs, MaxPlans,     \* blobs are numbered in the order of their references; dry runs
  Keepers,                \* calls of ApplyGC and RestoreGC under way
  Savers,                 \* Put calls whose reference is still to be committed
  MaxTouches, MaxFaults   \* bounds: Puts and dropped references; failures and stops

ASSUME BlobAssumption == MaxBlobs \in Nat /\ MaxPlans \in Nat /\ MaxTouches \in Nat /\ MaxFaults \in Nat

VARIABLES
  active,     \* blobs in the store
  stored,     \* blobs that a Put has ever returned
  refs,       \* blobs that a row refers to
  exposed,    \* those of them that an application could not have seen
  gc,         \* gc[n]: state of the run, and the snapshot of its dry run
  quarantine, \* quarantine[n]: blobs in the directory of run n
  keeper,     \* keeper[k]: where ApplyGC or RestoreGC stands
  saver,      \* saver[w]: the blob it holds, if any
  touches, faults

blobVars == <<active, stored, refs, exposed, gc, quarantine, keeper, saver, touches, faults>>

BlobIds == 1..MaxBlobs
GcRuns == 1..MaxPlans
NoBlob == 0
NoGcRun == [state |-> "none", rows |-> {}, files |-> {}]
IdleKeeper == [op |-> "none", pc |-> "idle", run |-> 0, seen |-> {}, todo |-> {}, moved |-> {}, torn |-> FALSE]

Faulty == faults < MaxFaults /\ faults' = faults + 1
KeeperAt(k, pc) == keeper[k].pc = pc
KeeperEnds(k) == keeper' = [keeper EXCEPT ![k] = IdleKeeper]
SetGc(n, state) == gc' = [gc EXCEPT ![n].state = state]
Candidates(n) == gc[n].files \ gc[n].rows
First(S) == CHOOSE b \in S : \A x \in S : b <= x

-----------------------------------------------------------------------------
(* Put, and the transactions that refer to what it stored.                 *)

\* The blob is there already, or it is written and renamed into place.
Put(w) ==
  /\ saver[w] = NoBlob /\ touches < MaxTouches /\ touches' = touches + 1
  /\ \E b \in BlobIds : /\ saver' = [saver EXCEPT ![w] = b]
                        /\ active' = active \cup {b} /\ stored' = stored \cup {b}
  /\ UNCHANGED <<refs, exposed, gc, quarantine, keeper, faults>>

\* An application that took its snapshot before cannot know of the reference.
CommitReference(w) ==
  LET b == saver[w]
      unseen == b \notin active \/ \E k \in Keepers : keeper[k].op = "apply"
  IN  /\ b # NoBlob /\ saver' = [saver EXCEPT ![w] = NoBlob]
      /\ refs' = refs \cup {b}
      /\ exposed' = IF b \notin refs /\ unseen THEN exposed \cup {b} ELSE exposed
      /\ UNCHANGED <<touches, active, stored, gc, quarantine, keeper, faults>>

\* The row is replaced, or its transaction rolls back and leaves a blob behind.
DropReference(b) ==
  /\ b \in refs /\ touches < MaxTouches /\ touches' = touches + 1
  /\ refs' = refs \ {b} /\ exposed' = exposed \ {b}
  /\ UNCHANGED <<active, stored, gc, quarantine, keeper, saver, faults>>

-----------------------------------------------------------------------------
(* The collector.                                                          *)

\* gcSnapshot reads the rows and then lists the files.
DryRunRows(n) ==
  /\ gc[n] = NoGcRun /\ \A m \in GcRuns : m < n => gc[m] # NoGcRun
  /\ gc' = [gc EXCEPT ![n] = [state |-> "reading", rows |-> refs, files |-> {}]]
  /\ UNCHANGED <<touches, active, stored, refs, exposed, quarantine, keeper, saver, faults>>

DryRunFiles(n) ==
  /\ gc[n].state = "reading"
  /\ gc' = [gc EXCEPT ![n].state = "planned", ![n].files = active]
  /\ UNCHANGED <<touches, active, stored, refs, exposed, quarantine, keeper, saver, faults>>

StartApplication(k) ==
  /\ KeeperAt(k, "idle")
  /\ \E n \in GcRuns :
       /\ gc[n].state = "planned"
       /\ keeper' = [keeper EXCEPT ![k] = [IdleKeeper EXCEPT !.op = "apply", !.pc = "list", !.run = n, !.seen = refs]]
  /\ UNCHANGED <<touches, active, stored, refs, exposed, gc, quarantine, saver, faults>>

CompareSnapshot(k) ==
  LET n == keeper[k].run
  IN  /\ KeeperAt(k, "list")
      /\ IF keeper[k].seen = gc[n].rows /\ active = gc[n].files 
           THEN keeper' = [keeper EXCEPT ![k].pc = "claim", ![k].seen = {}] ELSE KeeperEnds(k)
      /\ UNCHANGED <<touches, active, stored, refs, exposed, gc, quarantine, saver, faults>>

\* Mutant: the run is claimed by whoever comes.
ClaimByAnyone(k) ==
  LET n == keeper[k].run
  IN  /\ KeeperAt(k, "claim")
      /\ SetGc(n, "applying") /\ keeper' = [keeper EXCEPT ![k].pc = "move", ![k].todo = Candidates(n)]
      /\ UNCHANGED <<touches, active, stored, refs, exposed, quarantine, saver, faults>>

ClaimGc(k) ==
  LET n == keeper[k].run
  IN  /\ KeeperAt(k, "claim")
      /\ IF gc[n].state = "planned"
           THEN SetGc(n, "applying") /\ keeper' = [keeper EXCEPT ![k].pc = "move", ![k].todo = Candidates(n)]
           ELSE UNCHANGED gc /\ KeeperEnds(k)
      /\ UNCHANGED <<touches, active, stored, refs, exposed, quarantine, saver, faults>>

Quarantine(k) ==
  LET n == keeper[k].run
      b == First(keeper[k].todo)
  IN  /\ KeeperAt(k, "move") /\ keeper[k].todo # {} /\ b \in active
      /\ active' = active \ {b}
      /\ quarantine' = [quarantine EXCEPT ![n] = @ \cup {b}]
      /\ keeper' = [keeper EXCEPT ![k].todo = @ \ {b}, ![k].moved = @ \cup {b}]
      /\ UNCHANGED <<touches, stored, refs, exposed, gc, saver, faults>>

\* The blob is gone, or the rename fails: what was moved is taken back.
QuarantineFails(k) ==
  /\ KeeperAt(k, "move") /\ keeper[k].todo # {}
  /\ IF First(keeper[k].todo) \in active THEN Faulty ELSE UNCHANGED faults
  /\ keeper' = [keeper EXCEPT ![k].pc = "unmove", ![k].todo = keeper[k].moved]
  /\ UNCHANGED <<touches, active, stored, refs, exposed, gc, quarantine, saver>>

\* An update that fails may have happened.
CommitQuarantine(k) ==
  LET n == keeper[k].run
      landed == [gc EXCEPT ![n].state = IF @ = "applying" THEN "quarantined" ELSE @]
  IN  /\ KeeperAt(k, "move") /\ keeper[k].todo = {}
      /\ \/ /\ gc' = landed /\ UNCHANGED faults
            /\ IF gc[n].state = "applying" THEN KeeperEnds(k)
               ELSE keeper' = [keeper EXCEPT ![k].pc = "unmove", ![k].todo = keeper[k].moved]
         \/ /\ Faulty /\ gc' \in {gc, landed}
            /\ keeper' = [keeper EXCEPT ![k].pc = "unmove", ![k].todo = keeper[k].moved]
      /\ UNCHANGED <<touches, active, stored, refs, exposed, quarantine, saver>>

\* RestoreFromQuarantine: an active blob is left alone, and its copy where it is.
BringBack(k) ==
  LET n == keeper[k].run
      b == First(keeper[k].todo)
  IN  /\ KeeperAt(k, "unmove") /\ keeper[k].todo # {}
      /\ \/ /\ b \in active \/ b \in quarantine[n]
            /\ active' = active \cup {b}
            /\ quarantine' = IF b \in active THEN quarantine ELSE [quarantine EXCEPT ![n] = @ \ {b}]
            /\ keeper' = [keeper EXCEPT ![k].todo = @ \ {b}]
            /\ UNCHANGED faults
         \/ /\ IF b \in active \cup quarantine[n] THEN Faulty ELSE UNCHANGED faults
            /\ UNCHANGED <<active, quarantine>>
            /\ keeper' = [keeper EXCEPT ![k].todo = @ \ {b}, ![k].torn = TRUE]
      /\ UNCHANGED <<touches, stored, refs, exposed, gc, saver>>

\* A failing update is logged, and leaves the run "applying".
ReleaseClaim(k) ==
  LET n == keeper[k].run
      state == IF keeper[k].torn THEN "partial_quarantine" ELSE "planned"
  IN  /\ KeeperAt(k, "unmove") /\ keeper[k].todo = {} /\ KeeperEnds(k)
      /\ \/ gc' = [gc EXCEPT ![n].state = IF @ = "applying" THEN state ELSE @] /\ UNCHANGED faults
         \/ Faulty /\ UNCHANGED gc
      /\ UNCHANGED <<touches, active, stored, refs, exposed, quarantine, saver>>

StartRestoration(k) ==
  /\ KeeperAt(k, "idle")
  /\ \E n \in GcRuns :
       /\ gc[n].state \in {"quarantined", "partial_quarantine"}
       /\ keeper' = [keeper EXCEPT ![k] = [IdleKeeper EXCEPT !.op = "restore", !.pc = "restore", !.run = n,
                                                            !.todo = Candidates(n)]]
  /\ UNCHANGED <<touches, active, stored, refs, exposed, gc, quarantine, saver, faults>>

\* The first blob that cannot be restored ends the call.
RestoreBlob(k) ==
  LET n == keeper[k].run
      b == First(keeper[k].todo)
  IN  /\ KeeperAt(k, "restore") /\ keeper[k].todo # {}
      /\ \/ /\ b \in active \/ b \in quarantine[n]
            /\ active' = active \cup {b}
            /\ quarantine' = IF b \in active THEN quarantine ELSE [quarantine EXCEPT ![n] = @ \ {b}]
            /\ keeper' = [keeper EXCEPT ![k].todo = @ \ {b}]
            /\ UNCHANGED faults
         \/ /\ IF b \in active \cup quarantine[n] THEN Faulty ELSE UNCHANGED faults
            /\ UNCHANGED <<active, quarantine>> /\ KeeperEnds(k)
      /\ UNCHANGED <<touches, stored, refs, exposed, gc, saver>>

FinishRestoration(k) ==
  LET n == keeper[k].run
  IN  /\ KeeperAt(k, "restore") /\ keeper[k].todo = {} /\ KeeperEnds(k)
      /\ gc' = [gc EXCEPT ![n].state = IF @ \in {"quarantined", "partial_quarantine"} THEN "restored" ELSE @]
      /\ UNCHANGED <<touches, active, stored, refs, exposed, quarantine, saver, faults>>

\* The process stops: no pass of the next one looks at the runs.
StopCollector ==
  /\ Faulty
  /\ keeper' = [k \in Keepers |-> IdleKeeper]
  /\ saver' = [w \in Savers |-> NoBlob]
  /\ gc' = [n \in GcRuns |-> IF gc[n].state = "reading" THEN NoGcRun ELSE gc[n]]
  /\ UNCHANGED <<touches, active, stored, refs, exposed, quarantine>>

-----------------------------------------------------------------------------
BlobInit ==
  /\ active = {} /\ stored = {} /\ refs = {} /\ exposed = {}
  /\ gc = [n \in GcRuns |-> NoGcRun]
  /\ quarantine = [n \in GcRuns |-> {}]
  /\ keeper = [k \in Keepers |-> IdleKeeper]
  /\ saver = [w \in Savers |-> NoBlob]
  /\ touches = 0 /\ faults = 0

BlobNext ==
  \/ \E w \in Savers : Put(w) \/ CommitReference(w)
  \/ \E b \in BlobIds : DropReference(b)
  \/ \E n \in GcRuns : DryRunRows(n) \/ DryRunFiles(n)
  \/ \E k \in Keepers :
       \/ StartApplication(k) \/ CompareSnapshot(k) \/ ClaimGc(k) \/ Quarantine(k) \/ QuarantineFails(k)
       \/ CommitQuarantine(k) \/ BringBack(k) \/ ReleaseClaim(k)
       \/ StartRestoration(k) \/ RestoreBlob(k) \/ FinishRestoration(k)
  \/ StopCollector

BlobSpec == BlobInit /\ [][BlobNext]_blobVars

-----------------------------------------------------------------------------
(* Properties.                                                             *)

GcStates == {"none", "reading", "planned", "applying", "quarantined", "partial_quarantine", "restored"}

\* Files, rows and calls have their shapes.
BlobTypeOK ==
  /\ active \subseteq BlobIds /\ stored \subseteq BlobIds /\ refs \subseteq BlobIds /\ exposed \subseteq BlobIds
  /\ gc \in [GcRuns -> [state : GcStates, rows : SUBSET BlobIds, files : SUBSET BlobIds]]
  /\ quarantine \in [GcRuns -> SUBSET BlobIds]
  /\ keeper \in [Keepers -> [op : {"none", "apply", "restore"},
                             pc : {"idle", "list", "claim", "move", "unmove", "restore"},
                             run : GcRuns \cup {0}, seen : SUBSET BlobIds, todo : SUBSET BlobIds,
                             moved : SUBSET BlobIds, torn : BOOLEAN]]
  /\ saver \in [Savers -> BlobIds \cup {NoBlob}]
  /\ touches \in Nat /\ faults \in Nat

\* Whatever fails, overlaps or stops: a blob that is missing from the store is
\* in the quarantine of a run whose row says so, never of one that reads as
\* not applied or as restored (ApplyGC, maintenance.go:150-195); and a row that
\* misses its blob is one whose reference no application could have seen.
MissingBlobsAreOnRecord ==
  /\ \A b \in stored \ active : \E n \in GcRuns :
       b \in quarantine[n] /\ gc[n].state \in {"applying", "quarantined", "partial_quarantine"}
  /\ refs \ active \subseteq exposed

\* "A successful Put is durable before its reference can be committed"
\* (blob/store.go:18).  It does not hold: a blob that nothing refers to yet may be
\* moved between the Put that found it and the commit.
ReferencedIsStored == refs \subseteq active
=============================================================================
