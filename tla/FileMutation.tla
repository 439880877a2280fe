---------------------------- MODULE FileMutation ----------------------------
(***************************************************************************)
(* Writes of one project file: the durable intent of each, the replacement *)
(* on disk, its receipt, and the recovery of the intents that a crash or a *)
(* failed receipt has left dispatched.  Intent and disk are two systems;   *)
(* editors that know nothing of the path lock write the disk too.          *)
(***************************************************************************)
EXTENDS Naturals

CONSTANTS
  Writers,             \* writes of the file; each slot is used once
  Texts,               \* what the file can hold
  MaxChanges, MaxBoots \* bounds: edits by others, restarts

Absent == "absent"
Unlocked == "nobody holds the path"
Outsider == "somebody else"

ASSUME FileMutationAssumption ==
  /\ Absent \notin Texts /\ Unlocked \notin Writers /\ Outsider \notin Writers
  /\ MaxChanges \in Nat /\ MaxBoots \in Nat

VARIABLES
  disk,     \* content of the file
  pathLock, \* the writer that holds the path's lock
  intent,   \* intent[w]: row of file_mutation_intents
  writer,   \* writer[w]: where writeProjectFileLocked stands
  receipt,  \* receipt[w]: an artifact carries its operation id
  lastChange, \* who changed the disk last; only the properties read it
  booting,  \* RecoverFileMutations has not finished
  changes, boots

mutationVars == <<disk, pathLock, intent, writer, receipt, lastChange, booting, changes, boots>>
mutationBounds == <<changes, boots>>
NoIntent == [state |-> "none", before |-> Absent, after |-> Absent]
SetIntent(w, state) == intent' = [intent EXCEPT ![w].state = state]
WriterGoes(w, pc) == writer' = [writer EXCEPT ![w] = pc]
Returns(w) == WriterGoes(w, "done") /\ pathLock' = Unlocked

-----------------------------------------------------------------------------
\* The caller's preimage is the content under the lock, and the intent is recorded.
PlanMutation(w) ==
  /\ ~booting /\ writer[w] = "idle" /\ pathLock = Unlocked /\ pathLock' = w
  /\ \E content \in Texts :
       intent' = [intent EXCEPT ![w] = [state |-> "planned", before |-> disk, after |-> content]]
  /\ WriterGoes(w, "check")
  /\ UNCHANGED <<disk, receipt, lastChange, booting, mutationBounds>>

\* The temporary file is written, and the preimage read again.
CheckPreimage(w) ==
  /\ writer[w] = "check"
  /\ \/ disk = intent[w].before /\ WriterGoes(w, "dispatch") /\ UNCHANGED <<intent, pathLock>>
     \/ SetIntent(w, "abandoned") /\ Returns(w)
  /\ UNCHANGED <<disk, receipt, lastChange, booting, mutationBounds>>

\* A transition that fails leaves the intent planned.
DispatchMutation(w) ==
  /\ writer[w] = "dispatch"
  /\ \/ SetIntent(w, "dispatched") /\ WriterGoes(w, "replace") /\ UNCHANGED pathLock
     \/ UNCHANGED intent /\ Returns(w)
  /\ UNCHANGED <<disk, receipt, lastChange, booting, mutationBounds>>

\* A new file is linked, which fails if somebody has made one; any other is renamed over.
ReplaceFile(w) ==
  /\ writer[w] = "replace"
  /\ \/ /\ intent[w].before = Absent => disk = Absent
        /\ disk' = intent[w].after /\ lastChange' = w
        /\ WriterGoes(w, "receipt") /\ UNCHANGED <<intent, pathLock>>
     \/ SetIntent(w, "abandoned") /\ Returns(w) /\ UNCHANGED <<disk, lastChange>>
  /\ UNCHANGED <<receipt, booting, mutationBounds>>

\* The file and its directory are synced and the artifact saved; whatever fails, the
\* caller learns that the write was committed and the intent stays dispatched.
SaveReceipt(w) ==
  /\ writer[w] = "receipt"
  /\ \/ receipt' = [receipt EXCEPT ![w] = TRUE] /\ WriterGoes(w, "observe") /\ UNCHANGED pathLock
     \/ UNCHANGED receipt /\ Returns(w)
  /\ UNCHANGED <<disk, intent, lastChange, booting, mutationBounds>>

ObserveMutation(w) ==
  /\ writer[w] = "observe" /\ Returns(w)
  /\ SetIntent(w, "observed") \/ UNCHANGED intent
  /\ UNCHANGED <<disk, receipt, lastChange, booting, mutationBounds>>

-----------------------------------------------------------------------------
\* Somebody else writes, or removes, the file.
ChangeOutside ==
  /\ changes < MaxChanges /\ changes' = changes + 1 /\ UNCHANGED boots
  /\ disk' \in Texts \cup {Absent} /\ lastChange' = Outsider
  /\ UNCHANGED <<pathLock, intent, writer, receipt, booting>>

StopProduct ==
  /\ boots < MaxBoots /\ boots' = boots + 1 /\ UNCHANGED changes
  /\ booting' = TRUE /\ pathLock' = Unlocked
  /\ writer' = [w \in Writers |-> IF writer[w] = "idle" THEN "idle" ELSE "done"]
  /\ UNCHANGED <<disk, intent, receipt, lastChange>>

\* Mutant: the content before the write is looked for first.
RecoverFileMutationBackwards(w) ==
  /\ booting /\ intent[w].state = "dispatched"
  /\ CASE disk = intent[w].before -> SetIntent(w, "abandoned") /\ UNCHANGED receipt
       [] disk = intent[w].after /\ disk # intent[w].before ->
            SetIntent(w, "reconciled") /\ receipt' = [receipt EXCEPT ![w] = TRUE]
       [] OTHER -> SetIntent(w, "uncertain") /\ UNCHANGED receipt
  /\ UNCHANGED <<disk, pathLock, writer, lastChange, booting, mutationBounds>>

\* One dispatched intent: the disk tells what became of it, or it is uncertain.
RecoverFileMutation(w) ==
  /\ booting /\ intent[w].state = "dispatched"
  /\ CASE disk = intent[w].after -> SetIntent(w, "reconciled") /\ receipt' = [receipt EXCEPT ![w] = TRUE]
       [] disk = intent[w].before /\ disk # intent[w].after -> SetIntent(w, "abandoned") /\ UNCHANGED receipt
       [] OTHER -> SetIntent(w, "uncertain") /\ UNCHANGED receipt
  /\ UNCHANGED <<disk, pathLock, writer, lastChange, booting, mutationBounds>>

\* The file cannot be read, or the project's root is gone.
RecoveryIsBlind(w) ==
  /\ booting /\ intent[w].state = "dispatched" /\ SetIntent(w, "uncertain")
  /\ UNCHANGED <<disk, pathLock, writer, receipt, lastChange, booting, mutationBounds>>

Serve ==
  /\ booting /\ \A w \in Writers : intent[w].state # "dispatched"
  /\ booting' = FALSE
  /\ UNCHANGED <<disk, pathLock, intent, writer, receipt, lastChange, mutationBounds>>

-----------------------------------------------------------------------------
MutationInit ==
  /\ disk \in Texts \cup {Absent}
  /\ pathLock = Unlocked /\ booting = FALSE /\ changes = 0 /\ boots = 0
  /\ intent = [w \in Writers |-> NoIntent]
  /\ writer = [w \in Writers |-> "idle"]
  /\ receipt = [w \in Writers |-> FALSE]
  /\ lastChange = Outsider

MutationNext ==
  \/ \E w \in Writers :
       \/ PlanMutation(w) \/ CheckPreimage(w) \/ DispatchMutation(w) \/ ReplaceFile(w)
       \/ SaveReceipt(w) \/ ObserveMutation(w) \/ RecoverFileMutation(w) \/ RecoveryIsBlind(w)
  \/ ChangeOutside \/ StopProduct \/ Serve

MutationSpec == MutationInit /\ [][MutationNext]_mutationVars

-----------------------------------------------------------------------------
(* Properties.                                                             *)

MutationTypeOK ==
  /\ disk \in Texts \cup {Absent}
  /\ pathLock \in Writers \cup {Unlocked}
  /\ intent \in [Writers -> [state : {"none", "planned", "dispatched", "observed", "reconciled", "abandoned",
                                      "uncertain"},
                             before : Texts \cup {Absent}, after : Texts \cup {Absent}]]
  /\ writer \in [Writers -> {"idle", "check", "dispatch", "replace", "receipt", "observe", "done"}]
  /\ receipt \in [Writers -> BOOLEAN]
  /\ lastChange \in Writers \cup {Outsider}
  /\ booting \in BOOLEAN /\ changes \in Nat /\ boots \in Nat

\* The last replacement of the file is on record, whatever failed or crashed
\* after it: its intent is neither planned nor abandoned, and one that claims to
\* have been seen has its receipt (writeProjectFileLocked, RecoverFileMutations).
LastReplacementOnRecord ==
  /\ lastChange \in Writers => intent[lastChange].state \notin {"none", "planned", "abandoned"}
  /\ \A w \in Writers : intent[w].state \in {"observed", "reconciled"} => receipt[w]
=============================================================================
