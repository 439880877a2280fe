------------------------------- MODULE McpPool -------------------------------
(***************************************************************************)
(* The pool of one stdio MCP server's processes: callers that fetch the    *)
(* server's entry under the pool's lock and use it under the entry's own,  *)
(* the idle sweeper, saves of the server's settings, and the shutdown.     *)
(*                                                                         *)
(* An entry is a Go object, so one that has left the table may still be    *)
(* in a caller's hands.  Sections under one of the two locks are actions.  *)
(***************************************************************************)
EXTENDS Naturals

CONSTANTS
  Callers,               \* pooledCalls made; each slot is used once
  MaxEntries, MaxSaves   \* bounds: entries ever made, saves of the settings

NoCaller == "no caller"
NoEntry == 0

ASSUME McpPoolAssumption == NoCaller \notin Callers /\ MaxEntries \in Nat /\ MaxSaves \in Nat

VARIABLES
  settings, \* the row as last saved: what serverIdentity fingerprints of it, and the timeout
  saving,   \* a save has committed and has not dropped the old process yet
  pool,     \* the entry in its table, the number made, and whether it is stopped
  entries,  \* entries[e]: fingerprint it was made for, process, holder, a close that waits
  calls     \* calls[c]: where the call stands, the row it has read, its entry, how often it was sent

poolVars == <<settings, saving, pool, entries, calls>>

EntryIds == 1..MaxEntries
FreshEntry(identity) == [identity |-> identity, process |-> "none", holder |-> NoCaller, closing |-> FALSE]
CallAt(c, pc) == calls[c].pc = pc
CallGoes(c, pc) == calls' = [calls EXCEPT ![c].pc = pc]

\* The table forgets its entry, and a close of it waits for the entry's lock.
Dropped == [e \in EntryIds |-> [entries[e] EXCEPT !.closing = @ \/ e = pool.live]]

-----------------------------------------------------------------------------
\* pooledCall works from the row its service read.
StartCall(c) ==
  /\ CallAt(c, "idle")
  /\ \E method \in {"list", "tool"} :
       calls' = [calls EXCEPT ![c].pc = "acquire", ![c].method = method, ![c].row = settings]
  /\ UNCHANGED <<settings, saving, pool, entries>>

\* Mutant: whatever entry is there is taken.
AcquireAny(c) ==
  /\ CallAt(c, "acquire") /\ ~pool.stopped
  /\ IF pool.live # NoEntry
       THEN /\ calls' = [calls EXCEPT ![c].pc = "lock", ![c].entry = pool.live]
            /\ UNCHANGED <<pool, entries>>
       ELSE /\ pool.made < MaxEntries
            /\ pool' = [pool EXCEPT !.made = @ + 1, !.live = pool.made + 1]
            /\ entries' = [entries EXCEPT ![pool.made + 1] = FreshEntry(calls[c].row.identity)]
            /\ calls' = [calls EXCEPT ![c].pc = "lock", ![c].entry = pool.made + 1]
  /\ UNCHANGED <<settings, saving>>

Acquire(c) ==
  /\ CallAt(c, "acquire") /\ ~pool.stopped
  /\ IF pool.live # NoEntry /\ entries[pool.live].identity = calls[c].row.identity
       THEN /\ calls' = [calls EXCEPT ![c].pc = "lock", ![c].entry = pool.live]
            /\ UNCHANGED <<pool, entries>>
       ELSE /\ pool.made < MaxEntries
            /\ pool' = [pool EXCEPT !.made = @ + 1, !.live = pool.made + 1]
            /\ entries' = [Dropped EXCEPT ![pool.made + 1] = FreshEntry(calls[c].row.identity)]
            /\ calls' = [calls EXCEPT ![c].pc = "lock", ![c].entry = pool.made + 1]
  /\ UNCHANGED <<settings, saving>>

AcquireRefused(c) ==
  /\ CallAt(c, "acquire") /\ pool.stopped /\ CallGoes(c, "done")
  /\ UNCHANGED <<settings, saving, pool, entries>>

LockEntry(c) ==
  LET e == calls[c].entry
  IN  /\ CallAt(c, "lock") /\ entries[e].holder = NoCaller
      /\ entries' = [entries EXCEPT ![e].holder = c]
      /\ CallGoes(c, IF entries[e].process = "none" THEN "launch" ELSE "send")
      /\ UNCHANGED <<settings, saving, pool>>

\* startStdio, with the handshake.
LaunchServer(c) ==
  LET e == calls[c].entry
  IN  /\ CallAt(c, "launch")
      /\ \/ entries' = [entries EXCEPT ![e].process = "running"] /\ CallGoes(c, "send")
         \/ entries' = [entries EXCEPT ![e].holder = NoCaller] /\ CallGoes(c, "forget")
      /\ UNCHANGED <<settings, saving, pool>>

\* It forgets what the table holds by now, which need not be its own entry.
Forget(c) ==
  /\ CallAt(c, "forget") /\ CallGoes(c, "done")
  /\ entries' = Dropped /\ pool' = [pool EXCEPT !.live = NoEntry]
  /\ UNCHANGED <<settings, saving>>

\* Only a catalogue listing is asked again, and once.
Retried(c) == calls[c].method = "list" /\ ~calls[c].retried

Sent(c) == [calls EXCEPT ![c].sent = @ + 1]

\* The server answers, or refuses: its process is kept.
CallAnswered(c) ==
  LET e == calls[c].entry
  IN  /\ CallAt(c, "send") /\ entries[e].process = "running"
      /\ calls' = [Sent(c) EXCEPT ![c].pc = "done"]
      /\ entries' = [entries EXCEPT ![e].holder = NoCaller]
      /\ UNCHANGED <<settings, saving, pool>>

\* The request is cancelled or times out while it is read: the process is stopped.
CallCancelled(c) ==
  LET e == calls[c].entry
  IN  /\ CallAt(c, "send")
      /\ calls' = [IF entries[e].process = "running" THEN Sent(c) ELSE calls EXCEPT ![c].pc = "done"]
      /\ entries' = [entries EXCEPT ![e].holder = NoCaller, ![e].process = "none"]
      /\ UNCHANGED <<settings, saving, pool>>

\* The pipe is broken before the request, or after it and before the answer.
CallBroken(c) ==
  LET e == calls[c].entry
      pc == IF Retried(c) THEN "acquire" ELSE "done"
  IN  /\ CallAt(c, "send")
      /\ calls' = [IF entries[e].process = "running" THEN Sent(c) ELSE calls
                     EXCEPT ![c].pc = pc, ![c].retried = TRUE]
      /\ entries' = [entries EXCEPT ![e].holder = NoCaller, ![e].process = "none"]
      /\ UNCHANGED <<settings, saving, pool>>

-----------------------------------------------------------------------------
\* A server ends by itself; the pool learns of it at the next request.
ServerExits(e) ==
  /\ entries[e].process = "running"
  /\ entries' = [entries EXCEPT ![e].process = "exited"]
  /\ UNCHANGED <<settings, saving, pool, calls>>

\* entry.close, as soon as nobody holds the entry.
CloseEntry(e) ==
  /\ entries[e].closing /\ entries[e].holder = NoCaller
  /\ entries' = [entries EXCEPT ![e].closing = FALSE, ![e].process = "none"]
  /\ UNCHANGED <<settings, saving, pool, calls>>

\* An entry that nobody holds is dropped when it is empty, or has been idle for long.
SweepIdle ==
  /\ ~pool.stopped /\ pool.live # NoEntry /\ entries[pool.live].holder = NoCaller
  /\ entries' = Dropped /\ pool' = [pool EXCEPT !.live = NoEntry]
  /\ UNCHANGED <<settings, saving, calls>>

\* A save changes the fingerprint, or only the timeout.
SaveSettings ==
  /\ settings.identity + settings.timeout < MaxSaves /\ ~saving
  /\ \E field \in {"identity", "timeout"} : settings' = [settings EXCEPT ![field] = @ + 1]
  /\ saving' = TRUE
  /\ UNCHANGED <<pool, entries, calls>>

CloseServer ==
  /\ saving /\ saving' = FALSE
  /\ entries' = Dropped /\ pool' = [pool EXCEPT !.live = NoEntry]
  /\ UNCHANGED <<settings, calls>>

ClosePool ==
  /\ ~pool.stopped
  /\ entries' = Dropped /\ pool' = [pool EXCEPT !.live = NoEntry, !.stopped = TRUE]
  /\ UNCHANGED <<settings, saving, calls>>

-----------------------------------------------------------------------------
FirstRow == [identity |-> 0, timeout |-> 0]
IdleCall == [pc |-> "idle", method |-> "list", row |-> FirstRow, entry |-> NoEntry, retried |-> FALSE, sent |-> 0]

PoolInit ==
  /\ settings = FirstRow /\ saving = FALSE
  /\ pool = [live |-> NoEntry, made |-> 0, stopped |-> FALSE]
  /\ entries = [e \in EntryIds |-> FreshEntry(0)]
  /\ calls = [c \in Callers |-> IdleCall]

PoolNext ==
  \/ \E c \in Callers :
       \/ StartCall(c) \/ Acquire(c) \/ AcquireRefused(c) \/ LockEntry(c) \/ LaunchServer(c)
       \/ Forget(c) \/ CallAnswered(c) \/ CallCancelled(c) \/ CallBroken(c)
  \/ \E e \in EntryIds : ServerExits(e) \/ CloseEntry(e)
  \/ SweepIdle \/ SaveSettings \/ CloseServer \/ ClosePool

PoolSpec == PoolInit /\ [][PoolNext]_poolVars

-----------------------------------------------------------------------------
(* Properties.                                                             *)

ServerRow == [identity : Nat, timeout : Nat]

\* Table, entries and calls have their shapes.
PoolTypeOK ==
  /\ settings \in ServerRow /\ saving \in BOOLEAN
  /\ pool \in [live : EntryIds \cup {NoEntry}, made : 0..MaxEntries, stopped : BOOLEAN]
  /\ entries \in [EntryIds -> [identity : Nat, process : {"none", "running", "exited"},
                               holder : Callers \cup {NoCaller}, closing : BOOLEAN]]
  /\ calls \in [Callers -> [pc : {"idle", "acquire", "lock", "launch", "forget", "send", "done"},
                            method : {"list", "tool"}, row : ServerRow, entry : EntryIds \cup {NoEntry},
                            retried : BOOLEAN, sent : Nat]]

\* Whoever talks to a process holds its entry, so that two callers never mix their
\* frames, and the process was started with the command and the token that the
\* caller's row has, whatever was saved in between (pool.go:52-59).  Of the timeout
\* this is not claimed: serverIdentity leaves it out, and until CloseServer a caller
\* with a new one uses the old process.  A tool call reaches a server at most once,
\* however often processes break, are swept or are replaced under it: "tools/call
\* is never replayed" (pool.go:188).
AnsweredOnceUnderOwnSettings ==
  /\ \A c \in Callers : calls[c].method = "tool" => calls[c].sent <= 1
  /\ \A c \in Callers : calls[c].pc \in {"launch", "send"} =>
       /\ entries[calls[c].entry].holder = c
       /\ entries[calls[c].entry].identity = calls[c].row.identity

\* Every process that runs is in the table, or held, or about to be closed: "a
\* server left running after Hermetrix exits is a process nobody owns"
\* (pool.go:128).
NoOrphanProcess ==
  \A e \in EntryIds : entries[e].process = "running" =>
    pool.live = e \/ entries[e].holder # NoCaller \/ entries[e].closing
=============================================================================
