--------------------------- MODULE StoreLifecycle ---------------------------
(***************************************************************************)
(* How anansi/store.py opens its database: ensure_db verifies the file,    *)
(* upgrades a version-4 one column by column, quarantines what is broken   *)
(* and creates it afresh.  Several host processes share the path; another  *)
(* connection may lock the file; the file may be damaged and a process may *)
(* die between any two steps.  A path is opened in one step and looked at   *)
(* in another, so that a rename may come between.  The statements of one    *)
(* inspection (quick_check, the tables, the version) are one step: what     *)
(* they look for is only ever gained, so the last stands for all of them,   *)
(* and damage after quick_check is later damage.                            *)
(***************************************************************************)
EXTENDS Integers, FiniteSets

CONSTANTS Processes,     \* host processes that load the plugin
          InitialKinds,  \* what the path may hold at first
          Locks,         \* whether another connection may lock the file
          Columns,       \* the columns the upgrade adds
          MaxFaults,     \* bound: corruptions, crashes and failing renames
          NoFile

ASSUME LifecycleAssumption ==
    /\ InitialKinds \subseteq {"absent", "empty", "v5", "v4", "partial", "broken"}
    /\ IsFiniteSet(Processes)
    /\ NoFile \notin Nat
    /\ Locks \in BOOLEAN
    /\ Columns \in Nat /\ MaxFaults \in Nat

\* One file is created by each process that finds the path empty; the bound
\* leaves room for one per fault and per process beside the first.
MaxFiles == MaxFaults + Cardinality(Processes) + 2
Files == 1..MaxFiles

VARIABLES path,      \* the file state.db names
          kind,      \* each file's structure
          columns,   \* how many of the upgrade's columns each file has
          archived,  \* files kept as state.db.quarantined-<timestamp>
          locked,    \* another connection holds the file's lock
          pc,        \* where each process is in ensure_db
          handle,    \* the file its connection is open on
          next,      \* the column its upgrade adds next
          answer,    \* what its last ensure_db returned
          faults

vars == <<path, kind, columns, archived, locked, pc, handle, next, answer, faults>>

Sound == {"v4", "v5"}

TypeOK ==
    /\ path \in Files \cup {NoFile}
    /\ kind \in [Files -> {"unborn", "empty", "partial", "v4", "v5", "broken"}]
    /\ columns \in [Files -> 0..Columns]
    /\ archived \subseteq Files
    /\ locked \in BOOLEAN
    /\ pc \in [Processes -> {"idle", "verify", "verifying", "upgrade", "upgrading",
                             "existing", "alter", "reverify", "reverifying",
                             "quarantine", "create", "creating", "fill"}]
    /\ handle \in [Processes -> Files \cup {NoFile}]
    /\ next \in [Processes -> 1..(Columns + 1)]
    /\ answer \in [Processes -> {"none", "true", "false"}]
    /\ faults \in 0..MaxFaults

Init ==
    /\ \E first \in InitialKinds :
          /\ path = IF first = "absent" THEN NoFile ELSE 1
          /\ kind = [f \in Files |-> IF f = 1 /\ first # "absent" THEN first ELSE "unborn"]
          /\ columns = [f \in Files |-> IF f = 1 /\ first = "v5" THEN Columns ELSE 0]
    /\ archived = {}
    /\ locked = FALSE
    /\ pc = [p \in Processes |-> "idle"]
    /\ handle = [p \in Processes |-> NoFile]
    /\ next = [p \in Processes |-> 1]
    /\ answer = [p \in Processes |-> "none"]
    /\ faults = 0

-----------------------------------------------------------------------------
Goto(p, label) == pc' = [pc EXCEPT ![p] = label]

\* Only the locals of a process change.
Stay == UNCHANGED <<path, kind, columns, archived, locked, faults>>

\* A function that is done closes its connection and forgets its locals.
Close(p, label) ==
    /\ Goto(p, label)
    /\ handle' = [handle EXCEPT ![p] = NoFile]
    /\ next' = [next EXCEPT ![p] = 1]
    /\ UNCHANGED answer

Return(p, value) ==
    /\ Goto(p, "idle")
    /\ answer' = [answer EXCEPT ![p] = value]
    /\ handle' = [handle EXCEPT ![p] = NoFile]
    /\ next' = [next EXCEPT ![p] = 1]

NewFile == CHOOSE f \in Files : kind[f] = "unborn"
FilesLeft == \E f \in Files : kind[f] = "unborn"

\* ensure_db: the path is looked up, then opened separately.
EnsureDb(p) ==
    /\ pc[p] = "idle"
    /\ Goto(p, IF path = NoFile THEN "create" ELSE "verify")
    /\ answer' = [answer EXCEPT ![p] = "none"]
    /\ UNCHANGED <<handle, next>> /\ Stay

\* What a process does with the connection it opens.
Opened == [verify |-> "verifying", upgrade |-> "upgrading",
           reverify |-> "reverifying", create |-> "creating"]

\* sqlite3.connect opens whatever file the path names by now; a path that has
\* been moved away becomes a new, empty file.
OpenPath(p) ==
    /\ pc[p] \in DOMAIN Opened
    /\ IF path # NoFile THEN UNCHANGED <<path, kind>>
       ELSE /\ FilesLeft    \* bound
            /\ path' = NewFile
            /\ kind' = [kind EXCEPT ![NewFile] = "empty"]
    /\ handle' = [handle EXCEPT ![p] = path']
    /\ Goto(p, Opened[pc[p]])
    /\ UNCHANGED <<columns, archived, locked, next, answer, faults>>

\* Mutant of VerifyStructure: the schema version is not compared.
VerifyAnyVersion(p) ==
    /\ pc[p] = "verifying"
    /\ IF kind[handle[p]] \in Sound /\ ~locked
         THEN Return(p, "true")
         ELSE Close(p, "upgrade")
    /\ Stay

\* _verify_structure: False for a broken or other-version file and for any
\* exception, a lock included.
VerifyStructure(p) ==
    /\ pc[p] = "verifying"
    /\ IF kind[handle[p]] = "v5" /\ ~locked
         THEN Return(p, "true")
         ELSE Close(p, "upgrade")
    /\ Stay

\* Mutant of TryUpgrade: no older version is recognised.
TryUpgradeNothing(p) ==
    /\ pc[p] = "upgrading"
    /\ IF locked THEN Return(p, "false") ELSE Close(p, "quarantine")
    /\ Stay

\* _try_upgrade_v4_to_v5, on a connection of its own: a lock answers None, and
\* anything but a version-4 file answers False.
TryUpgrade(p) ==
    /\ pc[p] = "upgrading"
    /\ \/ locked /\ Return(p, "false")
       \/ /\ ~locked /\ kind[handle[p]] = "v4"
          /\ Goto(p, "existing") /\ UNCHANGED <<handle, next, answer>>
       \/ ~locked /\ kind[handle[p]] # "v4" /\ Close(p, "quarantine")
    /\ Stay

\* The existing columns are read by a statement of their own; another process
\* may have added some, or finished, since the version was read.
ReadColumns(p) ==
    /\ pc[p] = "existing"
    /\ \/ locked /\ Return(p, "false")
       \/ /\ ~locked /\ kind[handle[p]] \in Sound
          /\ Goto(p, "alter")
          /\ next' = [next EXCEPT ![p] = columns[handle[p]] + 1]
          /\ UNCHANGED <<handle, answer>>
       \/ ~locked /\ kind[handle[p]] \notin Sound /\ Close(p, "quarantine")
    /\ Stay

\* Mutant of AlterTable: a column too many.
AlterTablePastEnd(p) ==
    /\ pc[p] = "alter"
    /\ ~locked
    /\ columns[handle[p]] < next[p]
    /\ columns' = [columns EXCEPT ![handle[p]] = next[p]]
    /\ next' = [next EXCEPT ![p] = @ + 1]
    /\ UNCHANGED <<path, kind, archived, locked, pc, handle, answer, faults>>

\* One ALTER TABLE, committed by itself: DDL opens no transaction here.
AlterTable(p) ==
    /\ pc[p] = "alter"
    /\ next[p] <= Columns
    /\ ~locked
    /\ columns[handle[p]] < next[p]
    /\ columns' = [columns EXCEPT ![handle[p]] = next[p]]
    /\ next' = [next EXCEPT ![p] = @ + 1]
    /\ UNCHANGED <<path, kind, archived, locked, pc, handle, answer, faults>>

\* "duplicate column name" is an OperationalError that is no lock: False.
AlterDuplicate(p) ==
    /\ pc[p] = "alter"
    /\ next[p] <= Columns
    /\ ~locked
    /\ columns[handle[p]] >= next[p]
    /\ Close(p, "quarantine") /\ Stay

\* "database is locked": None, with the columns added so far left in place.
AlterLocked(p) ==
    /\ pc[p] = "alter"
    /\ locked
    /\ Return(p, "false") /\ Stay

\* A structure damaged under the open connection: False.
AlterBroken(p) ==
    /\ pc[p] = "alter"
    /\ kind[handle[p]] = "broken"
    /\ Close(p, "quarantine") /\ Stay

\* Mutant of SetVersion: the version is raised before the columns are there.
SetVersionFirst(p) ==
    /\ pc[p] = "alter"
    /\ ~locked
    /\ kind[handle[p]] \in Sound
    /\ kind' = [kind EXCEPT ![handle[p]] = "v5"]
    /\ Close(p, "reverify")
    /\ UNCHANGED <<path, columns, archived, locked, faults>>

SetVersion(p) ==
    /\ pc[p] = "alter"
    /\ next[p] > Columns
    /\ ~locked
    /\ kind[handle[p]] \in Sound
    /\ kind' = [kind EXCEPT ![handle[p]] = "v5"]
    /\ Close(p, "reverify")
    /\ UNCHANGED <<path, columns, archived, locked, faults>>

\* The upgrade ends with a second _verify_structure.
Reverify(p) ==
    /\ pc[p] = "reverifying"
    /\ IF kind[handle[p]] = "v5" /\ ~locked
         THEN Return(p, "true")
         ELSE Close(p, "quarantine")
    /\ Stay

\* Mutant of Quarantine: the broken file is copied and left where it is.
QuarantineCopies(p) ==
    /\ pc[p] = "quarantine"
    /\ archived' = archived \cup ({path} \ {NoFile})
    /\ Goto(p, "create")
    /\ UNCHANGED <<path, kind, columns, locked, handle, next, answer, faults>>

\* _quarantine: the rename acts on whatever file the path names by now.
Quarantine(p) ==
    /\ pc[p] = "quarantine"
    /\ archived' = archived \cup ({path} \ {NoFile})
    /\ path' = NoFile
    /\ Goto(p, "create")
    /\ UNCHANGED <<kind, columns, locked, handle, next, answer, faults>>

\* The rename fails and os.remove takes its place, or fails too.
QuarantineFails(p) ==
    /\ pc[p] = "quarantine"
    /\ faults < MaxFaults
    /\ faults' = faults + 1
    /\ path' \in {NoFile, path}
    /\ Goto(p, "create")
    /\ UNCHANGED <<kind, columns, archived, locked, handle, next, answer>>

\* _create_fresh: the first table is created, unless the file is locked or has
\* tables, or is broken, by now; whatever the file is then, it stays.
CreateFresh(p) ==
    /\ pc[p] = "creating"
    /\ IF kind[handle[p]] = "empty" /\ ~locked
         THEN /\ kind' = [kind EXCEPT ![handle[p]] = "partial"]
              /\ Goto(p, "fill")
              /\ UNCHANGED <<handle, next, answer>>
         ELSE Return(p, "false") /\ UNCHANGED kind
    /\ UNCHANGED <<path, columns, archived, locked, faults>>

\* The remaining tables and the schema version, each committed by itself; a lock
\* that outlasts the busy timeout leaves the schema half created.
FillSchema(p) ==
    /\ pc[p] = "fill"
    /\ IF kind[handle[p]] = "partial" /\ ~locked
         THEN /\ kind' = [kind EXCEPT ![handle[p]] = "v5"]
              /\ columns' = [columns EXCEPT ![handle[p]] = Columns]
              /\ Return(p, "true")
         ELSE Return(p, "false") /\ UNCHANGED <<kind, columns>>
    /\ UNCHANGED <<path, archived, locked, faults>>

Step(p) ==
    \/ OpenPath(p) \/ VerifyStructure(p) \/ TryUpgrade(p) \/ ReadColumns(p)
    \/ AlterTable(p) \/ AlterDuplicate(p) \/ AlterLocked(p) \/ AlterBroken(p)
    \/ SetVersion(p) \/ Reverify(p) \/ Quarantine(p)
    \/ CreateFresh(p) \/ FillSchema(p)

-----------------------------------------------------------------------------
\* Another connection takes or drops the lock.
Lock ==
    /\ Locks
    /\ locked' = ~locked
    /\ UNCHANGED <<path, kind, columns, archived, pc, handle, next, answer, faults>>

Corrupt ==
    /\ path # NoFile /\ kind[path] # "broken"
    /\ faults < MaxFaults
    /\ faults' = faults + 1
    /\ kind' = [kind EXCEPT ![path] = "broken"]
    /\ UNCHANGED <<path, columns, archived, locked, pc, handle, next, answer>>

\* The process dies inside ensure_db; it enters it again when it is restarted.
Crash(p) ==
    /\ pc[p] # "idle"
    /\ faults < MaxFaults
    /\ faults' = faults + 1
    /\ Goto(p, "idle")
    /\ handle' = [handle EXCEPT ![p] = NoFile]
    /\ next' = [next EXCEPT ![p] = 1]
    /\ UNCHANGED <<path, kind, columns, archived, locked, answer>>

Next ==
    \/ \E p \in Processes : EnsureDb(p) \/ Step(p) \/ QuarantineFails(p) \/ Crash(p)
    \/ Lock
    \/ Corrupt

Spec == Init /\ [][Next]_vars

\* Every session start enters ensure_db again, and a started one runs on.
FairSpec ==
    /\ Spec
    /\ \A p \in Processes : WF_vars(EnsureDb(p)) /\ WF_vars(Step(p))

-----------------------------------------------------------------------------
\* A sound file is upgraded in place or left alone, never moved away or removed:
\* "a sound v4 database upgrades additively" and "a lock is never structural
\* corruption and must not quarantine state" (ensure_db, _try_upgrade_v4_to_v5).
SoundNeverQuarantined ==
    [][\A f \in Files : path = f /\ kind[f] \in Sound => path' = f]_vars

\* ensure_db answers True only when the path names a complete version-5 file,
\* its goals table with every upgraded column included.
EnsuredMeansSound ==
    [][\A p \in Processes : answer[p] # "true" /\ answer'[p] = "true"
          => path' # NoFile /\ kind'[path'] = "v5" /\ columns'[path'] = Columns]_vars

\* A file says version 5 only when its goals table has every upgraded column,
\* whoever shares the path, locks it or dies half-way: _verify_structure looks at
\* the version and never at the columns, so a file that claimed it early would
\* stay short of them for good.
VersionTellsColumns == \A f \in Files : kind[f] = "v5" => columns[f] = Columns

\* However the file is damaged and wherever a process dies, ensure_db ends with
\* a sound file at the path for good: neither a half-created file nor a
\* half-upgraded one stays in the way.
RecoversForGood == <>[](path # NoFile /\ kind[path] = "v5")
=============================================================================
