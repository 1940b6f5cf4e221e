------------------------ MODULE StoreLifecycleProofs ------------------------
(***************************************************************************)
(* For every number of processes, crashes and locks, a file says version 5 *)
(* only when its goals table has every column.  For one process without    *)
(* locks, sound files stay at the path and True means a complete file.     *)
(***************************************************************************)
EXTENDS StoreLifecycle, FiniteSetTheorems, TLAPS

-----------------------------------------------------------------------------
\* The upgrade has added every column before the one it adds next.
UpgradeInOrder ==
    \A p \in Processes :
        pc[p] = "alter" => handle[p] \in Files /\ columns[handle[p]] >= next[p] - 1

\* A process that looks at a file or writes to one has it open.
WorksOnFile ==
    \A p \in Processes :
        pc[p] \in {"verifying", "upgrading", "existing", "reverifying", "creating", "fill"}
            => handle[p] \in Files

IInv == TypeOK /\ UpgradeInOrder /\ WorksOnFile /\ VersionTellsColumns

\* The bound on files is a positive number, so the first file is one of them.
LEMMA FilesType == Files = 1..MaxFiles /\ MaxFiles \in Nat /\ 1 \in Files /\ NoFile \notin Files
<1>1. Cardinality(Processes) \in Nat
  BY FS_CardinalityType, LifecycleAssumption
<1>2. MaxFiles \in Nat /\ MaxFiles >= 1
  BY <1>1, LifecycleAssumption DEF MaxFiles
<1>3. QED
  BY <1>2, LifecycleAssumption DEF Files

\* A file that is created is one of the files.
LEMMA NewFileType == FilesLeft => NewFile \in Files /\ kind[NewFile] = "unborn"
  BY DEF FilesLeft, NewFile

\* The inductive invariant holds initially.
LEMMA IInvInit == Init => IInv
<1> SUFFICES ASSUME Init PROVE IInv
  OBVIOUS
<1> USE FilesType, LifecycleAssumption
<1> HIDE DEF Files
<1>1. PICK first \in InitialKinds :
        /\ path = IF first = "absent" THEN NoFile ELSE 1
        /\ kind = [f \in Files |-> IF f = 1 /\ first # "absent" THEN first ELSE "unborn"]
        /\ columns = [f \in Files |-> IF f = 1 /\ first = "v5" THEN Columns ELSE 0]
  BY DEF Init
<1>2. path \in Files \cup {NoFile}
      /\ kind \in [Files -> {"unborn", "empty", "partial", "v4", "v5", "broken"}]
      /\ columns \in [Files -> 0..Columns]
  BY <1>1
<1>3. TypeOK
  <2>1. faults \in 0..MaxFaults /\ next \in [Processes -> 1..(Columns + 1)]
    BY DEF Init
  <2>2. /\ pc = [p \in Processes |-> "idle"]
        /\ handle = [p \in Processes |-> NoFile]
        /\ answer = [p \in Processes |-> "none"]
        /\ archived = {} /\ locked = FALSE
    BY DEF Init
  <2>3. QED
    BY <1>2, <2>1, <2>2 DEF TypeOK
<1>4. ASSUME NEW f \in Files, kind[f] = "v5" PROVE columns[f] = Columns
  <2>1. f = 1 /\ first = "v5"
    BY <1>1, <1>4
  <2>2. QED
    BY <1>1, <2>1
<1>5. QED
  BY <1>3, <1>4 DEF Init, IInv, UpgradeInOrder, WorksOnFile, VersionTellsColumns

\* A process that returns or closes its connection disturbs nothing.
LEMMA Leaving ==
    ASSUME IInv, NEW p \in Processes, UNCHANGED <<path, kind, columns, locked>>,
           archived' \subseteq Files, faults' \in 0..MaxFaults,
           (\E value \in {"true", "false"} : Return(p, value))
             \/ (\E label \in {"upgrade", "quarantine", "reverify"} : Close(p, label))
    PROVE  IInv'
<1> USE FilesType, LifecycleAssumption
<1> HIDE DEF Files
<1>1. PICK label \in {"idle", "upgrade", "quarantine", "reverify"} :
        pc' = [pc EXCEPT ![p] = label]
  BY DEF Return, Close, Goto
<1>2. handle' = [handle EXCEPT ![p] = NoFile] /\ next' = [next EXCEPT ![p] = 1]
  BY DEF Return, Close
<1>3. answer' = answer \/ \E value \in {"true", "false"} : answer' = [answer EXCEPT ![p] = value]
  BY DEF Return, Close
<1>4. TypeOK'
  <2>1. answer' \in [Processes -> {"none", "true", "false"}]
    BY <1>3 DEF IInv, TypeOK
  <2>2. next' \in [Processes -> 1..(Columns + 1)]
    BY <1>2 DEF IInv, TypeOK
  <2>3. pc' \in [Processes -> {"idle", "verify", "verifying", "upgrade", "upgrading",
                               "existing", "alter", "reverify", "reverifying",
                               "quarantine", "create", "creating", "fill"}]
    BY <1>1 DEF IInv, TypeOK
  <2>4. handle' \in [Processes -> Files \cup {NoFile}]
    BY <1>2 DEF IInv, TypeOK
  <2>5. QED
    BY <2>1, <2>2, <2>3, <2>4 DEF IInv, TypeOK
<1>5. \A q \in Processes : q # p =>
         pc'[q] = pc[q] /\ handle'[q] = handle[q] /\ next'[q] = next[q]
  BY <1>1, <1>2 DEF IInv, TypeOK
<1>6. pc'[p] \in {"idle", "upgrade", "quarantine", "reverify"}
  BY <1>1 DEF IInv, TypeOK
<1>7. UpgradeInOrder' /\ WorksOnFile'
  BY <1>5, <1>6 DEF IInv, UpgradeInOrder, WorksOnFile
<1>8. QED
  BY <1>4, <1>7 DEF IInv, VersionTellsColumns

\* Steps that check, move away or leave alone, and a crash.
LEMMA QuietStep ==
    ASSUME IInv, NEW p \in Processes,
           EnsureDb(p) \/ VerifyStructure(p) \/ TryUpgrade(p) \/ AlterDuplicate(p)
             \/ AlterLocked(p) \/ AlterBroken(p) \/ Reverify(p) \/ Quarantine(p)
             \/ QuarantineFails(p) \/ Crash(p)
    PROVE  IInv'
<1> USE FilesType, LifecycleAssumption
    DEF IInv, TypeOK, UpgradeInOrder, WorksOnFile, VersionTellsColumns, Goto
<1> HIDE DEF Files
<1>1. CASE EnsureDb(p)
  BY <1>1 DEF EnsureDb, Stay
<1>2. CASE VerifyStructure(p) \/ Reverify(p)
  BY <1>2, Leaving DEF VerifyStructure, Reverify, Stay
<1>3. CASE TryUpgrade(p)
  <2>1. CASE locked \/ kind[handle[p]] # "v4"
    BY <1>3, <2>1, Leaving DEF TryUpgrade, Stay
  <2>2. CASE ~locked /\ kind[handle[p]] = "v4"
    BY <1>3, <2>2 DEF TryUpgrade, Stay
  <2>3. QED
    BY <2>1, <2>2
<1>4. CASE AlterDuplicate(p) \/ AlterLocked(p) \/ AlterBroken(p)
  BY <1>4, Leaving DEF AlterDuplicate, AlterLocked, AlterBroken, Stay
<1>5. CASE Quarantine(p)
  BY <1>5 DEF Quarantine
<1>6. CASE QuarantineFails(p)
  BY <1>6 DEF QuarantineFails
<1>7. CASE Crash(p)
  BY <1>7 DEF Crash
<1>8. QED
  BY <1>1, <1>2, <1>3, <1>4, <1>5, <1>6, <1>7

\* The upgrade's own steps.
LEMMA UpgradeStep ==
    ASSUME IInv, NEW p \in Processes, ReadColumns(p) \/ AlterTable(p) \/ SetVersion(p)
    PROVE  IInv'
<1> USE FilesType, LifecycleAssumption
    DEF IInv, TypeOK, UpgradeInOrder, WorksOnFile, VersionTellsColumns, Stay, Goto, Return, Close
<1> HIDE DEF Files
<1>1. CASE ReadColumns(p)
  <2>1. CASE locked \/ kind[handle[p]] \notin Sound
    BY <1>1, <2>1, Leaving DEF ReadColumns
  <2>2. CASE ~locked /\ kind[handle[p]] \in Sound
    <3>1. handle[p] \in Files /\ columns[handle[p]] + 1 \in 1..(Columns + 1)
      BY <1>1, <2>2 DEF ReadColumns
    <3>2. /\ pc' = [pc EXCEPT ![p] = "alter"]
          /\ next' = [next EXCEPT ![p] = columns[handle[p]] + 1]
          /\ UNCHANGED <<path, kind, columns, archived, locked, faults, handle, answer>>
      BY <1>1, <2>2 DEF ReadColumns
    <3>3. TypeOK'
      BY <3>1, <3>2
    <3>4. UpgradeInOrder' /\ WorksOnFile'
      BY <3>1, <3>2
    <3>5. QED
      BY <3>2, <3>3, <3>4
  <2>3. QED
    BY <2>1, <2>2
<1>2. CASE AlterTable(p)
  <2>1. handle[p] \in Files /\ next[p] \in 1..Columns /\ columns[handle[p]] < next[p]
    BY <1>2 DEF AlterTable
  <2>2. /\ columns' = [columns EXCEPT ![handle[p]] = next[p]]
        /\ next' = [next EXCEPT ![p] = next[p] + 1]
        /\ UNCHANGED <<path, kind, archived, locked, pc, handle, answer, faults>>
    BY <1>2 DEF AlterTable
  <2>3. next' \in [Processes -> 1..(Columns + 1)] /\ columns' \in [Files -> 0..Columns]
    BY <2>1, <2>2
  <2>4. \A f \in Files : columns'[f] >= columns[f]
    BY <2>1, <2>2
  <2>5. kind[handle[p]] # "v5"
    BY <2>1
  <2>6. VersionTellsColumns'
    BY <2>1, <2>2, <2>5
  <2>7. UpgradeInOrder'
    BY <2>1, <2>2, <2>3, <2>4
  <2>8. QED
    BY <2>2, <2>3, <2>6, <2>7
<1>3. CASE SetVersion(p)
  BY <1>3 DEF SetVersion
<1>4. QED
  BY <1>1, <1>2, <1>3

\* Steps that create a file or fill one in.
LEMMA CreateStep ==
    ASSUME IInv, NEW p \in Processes, OpenPath(p) \/ CreateFresh(p) \/ FillSchema(p)
    PROVE  IInv'
<1> USE FilesType, LifecycleAssumption, NewFileType
    DEF IInv, TypeOK, UpgradeInOrder, WorksOnFile, VersionTellsColumns, Stay, Goto, Return, Close
<1> HIDE DEF Files, NewFile, FilesLeft
<1>1. CASE OpenPath(p)
  <2>1. /\ path' \in Files /\ handle' = [handle EXCEPT ![p] = path']
        /\ pc' = [pc EXCEPT ![p] = Opened[pc[p]]]
        /\ Opened[pc[p]] \in {"verifying", "upgrading", "reverifying", "creating"}
        /\ UNCHANGED <<columns, archived, locked, next, answer, faults>>
    BY <1>1 DEF OpenPath, Opened
  <2>2. kind' = kind \/ \E f \in Files : kind' = [kind EXCEPT ![f] = "empty"]
    BY <1>1 DEF OpenPath
  <2>3. TypeOK' /\ VersionTellsColumns'
    BY <2>1, <2>2
  <2>4. UpgradeInOrder' /\ WorksOnFile'
    BY <2>1
  <2>5. QED
    BY <2>3, <2>4
<1>2. CASE CreateFresh(p)
  <2>1. CASE kind[handle[p]] # "empty" \/ locked
    BY <1>2, <2>1, Leaving DEF CreateFresh
  <2>2. CASE kind[handle[p]] = "empty" /\ ~locked
    BY <1>2, <2>2 DEF CreateFresh
  <2>3. QED
    BY <2>1, <2>2
<1>3. CASE FillSchema(p)
  <2>1. CASE kind[handle[p]] # "partial" \/ locked
    BY <1>3, <2>1, Leaving DEF FillSchema
  <2>2. CASE kind[handle[p]] = "partial" /\ ~locked
    <3>1. /\ handle[p] \in Files /\ Columns \in 0..Columns
          /\ kind' = [kind EXCEPT ![handle[p]] = "v5"]
          /\ columns' = [columns EXCEPT ![handle[p]] = Columns]
          /\ pc' = [pc EXCEPT ![p] = "idle"]
          /\ answer' = [answer EXCEPT ![p] = "true"]
          /\ handle' = [handle EXCEPT ![p] = NoFile]
          /\ next' = [next EXCEPT ![p] = 1]
          /\ UNCHANGED <<path, archived, locked, faults>>
      BY <1>3, <2>2 DEF FillSchema
    <3>2. TypeOK'
      BY <3>1
    <3>3. \A f \in Files : columns'[f] >= columns[f]
      BY <3>1
    <3>4. UpgradeInOrder' /\ WorksOnFile' /\ VersionTellsColumns'
      BY <3>1, <3>2, <3>3
    <3>5. QED
      BY <3>2, <3>4
  <2>3. QED
    BY <2>1, <2>2
<1>4. QED
  BY <1>1, <1>2, <1>3

\* Every step preserves the inductive invariant.
LEMMA IInvStep == IInv /\ [Next]_vars => IInv'
<1> SUFFICES ASSUME IInv, [Next]_vars PROVE IInv'
  OBVIOUS
<1>1. CASE Lock
  BY <1>1 DEF Lock, IInv, TypeOK, UpgradeInOrder, WorksOnFile, VersionTellsColumns
<1>2. CASE Corrupt
  BY <1>2, LifecycleAssumption
     DEF Corrupt, IInv, TypeOK, UpgradeInOrder, WorksOnFile, VersionTellsColumns
<1>3. CASE UNCHANGED vars
  BY <1>3 DEF vars, IInv, TypeOK, UpgradeInOrder, WorksOnFile, VersionTellsColumns
<1>4. QED
  BY <1>1, <1>2, <1>3, QuietStep, UpgradeStep, CreateStep DEF Next, Step

\* Every variable keeps its type: whatever a process has open or adds next is a file
\* and a column that exist, through every crash and rename.
THEOREM TypeCorrect == Spec => []TypeOK
<1>1. IInv => TypeOK
  BY DEF IInv
<1>2. QED
  BY <1>1, IInvInit, IInvStep, PTL DEF Spec

\* No file is ever taken for version 5 with a column missing, whoever upgrades it
\* at the same time, dies half-way or meets a lock.
THEOREM VersionIsTrue == Spec => []VersionTellsColumns
<1>1. IInv => VersionTellsColumns
  BY DEF IInv
<1>2. QED
  BY <1>1, IInvInit, IInvStep, PTL DEF Spec

-----------------------------------------------------------------------------
\* One host process, whose database nobody else opens.
Alone == ~Locks /\ \A p, q \in Processes : p = q

\* What the process found at the path is still what the path holds, or damage has
\* broken it since: it upgrades only a version-4 file, adds columns to the file at
\* the path in order, and moves away only a file that is not sound.
FindingHolds ==
    /\ ~locked
    /\ \A p \in Processes :
        /\ pc[p] \in {"verifying", "upgrading", "existing", "alter", "reverifying",
                      "creating", "fill"} => path # NoFile /\ handle[p] = path
        /\ pc[p] \in {"upgrade", "upgrading"} => path = NoFile \/ kind[path] # "v5"
        /\ pc[p] \in {"existing", "alter"} => kind[path] \in {"v4", "broken"}
        /\ pc[p] = "alter" => columns[path] = next[p] - 1
        /\ pc[p] \in {"reverify", "reverifying"} =>
              path # NoFile /\ kind[path] \in {"v5", "broken"}
        /\ pc[p] = "quarantine" => path = NoFile \/ kind[path] \notin Sound
        /\ pc[p] = "fill" => kind[path] \in {"partial", "broken"}

\* What a step of ensure_db may do to the path and to the answer.
MovesOnlyUnsound == \A f \in Files : path = f /\ kind[f] \in Sound => path' = f

AnswersTruly ==
    \A p \in Processes : answer[p] # "true" /\ answer'[p] = "true"
        => path' # NoFile /\ kind'[path'] = "v5" /\ columns'[path'] = Columns

StepIsGood == FindingHolds' /\ MovesOnlyUnsound /\ AnswersTruly

\* The steps that look at the file that was opened and decide.
LEMMA AloneDecides ==
    ASSUME Alone, IInv, FindingHolds, NEW p \in Processes,
           EnsureDb(p) \/ VerifyStructure(p) \/ TryUpgrade(p) \/ ReadColumns(p) \/ Reverify(p)
    PROVE  StepIsGood
<1> USE FilesType, LifecycleAssumption
    DEF Alone, IInv, TypeOK, FindingHolds, VersionTellsColumns, Stay, Goto, Return, Close, Sound,
        StepIsGood, MovesOnlyUnsound, AnswersTruly
<1> HIDE DEF Files
<1>1. CASE EnsureDb(p)
  BY <1>1 DEF EnsureDb
<1>2. CASE VerifyStructure(p)
  BY <1>2 DEF VerifyStructure
<1>3. CASE TryUpgrade(p)
  BY <1>3 DEF TryUpgrade
<1>4. CASE ReadColumns(p)
  <2>1. path \in Files /\ handle[p] = path /\ columns[path] \in 0..Columns
    BY <1>4 DEF ReadColumns
  <2>2. CASE kind[path] = "v4"
    <3>1. /\ pc' = [pc EXCEPT ![p] = "alter"]
          /\ next' = [next EXCEPT ![p] = columns[path] + 1]
          /\ UNCHANGED <<path, kind, columns, handle, answer, locked>>
      BY <1>4, <2>1, <2>2 DEF ReadColumns
    <3>2. FindingHolds'
      BY <2>1, <2>2, <3>1
    <3>3. QED
      BY <2>1, <3>1, <3>2
  <2>3. CASE kind[path] # "v4"
    BY <1>4, <2>1, <2>3 DEF ReadColumns
  <2>4. QED
    BY <2>2, <2>3
<1>5. CASE Reverify(p)
  BY <1>5 DEF Reverify
<1>6. QED
  BY <1>1, <1>2, <1>3, <1>4, <1>5

\* The upgrade's statements: alone, the process never meets a column it did not add.
LEMMA AloneUpgrades ==
    ASSUME Alone, IInv, FindingHolds, NEW p \in Processes,
           AlterTable(p) \/ AlterDuplicate(p) \/ AlterLocked(p) \/ AlterBroken(p)
             \/ SetVersion(p)
    PROVE  StepIsGood
<1> USE FilesType, LifecycleAssumption
    DEF Alone, IInv, TypeOK, FindingHolds, VersionTellsColumns, Stay, Goto, Return, Close, Sound,
        StepIsGood, MovesOnlyUnsound, AnswersTruly
<1> HIDE DEF Files
<1>1. pc[p] = "alter" /\ path \in Files /\ handle[p] = path
  BY DEF AlterTable, AlterDuplicate, AlterLocked, AlterBroken, SetVersion
<1>2. next[p] \in Int /\ columns[path] \in Int /\ columns[path] = next[p] - 1
  BY <1>1
<1>3. ~AlterDuplicate(p) /\ ~AlterLocked(p)
  BY <1>1, <1>2 DEF AlterDuplicate, AlterLocked
<1>4. CASE AlterTable(p)
  BY <1>1, <1>2, <1>4 DEF AlterTable
<1>5. CASE AlterBroken(p)
  BY <1>1, <1>5 DEF AlterBroken
<1>6. CASE SetVersion(p)
  BY <1>1, <1>6 DEF SetVersion
<1>7. QED
  BY <1>3, <1>4, <1>5, <1>6

\* The steps that move a file away or create one.
LEMMA AloneReplaces ==
    ASSUME Alone, IInv, FindingHolds, NEW p \in Processes,
           OpenPath(p) \/ Quarantine(p) \/ QuarantineFails(p) \/ CreateFresh(p)
             \/ FillSchema(p)
    PROVE  StepIsGood
<1> USE FilesType, LifecycleAssumption, NewFileType
    DEF Alone, IInv, TypeOK, FindingHolds, VersionTellsColumns, Stay, Goto, Return, Close, Sound,
        StepIsGood, MovesOnlyUnsound, AnswersTruly
<1> HIDE DEF Files, NewFile, FilesLeft
<1>1. CASE OpenPath(p)
  <2>1. /\ path' # NoFile /\ path' \in Files
        /\ handle' = [handle EXCEPT ![p] = path']
        /\ pc' = [pc EXCEPT ![p] = Opened[pc[p]]]
        /\ UNCHANGED <<columns, locked, next, answer>>
    BY <1>1 DEF OpenPath
  <2>2. \/ path # NoFile /\ path' = path /\ kind' = kind
        \/ path = NoFile /\ kind' = [kind EXCEPT ![path'] = "empty"]
    BY <1>1 DEF OpenPath
  <2>3. pc[p] \in {"verify", "upgrade", "reverify", "create"}
    BY <1>1 DEF OpenPath, Opened
  <2>4. CASE pc[p] = "reverify" /\ path = NoFile
    BY <2>4
  <2>5. CASE pc[p] # "reverify" \/ path # NoFile
    BY <2>1, <2>2, <2>3, <2>5 DEF Opened
  <2>6. QED
    BY <2>4, <2>5
<1>2. CASE Quarantine(p)
  BY <1>2 DEF Quarantine
<1>3. CASE QuarantineFails(p)
  BY <1>3 DEF QuarantineFails
<1>4. CASE CreateFresh(p)
  BY <1>4 DEF CreateFresh
<1>5. CASE FillSchema(p)
  BY <1>5 DEF FillSchema
<1>6. QED
  BY <1>1, <1>2, <1>3, <1>4, <1>5

\* Damage and crashes: a broken file is not sound, a dead process has found nothing.
LEMMA AloneSuffers ==
    ASSUME Alone, IInv, FindingHolds,
           Lock \/ Corrupt \/ (\E p \in Processes : Crash(p)) \/ UNCHANGED vars
    PROVE  StepIsGood
<1> USE FilesType, LifecycleAssumption
    DEF Alone, IInv, TypeOK, FindingHolds, Goto, Sound, StepIsGood, MovesOnlyUnsound,
        AnswersTruly
<1> HIDE DEF Files
<1>1. CASE Lock
  BY <1>1 DEF Lock
<1>2. CASE Corrupt
  BY <1>2 DEF Corrupt
<1>3. ASSUME NEW p \in Processes, Crash(p) PROVE StepIsGood
  BY <1>3 DEF Crash
<1>4. CASE UNCHANGED vars
  BY <1>4 DEF vars
<1>5. QED
  BY <1>1, <1>2, <1>3, <1>4

\* Every step of a process that is alone is a good one.
LEMMA AloneStep == Alone /\ IInv /\ FindingHolds /\ [Next]_vars => StepIsGood
  BY AloneDecides, AloneUpgrades, AloneReplaces, AloneSuffers DEF Next, Step

\* Alone with its database, the process always acts on what the path still holds.
LEMMA AloneInductive ==
    ASSUME Alone
    PROVE  Spec => [](IInv /\ FindingHolds)
<1>1. Init => FindingHolds
  BY DEF Init, FindingHolds
<1>2. IInv /\ FindingHolds /\ [Next]_vars => FindingHolds'
  BY AloneStep DEF StepIsGood
<1>3. QED
  BY <1>1, <1>2, IInvInit, IInvStep, PTL DEF Spec

\* A host that is alone with its database never moves a sound file away or removes
\* it, whatever is damaged, whichever rename fails and wherever it dies.
THEOREM SoundIsKept ==
    ASSUME Alone
    PROVE  Spec => SoundNeverQuarantined
<1>1. IInv /\ FindingHolds /\ [Next]_vars
        => [\A f \in Files : path = f /\ kind[f] \in Sound => path' = f]_vars
  BY AloneStep DEF StepIsGood, MovesOnlyUnsound
<1>2. QED
  BY <1>1, AloneInductive, PTL DEF Spec, SoundNeverQuarantined

\* Under the same conditions ensure_db's True is the truth: the path names a
\* version-5 file with every upgraded column.
THEOREM TrueIsTrue ==
    ASSUME Alone
    PROVE  Spec => EnsuredMeansSound
<1>1. IInv /\ FindingHolds /\ [Next]_vars
        => [\A p \in Processes : answer[p] # "true" /\ answer'[p] = "true"
              => path' # NoFile /\ kind'[path'] = "v5" /\ columns'[path'] = Columns]_vars
  BY AloneStep DEF StepIsGood, AnswersTruly
<1>2. QED
  BY <1>1, AloneInductive, PTL DEF Spec, EnsuredMeansSound

-----------------------------------------------------------------------------
\* A True that comes from a verification, not from a creation, is about the file the
\* process has open: that file is version 5 with every column.  The path may name
\* another file by then.
VerifiedMeansSound ==
    [][\A p \in Processes : pc[p] # "fill" /\ answer[p] # "true" /\ answer'[p] = "true"
          => handle[p] \in Files /\ kind'[handle[p]] = "v5"
                /\ columns'[handle[p]] = Columns]_vars

\* A process that finds or upgrades a file is told the truth about the file it opened,
\* whoever shares the path, renames it meanwhile or locks it.
THEOREM VerifiedIsTrue == Spec => VerifiedMeansSound
<1>1. IInv /\ [Next]_vars =>
        [\A p \in Processes : pc[p] # "fill" /\ answer[p] # "true" /\ answer'[p] = "true"
            => handle[p] \in Files /\ kind'[handle[p]] = "v5"
                  /\ columns'[handle[p]] = Columns]_vars
  <2> SUFFICES ASSUME IInv, Next, NEW p \in Processes,
                      pc[p] # "fill", answer[p] # "true", answer'[p] = "true"
               PROVE  handle[p] \in Files /\ kind'[handle[p]] = "v5"
                        /\ columns'[handle[p]] = Columns
    OBVIOUS
  <2>1. answer \in [Processes -> {"none", "true", "false"}]
    BY DEF IInv, TypeOK
  <2>2. VerifyStructure(p) \/ Reverify(p)
    BY <2>1 DEF Next, Step, EnsureDb, OpenPath, VerifyStructure, TryUpgrade, ReadColumns,
                AlterTable, AlterDuplicate, AlterLocked, AlterBroken, SetVersion, Reverify,
                Quarantine, QuarantineFails, CreateFresh, FillSchema, Lock, Corrupt, Crash,
                Return, Close, Goto, Stay
  <2>3. handle[p] \in Files /\ kind[handle[p]] = "v5" /\ UNCHANGED <<kind, columns>>
    BY <2>1, <2>2 DEF VerifyStructure, Reverify, Return, Close, Stay, IInv, WorksOnFile
  <2>4. QED
    BY <2>3 DEF IInv, VersionTellsColumns
<1>2. QED
  BY <1>1, IInvInit, IInvStep, PTL DEF Spec, VerifiedMeansSound
=============================================================================
