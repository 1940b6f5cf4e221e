-------------------------- MODULE ReflectionProofs --------------------------
(***************************************************************************)
(* Reflection for every number of passes, every cap and limit.  Types and  *)
(* no turn skipped hold whatever overlaps and fails; no turn twice, no     *)
(* delta lost, bounded steps and the refinement of Consolidation hold when *)
(* passes come one at a time, captures at any time, and the store can be   *)
(* read.                                                                   *)
(***************************************************************************)
EXTENDS Reflection, TLAPS

-----------------------------------------------------------------------------
\* A clamped value lies in its range.
LEMMA ClampRange ==
    ASSUME NEW value \in Int, NEW low \in Int, NEW high \in Int, low <= high
    PROVE  Clamp(value, low, high) \in low..high
  BY DEF Clamp

\* What the model asks for is bounded by MAX_DELTA.
LEMMA CoerceRange == \A raw \in RawDeltas : CoerceDelta(raw) \in (-MaxDelta)..MaxDelta
<1> SUFFICES ASSUME NEW raw \in RawDeltas PROVE CoerceDelta(raw) \in (-MaxDelta)..MaxDelta
  OBVIOUS
<1>1. raw \in Int /\ -MaxDelta \in Int /\ MaxDelta \in Int /\ -MaxDelta <= MaxDelta
  BY ReflectionAssumption
<1>2. Clamp(raw, -MaxDelta, MaxDelta) \in (-MaxDelta)..MaxDelta
  BY <1>1, ClampRange
<1>3. QED
  BY <1>2 DEF CoerceDelta

\* Every variable starts in its type.
LEMMA TypeInit == Init => TypeOK
  BY ReflectionAssumption, NoRequestAssumption
     DEF Init, TypeOK, AdmissionInit, AdmissionTypeOK, Ids

\* A step of the shared worker's admission keeps its variables in their types.
LEMMA AdmissionTypeStep ==
    ASSUME AdmissionTypeOK, NEW r \in Requests, Admit(r) \/ Refuse(r) \/ Fail(r)
    PROVE  AdmissionTypeOK'
  BY DEF AdmissionTypeOK, Admit, Refuse, Fail

\* Every step keeps every variable in its type.
LEMMA TypeStep == TypeOK /\ [Next]_vars => TypeOK'
<1> SUFFICES ASSUME TypeOK, [Next]_vars PROVE TypeOK'
  OBVIOUS
<1> USE ReflectionAssumption, NoRequestAssumption
    DEF TypeOK, Ids, db, locals, history, admissionVars
<1>1. CASE RecordTurn
  <2>1. lastId + 1 \in Ids /\ lastId' = lastId + 1 /\ turns' \subseteq turns \cup {lastId + 1}
    <3>1. lastId \in Nat /\ lastId < MaxTurns /\ MaxTurns \in Nat
      BY <1>1 DEF RecordTurn
    <3>2. QED
      BY <1>1, <3>1 DEF RecordTurn
  <2>2. lastId' \in 0..MaxTurns /\ turns' \subseteq Ids
    BY <2>1
  <2>3. UNCHANGED <<watermark, lastSeen, affect, pc, locals, history, admissionVars>>
    BY <1>1 DEF RecordTurn
  <2>4. QED
    BY <2>2, <2>3 DEF AdmissionTypeOK
<1>2. ASSUME NEW p \in Passes,
             Enter(p) \/ SkipDisabled(p) \/ ReadWatermark(p) \/ ReadLastSeen(p)
      PROVE  TypeOK'
  <2>1. CASE Enter(p)
    BY <2>1 DEF Enter, AdmissionTypeOK
  <2>2. CASE SkipDisabled(p)
    BY <2>2 DEF SkipDisabled, AdmissionTypeOK
  <2>3. CASE ReadWatermark(p)
    <3>1. wm' \in [Passes -> 0..MaxTurns]
      BY <2>3 DEF ReadWatermark
    <3>2. QED
      BY <2>3, <3>1 DEF ReadWatermark, AdmissionTypeOK
  <2>4. CASE ReadLastSeen(p)
    BY <2>4 DEF ReadLastSeen, AdmissionTypeOK
  <2>5. QED
    BY <1>2, <2>1, <2>2, <2>3, <2>4
<1>3. ASSUME NEW p \in Passes, ReadTurns(p) PROVE TypeOK'
  <2>1. CASE UNCHANGED <<span, upto>>
    BY <1>3, <2>1 DEF ReadTurns, AdmissionTypeOK
  <2>2. ASSUME NEW last \in turns,
               span' = [span EXCEPT ![p] = {t \in {u \in turns : u > wm[p]} : t <= last}],
               upto' = [upto EXCEPT ![p] = last]
        PROVE  TypeOK'
    <3> DEFINE rows == {t \in {u \in turns : u > wm[p]} : t <= last}
    <3>1. span' \in [Passes -> SUBSET Ids] /\ upto' \in [Passes -> 0..MaxTurns]
      <4>1. rows \in SUBSET Ids
        OBVIOUS
      <4>2. last \in 0..MaxTurns
        BY <2>2
      <4>3. span' = [span EXCEPT ![p] = rows]
        BY <2>2
      <4> HIDE DEF rows
      <4>4. QED
        BY <2>2, <4>1, <4>2, <4>3
    <3>2. pc' = [pc EXCEPT ![p] = "mark"]
          /\ UNCHANGED <<db, session, wm, seen, delta, base, history, admissionVars>>
      BY <1>3 DEF ReadTurns
    <3>3. pc' \in [Passes -> {"idle", "watermark", "seen", "turns", "mark", "llm",
                              "waiting", "base", "commit", "returned"}]
      BY <3>2
    <3>4. AdmissionTypeOK'
      BY <3>2 DEF AdmissionTypeOK
    <3>5. QED
      BY <3>1, <3>2, <3>3, <3>4
  <2>3. QED
    BY <1>3, <2>1, <2>2 DEF ReadTurns
<1>4. ASSUME NEW p \in Passes, MarkSeen(p) PROVE TypeOK'
  <2>1. lastSeen' \in Sessions \cup {NoSession}
    BY <1>4 DEF MarkSeen
  <2>2. pc' \in [Passes -> {"idle", "watermark", "seen", "turns", "mark", "llm",
                            "waiting", "base", "commit", "returned"}]
    BY <1>4 DEF MarkSeen
  <2>3. QED
    BY <1>4, <2>1, <2>2 DEF MarkSeen, AdmissionTypeOK
<1>5. ASSUME NEW p \in Passes, Ask(p) PROVE TypeOK'
  <2>1. AdmissionTypeOK'
    BY <1>5, AdmissionTypeStep DEF Ask
  <2>2. QED
    BY <1>5, <2>1 DEF Ask
<1>6. ASSUME NEW p \in Passes, TimeOut(p) \/ LlmFails(p) \/ CommitFails(p)
      PROVE  TypeOK'
  BY <1>6 DEF TimeOut, LlmFails, CommitFails, AdmissionTypeOK
<1>7. ASSUME NEW p \in Passes, LlmAnswers(p) PROVE TypeOK'
  BY <1>7, CoerceRange DEF LlmAnswers, AdmissionTypeOK
<1>8. ASSUME NEW p \in Passes, ReadBase(p) PROVE TypeOK'
  BY <1>8 DEF ReadBase, AdmissionTypeOK
<1>9. ASSUME NEW p \in Passes, Commit(p) PROVE TypeOK'
  <2>1. base[p] + delta[p] \in Int /\ ledger + delta[p] \in Int
    OBVIOUS
  <2>2. affect' \in (-Bound)..Bound /\ ledger' \in (-Bound)..Bound
    BY <1>9, <2>1, ClampRange DEF Commit
  <2>3. QED
    BY <1>9, <2>2 DEF Commit, AdmissionTypeOK
<1>10. CASE Appraise
  BY <1>10, AdmissionTypeStep DEF Appraise
<1>11. CASE WorkEnds
  BY <1>11 DEF WorkEnds, Release, AdmissionTypeOK
<1>12. CASE UNCHANGED vars
  BY <1>12 DEF vars, AdmissionTypeOK
<1>13. QED
  BY <1>1, <1>2, <1>3, <1>4, <1>5, <1>6, <1>7, <1>8, <1>9, <1>10, <1>11, <1>12
     DEF Next, PassStep

\* Every variable keeps its type: in particular the persisted scalar stays in
\* its range and every accepted delta within MAX_DELTA.
THEOREM TypeCorrect == Spec => []TypeOK
  BY TypeInit, TypeStep, PTL DEF Spec

-----------------------------------------------------------------------------
\* The turn was in a committed pass's span, or the cap evicted it.
Covered(t) == t \in reflected \/ t \notin turns

\* A covered turn that exists stays covered: eviction and reflection are final.
\* What a pass holds in its locals is as covered as it was when it was read.
IInv ==
    /\ TypeOK
    /\ turns \subseteq 1..lastId
    /\ watermark <= lastId
    /\ \A t \in 1..watermark : Covered(t)
    /\ \A p \in Passes :
        /\ wm[p] <= lastId
        /\ \A t \in 1..wm[p] : Covered(t)
        /\ upto[p] <= lastId
        /\ \A t \in 1..upto[p] : Covered(t) \/ t \in span[p]

\* Every step of Reflection preserves the inductive invariant.
LEMMA IInvStep == IInv /\ [Next]_vars => IInv'
<1> SUFFICES ASSUME IInv, [Next]_vars PROVE IInv'
  OBVIOUS
<1>1. TypeOK /\ TypeOK'
  BY TypeStep DEF IInv
<1> USE ReflectionAssumption DEF IInv, Covered, TypeOK, Ids, db, locals, history
<1>2. CASE RecordTurn
  <2>1. lastId' = lastId + 1 /\ turns' \subseteq turns \cup {lastId + 1}
        /\ UNCHANGED <<watermark, wm, upto, span, reflected>>
    BY <1>2 DEF RecordTurn
  <2>2. \A t \in 1..lastId : Covered(t) => Covered(t)'
    BY <1>1, <2>1
  <2>3. QED
    BY <1>1, <2>1, <2>2
<1>3. ASSUME NEW p \in Passes, ReadWatermark(p) PROVE IInv'
  BY <1>1, <1>3 DEF ReadWatermark
<1>4. ASSUME NEW p \in Passes, ReadTurns(p) PROVE IInv'
  <2>1. CASE UNCHANGED <<span, upto>>
    BY <1>1, <1>4, <2>1 DEF ReadTurns
  <2>2. ASSUME NEW last \in turns, last > wm[p],
               span' = [span EXCEPT ![p] = {t \in {u \in turns : u > wm[p]} : t <= last}],
               upto' = [upto EXCEPT ![p] = last]
        PROVE  IInv'
    <3>1. \A t \in 1..last : Covered(t) \/ t \in span'[p]
      BY <1>1, <2>2
    <3>2. UNCHANGED <<turns, lastId, watermark, wm, reflected>>
      BY <1>4 DEF ReadTurns
    <3>3. QED
      BY <1>1, <2>2, <3>1, <3>2
  <2>3. QED
    BY <1>4, <2>1, <2>2 DEF ReadTurns
<1>5. ASSUME NEW p \in Passes, Commit(p) PROVE IInv'
  BY <1>1, <1>5 DEF Commit
<1>6. ASSUME UNCHANGED <<turns, lastId, watermark, reflected, wm, span, upto>> PROVE IInv'
  BY <1>1, <1>6
<1>7. ASSUME NEW p \in Passes, PassStep(p) PROVE IInv'
  BY <1>3, <1>4, <1>5, <1>6, <1>7
     DEF PassStep, Enter, SkipDisabled, ReadLastSeen, MarkSeen, Ask, TimeOut, LlmFails,
         LlmAnswers, ReadBase, CommitFails
<1>8. CASE Appraise \/ WorkEnds \/ UNCHANGED vars
  BY <1>6, <1>8 DEF Appraise, WorkEnds, vars
<1>9. QED
  BY <1>2, <1>7, <1>8 DEF Next

\* No turn falls between two passes, for any number of concurrent passes, any
\* cap, limit and debounce, and whichever reads and commits fail.
THEOREM NothingSkipped == Spec => []NoTurnSkipped
<1>1. Init => IInv
  BY TypeInit, ReflectionAssumption DEF Init, IInv, Covered, TypeOK
<1>2. IInv => NoTurnSkipped
  BY DEF IInv, Covered, NoTurnSkipped
<1>3. QED
  BY <1>1, <1>2, IInvStep, PTL DEF Spec

-----------------------------------------------------------------------------
\* Passes that come one at a time: at most one is under way.
AloneInHook == \A p, q \in Passes : InHook(p) /\ InHook(q) => p = q

\* What that pass holds is still what the store says: its watermark is the stored
\* one, its span lies above it and ends at upto, its base is the stored scalar.
LocalsCurrent ==
    \A p \in Passes :
        /\ pc[p] \in {"idle", "watermark", "seen", "turns"} => span[p] = {}
        /\ pc[p] \in {"seen", "turns"} => wm[p] = watermark
        /\ pc[p] \in {"mark", "llm", "waiting", "base", "commit"} =>
              \A t \in span[p] : watermark < t /\ t <= upto[p]
        /\ pc[p] \in {"llm", "waiting", "base", "commit"} => span[p] # {}
        /\ pc[p] = "commit" => base[p] = affect

\* The watermark is a high-water mark of what was reflected, and the scalar is
\* the ledger's.
StoreConsistent ==
    /\ \A t \in reflected : t <= watermark
    /\ again = {}
    /\ affect = ledger

SequentialInv == TypeOK /\ AloneInHook /\ LocalsCurrent /\ StoreConsistent

\* A pass enters only when no other is in its hook, and from there on it is the
\* only one that changes what it has read.
LEMMA AloneStep ==
    ASSUME Sequential, SequentialInv, [Next]_vars
    PROVE  AloneInHook'
<1> USE DEF SequentialInv, TypeOK, AloneInHook, InHook
<1>1. CASE RecordTurn \/ Appraise \/ WorkEnds \/ UNCHANGED vars
  BY <1>1 DEF RecordTurn, Appraise, WorkEnds, vars
<1>2. ASSUME NEW p \in Passes, Enter(p) PROVE AloneInHook'
  BY <1>2 DEF Enter, MayStartPass
<1>3. ASSUME NEW p \in Passes, PassStep(p), ~Enter(p) PROVE AloneInHook'
  <2>1. InHook(p) /\ \A q \in Passes \ {p} : pc'[q] = pc[q]
    BY <1>3 DEF PassStep, SkipDisabled, ReadWatermark, ReadLastSeen, ReadTurns, MarkSeen, Ask,
                TimeOut, LlmFails, LlmAnswers, ReadBase, Commit, CommitFails
  <2>2. QED
    BY <2>1
<1>4. QED
  BY <1>1, <1>2, <1>3 DEF Next

\* The steps of a pass up to its read of the turns.
LEMMA ReadStep ==
    ASSUME ~ReadsMayFail, SequentialInv, TypeOK', NEW p \in Passes,
           Enter(p) \/ SkipDisabled(p) \/ ReadWatermark(p) \/ ReadLastSeen(p)
             \/ ReadTurns(p)
    PROVE  LocalsCurrent' /\ StoreConsistent'
<1> USE ReflectionAssumption
    DEF SequentialInv, TypeOK, LocalsCurrent, StoreConsistent, Ids, db, locals, history
<1>1. CASE Enter(p)
  BY <1>1 DEF Enter
<1>2. CASE SkipDisabled(p)
  BY <1>2 DEF SkipDisabled
<1>3. CASE ReadWatermark(p)
  BY <1>3 DEF ReadWatermark
<1>4. CASE ReadLastSeen(p)
  BY <1>4 DEF ReadLastSeen
<1>5. CASE ReadTurns(p)
  <2>1. /\ pc' = [pc EXCEPT ![p] = "mark"]
        /\ UNCHANGED <<watermark, wm, affect, base, reflected, again, ledger>>
    BY <1>5 DEF ReadTurns
  <2>2. CASE UNCHANGED <<span, upto>>
    BY <1>5, <2>1, <2>2 DEF ReadTurns
  <2>3. ASSUME NEW last \in turns,
               span' = [span EXCEPT ![p] = {t \in {u \in turns : u > wm[p]} : t <= last}],
               upto' = [upto EXCEPT ![p] = last]
        PROVE  LocalsCurrent' /\ StoreConsistent'
    <3>1. \A t \in span'[p] : watermark < t /\ t <= upto'[p]
      BY <1>5, <2>3 DEF ReadTurns
    <3>2. \A q \in Passes \ {p} : span'[q] = span[q] /\ upto'[q] = upto[q] /\ pc'[q] = pc[q]
      BY <2>1, <2>3
    <3>3. QED
      BY <2>1, <3>1, <3>2
  <2>4. QED
    BY <1>5, <2>2, <2>3 DEF ReadTurns
<1>6. QED
  BY <1>1, <1>2, <1>3, <1>4, <1>5

\* The steps from the debounce decision to the read of the base values.
LEMMA DecideStep ==
    ASSUME ~ReadsMayFail, SequentialInv, NEW p \in Passes,
           MarkSeen(p) \/ Ask(p) \/ TimeOut(p) \/ LlmFails(p) \/ LlmAnswers(p)
             \/ ReadBase(p) \/ CommitFails(p)
    PROVE  LocalsCurrent' /\ StoreConsistent'
<1> USE ReflectionAssumption
    DEF SequentialInv, TypeOK, LocalsCurrent, StoreConsistent, Ids, db, locals, history
<1>1. CASE MarkSeen(p)
  BY <1>1 DEF MarkSeen
<1>2. CASE Ask(p)
  BY <1>2 DEF Ask
<1>3. CASE TimeOut(p) \/ LlmFails(p) \/ CommitFails(p)
  <2>1. /\ pc' = [pc EXCEPT ![p] = "returned"]
        /\ UNCHANGED <<db, locals, history>>
    BY <1>3 DEF TimeOut, LlmFails, CommitFails
  <2>2. QED
    BY <2>1
<1>4. CASE LlmAnswers(p)
  BY <1>4 DEF LlmAnswers
<1>5. CASE ReadBase(p)
  BY <1>5 DEF ReadBase
<1>6. QED
  BY <1>1, <1>2, <1>3, <1>4, <1>5

\* The commit moves the watermark from below its span to its end, and adds to the
\* scalar what it adds to the ledger.
LEMMA CommitStep ==
    ASSUME SequentialInv, NEW p \in Passes, Commit(p)
    PROVE  LocalsCurrent' /\ StoreConsistent' /\ watermark' > watermark
<1> USE ReflectionAssumption
    DEF SequentialInv, TypeOK, Ids, db, locals, history, LocalsCurrent, StoreConsistent
<1>1. \A q \in Passes \ {p} : pc[q] \in {"idle", "returned"} /\ pc'[q] = pc[q]
  BY DEF Commit, AloneInHook, InHook
<1>2. watermark' = upto[p] /\ watermark' > watermark
  BY DEF Commit
<1>3. reflected \cap span[p] = {}
  BY DEF Commit
<1>4. StoreConsistent'
  <2>1. again' = {}
    BY <1>3 DEF Commit
  <2>2. affect' = ledger'
    BY DEF Commit
  <2>3. \A t \in reflected' : t <= watermark'
    BY <1>2 DEF Commit
  <2>4. QED
    BY <2>1, <2>2, <2>3
<1>5. pc'[p] = "returned" /\ UNCHANGED <<span, upto, wm, base>>
  BY DEF Commit
<1>6. LocalsCurrent'
  BY <1>1, <1>5
<1>7. QED
  BY <1>2, <1>4, <1>6

\* Every step with sequential passes and a readable store preserves the invariant.
LEMMA SequentialStep ==
    ASSUME Sequential, ~ReadsMayFail
    PROVE  SequentialInv /\ [Next]_vars => SequentialInv'
<1> SUFFICES ASSUME SequentialInv, [Next]_vars PROVE SequentialInv'
  OBVIOUS
<1>1. TypeOK' /\ AloneInHook'
  BY TypeStep, AloneStep DEF SequentialInv
<1>2. LocalsCurrent' /\ StoreConsistent'
  <2>1. CASE RecordTurn \/ Appraise \/ WorkEnds \/ UNCHANGED vars
    <3>1. UNCHANGED <<pc, span, upto, wm, base, watermark, affect, reflected, again, ledger>>
      BY <2>1 DEF RecordTurn, Appraise, WorkEnds, vars, db, locals, history
    <3>2. QED
      BY <3>1 DEF SequentialInv, LocalsCurrent, StoreConsistent
  <2>2. ASSUME NEW p \in Passes, PassStep(p) PROVE LocalsCurrent' /\ StoreConsistent'
    BY <1>1, <2>2, ReadStep, DecideStep, CommitStep DEF PassStep
  <2>3. QED
    BY <2>1, <2>2 DEF Next
<1>3. QED
  BY <1>1, <1>2 DEF SequentialInv

\* With passes that come one at a time, and a store that can be read,
\* what a pass holds is never stale.
LEMMA SequentialInductive ==
    ASSUME Sequential, ~ReadsMayFail
    PROVE  Spec => []SequentialInv
<1>1. Init => SequentialInv
  BY TypeInit DEF Init, SequentialInv, AloneInHook, InHook, LocalsCurrent, StoreConsistent
<1>2. QED
  BY <1>1, SequentialStep, PTL DEF Spec

\* The watermark is the idempotence core: with sequential passes and readable
\* watermarks no turn is consolidated twice, for any number of passes, any cap,
\* limit and debounce, and whichever commits and provider calls fail.
THEOREM NothingReflectedTwice ==
    ASSUME Sequential, ~ReadsMayFail
    PROVE  Spec => []ReflectedAtMostOnce
<1>1. SequentialInv => ReflectedAtMostOnce
  BY DEF SequentialInv, StoreConsistent, ReflectedAtMostOnce
<1>2. QED
  BY <1>1, SequentialInductive, PTL

\* Under the same conditions the persisted scalar is what the committed deltas
\* add up to, although each pass writes an absolute value it computed earlier.
THEOREM NothingLost ==
    ASSUME Sequential, ~ReadsMayFail
    PROVE  Spec => []NoLostDelta
<1>1. SequentialInv => NoLostDelta
  BY DEF SequentialInv, StoreConsistent, NoLostDelta
<1>2. QED
  BY <1>1, SequentialInductive, PTL

\* Adding a delta and clamping moves a value of the range by no more than the delta.
LEMMA ClampMoves ==
    ASSUME NEW a \in (-Bound)..Bound, NEW d \in (-MaxDelta)..MaxDelta
    PROVE  Clamp(a + d, -Bound, Bound) - a \in (-MaxDelta)..MaxDelta
  BY ReflectionAssumption DEF Clamp

\* Under the same conditions no single step, and so no pass, moves the scalar by
\* more than MAX_DELTA.
THEOREM PassMovesWithinMax ==
    ASSUME Sequential, ~ReadsMayFail
    PROVE  Spec => BoundedPassDelta
<1>1. SequentialInv /\ [Next]_vars => [affect' - affect \in (-MaxDelta)..MaxDelta]_vars
  <2> SUFFICES ASSUME SequentialInv, Next PROVE affect' - affect \in (-MaxDelta)..MaxDelta
    OBVIOUS
  <2>1. ASSUME NEW p \in Passes, Commit(p)
        PROVE  affect' - affect \in (-MaxDelta)..MaxDelta
    <3>1. affect' = Clamp(affect + delta[p], -Bound, Bound)
      BY <2>1 DEF Commit, SequentialInv, LocalsCurrent
    <3>2. affect \in (-Bound)..Bound /\ delta[p] \in (-MaxDelta)..MaxDelta
      BY DEF SequentialInv, TypeOK
    <3>3. QED
      BY <3>1, <3>2, ClampMoves
  <2>2. CASE ~(\E p \in Passes : Commit(p))
    <3>1. affect' = affect
      BY <2>2 DEF Next, PassStep, RecordTurn, Enter, SkipDisabled, ReadWatermark, ReadLastSeen,
                  ReadTurns, MarkSeen, Ask, TimeOut, LlmFails, LlmAnswers, ReadBase,
                  CommitFails, Appraise, WorkEnds, db
    <3>2. affect \in Int
      BY DEF SequentialInv, TypeOK
    <3>3. QED
      BY <3>1, <3>2, ReflectionAssumption
  <2>3. QED
    BY <2>1, <2>2
<1>2. QED
  BY <1>1, SequentialInductive, PTL DEF Spec, BoundedPassDelta

-----------------------------------------------------------------------------
\* A capture is a Capture: ids grow, and the cap keeps the newest.
LEMMA CaptureRefines ==
    ASSUME IInv, RecordTurn
    PROVE  Log!Capture
<1> USE ReflectionAssumption DEF IInv, TypeOK, Ids, db, history
<1>1. lastId \in Nat /\ lastId + 1 \in 1..MaxTurns /\ lastId + 1 > watermark
  BY DEF RecordTurn
<1>2. turns' = {t \in turns \cup {lastId + 1} : t > lastId + 1 - TurnCap}
  BY DEF RecordTurn
<1>3. \A u \in turns : u < lastId + 1
  BY <1>1
<1>4. lastId + 1 \in turns' /\ turns' \subseteq turns \cup {lastId + 1}
  BY <1>1, <1>2
<1>5. \A old \in turns \ turns', kept \in turns' : old < kept
  BY <1>1, <1>2
<1>6. UNCHANGED <<watermark, reflected, again, affect>>
  BY DEF RecordTurn
<1>7. QED
  BY <1>1, <1>3, <1>4, <1>5, <1>6 DEF Log!Capture

\* A commit is a Consolidate: its span is every surviving turn between the stored
\* watermark and the new one, none of which was reflected, and its base is the
\* stored scalar.
LEMMA CommitRefines ==
    ASSUME IInv, SequentialInv, NEW p \in Passes, Commit(p)
    PROVE  Log!Consolidate
<1> USE ReflectionAssumption DEF SequentialInv, TypeOK, Ids, LocalsCurrent, StoreConsistent
<1>1. /\ watermark' = upto[p] /\ UNCHANGED turns
      /\ reflected' = reflected \cup span[p]
      /\ again' = again \cup (reflected \cap span[p])
      /\ affect' = Clamp(affect + delta[p], -Bound, Bound)
  BY DEF Commit
<1>2. span[p] # {} /\ \A t \in span[p] : watermark < t /\ t <= upto[p]
  BY DEF Commit
<1>3. reflected \cap span[p] = {} /\ again = {} /\ again' = {}
  BY <1>1, <1>2
<1>4. (reflected \ again)' \ (reflected \ again) = span[p]
  BY <1>1, <1>3
<1>5. upto[p] \in (watermark + 1)..MaxTurns /\ span[p] \subseteq (watermark + 1)..upto[p]
  BY <1>2
<1>6. {t \in turns : watermark < t /\ t <= upto[p]} \subseteq span[p]
  <2> SUFFICES ASSUME NEW t \in turns, watermark < t, t <= upto[p] PROVE t \in span[p]
    OBVIOUS
  <2>1. t \in 1..upto[p] /\ t \notin reflected
    BY <1>5
  <2>2. QED
    BY <2>1 DEF IInv, Covered
<1>7. affect' = Log!InRange(affect + delta[p]) /\ delta[p] \in (-MaxDelta)..MaxDelta
  BY <1>1 DEF Clamp, Log!InRange
<1>8. QED
  BY <1>1, <1>2, <1>3, <1>4, <1>5, <1>6, <1>7 DEF Log!Consolidate

\* Every step of Reflection is a step of Consolidation or a stutter.
LEMMA StepRefines ==
    ASSUME IInv, SequentialInv, [Next]_vars
    PROVE  [Log!ConsolidationNext]_(Log!consolidationVars)
<1>1. CASE RecordTurn
  BY <1>1, CaptureRefines DEF Log!ConsolidationNext
<1>2. ASSUME NEW p \in Passes, Commit(p) PROVE Log!ConsolidationNext
  BY <1>2, CommitRefines DEF Log!ConsolidationNext
<1>3. CASE UNCHANGED <<turns, watermark, reflected, again, affect>>
  BY <1>3 DEF Log!consolidationVars
<1>4. QED
  BY <1>1, <1>2, <1>3
     DEF Next, vars, PassStep, Enter, SkipDisabled, ReadWatermark, ReadLastSeen, ReadTurns,
         MarkSeen, Ask, TimeOut, LlmFails, LlmAnswers, ReadBase, CommitFails, Appraise,
         WorkEnds, db, locals, history

\* Passes that come one at a time over a readable store, with turns captured at
\* any moment of them, implement Consolidation, for any number of passes, any cap,
\* limit, debounce and range.
THEOREM Refinement ==
    ASSUME Sequential, ~ReadsMayFail
    PROVE  Spec => ImplementsConsolidation
<1>1. Init => IInv /\ Log!ConsolidationInit
  BY TypeInit, ReflectionAssumption
     DEF Init, IInv, Covered, TypeOK, Log!ConsolidationInit
<1>2. QED
  BY <1>1, IInvStep, SequentialInductive, StepRefines, PTL
     DEF Spec, ImplementsConsolidation, Log!ConsolidationSpec

\* What the contract says of the log holds of whatever keeps it: a turn at or below
\* the watermark that survives was consolidated exactly once, and none above it was.
THEOREM ContractMeansExactlyOnce == Log!ConsolidationSpec => []Log!ExactlyOnce
<1> DEFINE MarkType == watermark \in Nat /\ turns \subseteq Nat
<1>1. Log!ConsolidationInit => MarkType /\ Log!ExactlyOnce
  BY DEF Log!ConsolidationInit, Log!ExactlyOnce
<1>2. MarkType /\ Log!ExactlyOnce /\ [Log!ConsolidationNext]_(Log!consolidationVars)
        => MarkType' /\ Log!ExactlyOnce'
  <2> SUFFICES ASSUME MarkType, Log!ExactlyOnce,
                      [Log!ConsolidationNext]_(Log!consolidationVars)
               PROVE  MarkType' /\ Log!ExactlyOnce'
    OBVIOUS
  <2>1. CASE Log!Capture
    <3>1. PICK t \in 1..MaxTurns :
            /\ t > watermark
            /\ turns' \subseteq turns \cup {t}
      BY <2>1 DEF Log!Capture
    <3>2. UNCHANGED <<watermark, reflected \ again>>
      BY <2>1 DEF Log!Capture
    <3>3. t \in Nat
      OBVIOUS
    <3>4. MarkType'
      BY <3>1, <3>2, <3>3
    <3>5. Log!ExactlyOnce'
      BY <3>1, <3>2, <3>3 DEF Log!ExactlyOnce
    <3>6. QED
      BY <3>4, <3>5
  <2>2. CASE Log!Consolidate
    <3> DEFINE once == reflected \ again
    <3>1. /\ watermark' \in (watermark + 1)..MaxTurns
          /\ once \subseteq once'
          /\ once' \ once \subseteq (watermark + 1)..watermark'
          /\ {t \in turns : watermark < t /\ t <= watermark'} \subseteq once'
          /\ turns' = turns
      BY <2>2 DEF Log!Consolidate
    <3>2. once \subseteq 1..watermark /\ \A t \in turns : t <= watermark => t \in once
      BY DEF Log!ExactlyOnce
    <3> HIDE DEF once
    <3>3. watermark' \in Nat /\ watermark' > watermark
      BY <3>1
    <3>4. once' \subseteq 1..watermark'
      BY <3>1, <3>2, <3>3
    <3>5. \A t \in turns' : t <= watermark' => t \in once'
      BY <3>1, <3>2, <3>3
    <3>6. QED
      BY <3>1, <3>3, <3>4, <3>5 DEF Log!ExactlyOnce, once
  <2>3. CASE UNCHANGED Log!consolidationVars
    BY <2>3 DEF Log!consolidationVars, Log!ExactlyOnce
  <2>4. QED
    BY <2>1, <2>2, <2>3 DEF Log!ConsolidationNext
<1>3. QED
  BY <1>1, <1>2, PTL DEF Log!ConsolidationSpec
=============================================================================
