---------------------------- MODULE DriveProofs ----------------------------
(***************************************************************************)
(* For every table, whitelist, budget, pressure and answer: flagged goals  *)
(* are voiced by every successful turn and never evicted by the cap,       *)
(* echoes stay out, ages are measured, the loudest surface, and no line is *)
(* complacent unless a signal matches two goals.                           *)
(***************************************************************************)
EXTENDS Drive, WellFoundedInduction, FiniteSetTheorems, TLAPS

-----------------------------------------------------------------------------
\* Ids are numbers, so every set of them that is not empty has a least one.
LEMMA MinOfIds ==
    ASSUME NEW S \in SUBSET Nat, S # {}
    PROVE  Min(S) \in S /\ \A y \in S : Min(S) <= y
<1>1. PICK x \in S : \A y \in S : ~(<<y, x>> \in OpToRel(<, Nat))
  BY WFMin, NatLessThanWellFounded
<1>2. \A y \in S : x <= y
  <2>1. SUFFICES ASSUME NEW y \in S PROVE x <= y
    OBVIOUS
  <2>2. x \in Nat /\ y \in Nat
    OBVIOUS
  <2>3. ~(y < x)
    BY <1>1, <2>2 DEF OpToRel
  <2>4. QED
    BY <2>2, <2>3
<1>3. QED
  BY <1>2 DEF Min

\* The next id is one the table has not used yet, above all it has.
LEMMA NextIdType ==
    ASSUME DOMAIN goals \subseteq 1..MaxGoals
    PROVE  NextId \in Nat \ {0} /\ \A g \in DOMAIN goals : g < NextId
<1> DEFINE used == DOMAIN goals \cup {0}
           above == {n \in 0..MaxGoals : \A g \in used : g <= n}
<1> USE DriveAssumption
<1>1. used \subseteq 0..MaxGoals /\ 0 \in used
  OBVIOUS
<1>2. MaxGoals \in above /\ above \subseteq Nat
  BY <1>1
<1>3. Min(above) \in above /\ \A n \in above : Min(above) <= n
  BY <1>2, MinOfIds
<1>4. Min(above) \in used
  <2> SUFFICES ASSUME Min(above) \notin used PROVE FALSE
    OBVIOUS
  <2> DEFINE m == Min(above)
  <2> HIDE DEF m
  <2>1. m \in 0..MaxGoals /\ \A g \in used : g <= m /\ g # m
    BY <1>3 DEF m
  <2>2. m # 0
    BY <1>1, <2>1
  <2>3. m - 1 \in 0..MaxGoals
    BY <2>1, <2>2
  <2>4. \A g \in used : g <= m - 1
    BY <1>1, <2>1
  <2>5. m - 1 \in above
    BY <2>3, <2>4
  <2>6. QED
    BY <1>3, <2>1, <2>5 DEF m
<1>5. \E x \in used : \A y \in used : x >= y
  <2>1. Min(above) \in 0..MaxGoals /\ \A g \in used : g <= Min(above)
    BY <1>3
  <2>2. QED
    BY <1>1, <1>4, <2>1
<1>6. Max(used) \in used /\ \A y \in used : Max(used) >= y
  BY <1>5 DEF Max
<1>7. QED
  <2>1. NextId = Max(used) + 1
    BY DEF NextId
  <2>2. QED
    BY <1>1, <1>6, <2>1

-----------------------------------------------------------------------------
\* The cap keeps rows as they are.
LEMMA CapKeeps ==
    ASSUME NEW table
    PROVE  /\ DOMAIN EnforceGoalCap(table) \subseteq DOMAIN table
           /\ \A g \in DOMAIN EnforceGoalCap(table) : EnforceGoalCap(table)[g] = table[g]
           /\ \A g \in DOMAIN table : table[g].flagged => g \in DOMAIN EnforceGoalCap(table)
  BY DEF EnforceGoalCap, Restrict

\* At most GoalCap ordinary rows are left.
LEMMA CapBounds ==
    ASSUME NEW table, DOMAIN table \subseteq 1..MaxGoals
    PROVE  LET after == EnforceGoalCap(table) IN
           Cardinality({g \in DOMAIN after : ~after[g].flagged}) <= GoalCap
<1> DEFINE ordinary == {g \in DOMAIN table : ~table[g].flagged}
           newer(g) == {h \in ordinary : h > g}
           kept == {g \in ordinary : Cardinality(newer(g)) < GoalCap}
           after == EnforceGoalCap(table)
<1> USE DriveAssumption
<1>1. {g \in DOMAIN after : ~after[g].flagged} = kept
  BY DEF EnforceGoalCap, Restrict
<1>2. IsFiniteSet(1..MaxGoals)
  BY FS_Interval
<1>3. IsFiniteSet(ordinary) /\ IsFiniteSet(kept) /\ ordinary \subseteq Nat
  <2>1. ordinary \subseteq 1..MaxGoals /\ kept \subseteq ordinary
    OBVIOUS
  <2> HIDE DEF ordinary, kept
  <2>2. ordinary \subseteq Nat
    BY <2>1
  <2>3. IsFiniteSet(ordinary)
    BY <1>2, <2>1, FS_Subset
  <2>4. QED
    BY <2>1, <2>2, <2>3, FS_Subset
<1>4. SUFFICES Cardinality(kept) <= GoalCap
  <2> HIDE DEF kept
  <2>1. QED
    BY <1>1
<1> HIDE DEF after, ordinary
<1>5. CASE kept = {}
  <2> HIDE DEF kept
  <2>1. QED
    BY <1>5, FS_EmptySet
<1>6. CASE kept # {}
  <2> DEFINE m == Min(kept)
  <2>1. m \in kept /\ \A g \in kept : m <= g
    BY <1>3, <1>6, MinOfIds
  <2> HIDE DEF m
  <2>2. Cardinality(newer(m)) < GoalCap /\ IsFiniteSet(newer(m))
    BY <1>3, <2>1, FS_Subset
  <2>3. kept \ {m} \subseteq newer(m)
    <3>1. SUFFICES ASSUME NEW g \in kept, g # m PROVE g \in newer(m)
      OBVIOUS
    <3>2. g \in ordinary /\ g \in Nat /\ m \in Nat /\ m <= g
      BY <1>3, <2>1
    <3>3. QED
      BY <3>1, <3>2
  <2>4. Cardinality(kept \ {m}) = Cardinality(kept) - 1
    BY <1>3, <2>1, FS_RemoveElement
  <2>5. Cardinality(kept \ {m}) <= Cardinality(newer(m))
    BY <2>2, <2>3, FS_Subset
  <2>6. Cardinality(kept) \in Nat /\ Cardinality(newer(m)) \in Nat
    BY <1>3, <2>2, FS_CardinalityType
  <2> HIDE DEF kept, newer
  <2>7. Cardinality(kept) <= GoalCap
    BY <2>2, <2>4, <2>5, <2>6
  <2>8. QED
    BY <2>7
<1>7. QED
  BY <1>5, <1>6

\* A capped write keeps the table's type.
LEMMA WriteType ==
    ASSUME NEW table, DOMAIN table \subseteq 1..MaxGoals,
           \A g \in DOMAIN table : table[g] \in Rows,
           TypeOK, Write(table)
    PROVE  TypeOK'
<1>1. /\ DOMAIN goals' \subseteq 1..MaxGoals
      /\ \A g \in DOMAIN goals' : goals'[g] \in Rows
  BY CapKeeps DEF Write
<1>2. Cardinality({g \in DOMAIN goals' : ~goals'[g].flagged}) <= GoalCap
  BY CapBounds DEF Write
<1>3. writes' \in 0..MaxWrites
  BY DriveAssumption DEF Write, TypeOK
<1>4. QED
  BY <1>1, <1>2, <1>3 DEF TypeOK, Write, turnVars

-----------------------------------------------------------------------------
\* What a waiting turn still owes is in its slice, flagged.
OwedIsKept ==
    pc = "asked" => \A row \in due :
        \E g \in DOMAIN slice : slice[g].flagged /\ slice[g].text = row.text

IInv == TypeOK /\ OwedIsKept /\ NeverOmitted

\* The inductive invariant holds initially.
LEMMA IInvInit == Init => IInv
<1> SUFFICES ASSUME Init PROVE IInv
  OBVIOUS
<1>1. {g \in DOMAIN goals : ~goals[g].flagged} = {} /\ DOMAIN goals = {} /\ DOMAIN slice = {}
  BY DEF Init, EmptyTable
<1>2. TypeOK
  BY <1>1, FS_EmptySet, DriveAssumption DEF TypeOK, Init
<1>3. QED
  BY <1>2 DEF IInv, OwedIsKept, NeverOmitted, Init

\* Every change of the table keeps the types.
LEMMA TableStep ==
    ASSUME TypeOK, AddGoal \/ \E g \in DOMAIN goals : UpdateGoal(g) \/ SetStatus(g) \/ Age(g)
    PROVE  TypeOK'
<1> USE DriveAssumption
<1>1. CASE AddGoal
  <2>1. PICK row \in NewGoals :
          Write([g \in DOMAIN goals \cup {NextId} |-> IF g = NextId THEN row ELSE goals[g]])
    BY <1>1 DEF AddGoal
  <2>2. NextId \in 1..MaxGoals
    BY <1>1, NextIdType DEF AddGoal, TypeOK
  <2>3. row \in Rows
    OBVIOUS
  <2>4. QED
    BY <2>1, <2>2, <2>3, WriteType DEF TypeOK
<1>2. ASSUME NEW g \in DOMAIN goals, UpdateGoal(g) PROVE TypeOK'
  <2>1. PICK item \in NewGoals, present \in SUBSET UpdateFields :
          Write([goals EXCEPT ![g] = Merged(goals[g], item, present)])
    BY <1>2 DEF UpdateGoal
  <2>2. item \in Rows /\ goals[g] \in Rows
    BY DEF TypeOK
  <2>3. Merged(goals[g], item, present) \in Rows
    BY <2>2 DEF Merged, Rows
  <2>4. QED
    BY <2>1, <2>3, WriteType DEF TypeOK
<1>3. ASSUME NEW g \in DOMAIN goals, SetStatus(g) PROVE TypeOK'
  <2>1. PICK status \in {"active", "candidate"} : Write([goals EXCEPT ![g].status = status])
    BY <1>3 DEF SetStatus
  <2>2. [goals[g] EXCEPT !.status = status] \in Rows
    BY DEF TypeOK, Rows
  <2>3. QED
    BY <2>1, <2>2, WriteType DEF TypeOK
<1>4. ASSUME NEW g \in DOMAIN goals, Age(g) PROVE TypeOK'
  <2>1. PICK days \in Ages \cup {NoDays} : goals' = [goals EXCEPT ![g].days = days]
    BY <1>4 DEF Age
  <2>2. goals[g] \in Rows
    BY DEF TypeOK
  <2>3. /\ [goals[g] EXCEPT !.days = days] \in Rows
        /\ [goals[g] EXCEPT !.days = days].flagged = goals[g].flagged
    BY <2>2 DEF Rows
  <2>4. {h \in DOMAIN goals' : ~goals'[h].flagged} = {h \in DOMAIN goals : ~goals[h].flagged}
    BY <2>1, <2>3
  <2>5. writes' \in 0..MaxWrites
    BY <1>4 DEF Age, TypeOK
  <2>6. QED
    BY <1>4, <2>1, <2>3, <2>4, <2>5 DEF TypeOK, Age, turnVars
<1>5. QED
  BY <1>1, <1>2, <1>3, <1>4

\* Every step of a turn keeps the types.
LEMMA TurnStep ==
    ASSUME TypeOK, BeginTurn \/ AppraisalFails \/ Answer
    PROVE  TypeOK'
<1>1. CASE BeginTurn
  <2>1. PICK c \in Configs :
          /\ cfg' = c
          /\ \/ /\ slice' = FilterGoals(goals, c.domains)
                /\ due' = {goals[g] : g \in {g \in DOMAIN goals :
                              goals[g].status = "active" /\ goals[g].flagged}}
             \/ slice' = EmptyTable /\ due' = {}
    BY <1>1 DEF BeginTurn
  <2>2. \A g \in DOMAIN slice' : g \in 1..MaxGoals /\ slice'[g] \in Rows
    BY <2>1 DEF FilterGoals, Restrict, EmptyTable, TypeOK
  <2>3. due' \subseteq Rows
    BY <2>1 DEF TypeOK
  <2>4. QED
    BY <1>1, <2>1, <2>2, <2>3 DEF TypeOK, BeginTurn
<1>2. CASE AppraisalFails
  BY <1>2 DEF TypeOK, AppraisalFails
<1>3. CASE Answer
  BY <1>3 DEF TypeOK, Answer
<1>4. QED
  BY <1>1, <1>2, <1>3

\* Types are preserved by every step.
LEMMA TypeStep == TypeOK /\ [Next]_vars => TypeOK'
<1> SUFFICES ASSUME TypeOK, [Next]_vars PROVE TypeOK'
  OBVIOUS
<1>1. CASE UNCHANGED vars
  BY <1>1 DEF TypeOK, vars, turnVars
<1>2. CASE Next
  BY <1>2, TableStep, TurnStep DEF Next
<1>3. QED
  BY <1>1, <1>2

\* Types and the cap of the goals table hold in every reachable state.
THEOREM TypeCorrect == Spec => []TypeOK
<1>1. Init => TypeOK
  BY IInvInit DEF IInv
<1>2. QED
  BY <1>1, TypeStep, PTL DEF Spec

-----------------------------------------------------------------------------
\* A flagged goal of the slice has a line that names it, whatever the signals.
LEMMA WantNamesGoal ==
    ASSUME NEW kept, DOMAIN kept \subseteq Nat,
           NEW signals, DOMAIN signals \subseteq Nat,
           NEW g \in Flagged(kept)
    PROVE  \E line \in WantLines(kept, signals) : kept[g].text \subseteq line.text
<1> DEFINE same == {h \in Flagged(kept) : kept[h].text = kept[g].text}
           first == Min(same)
<1>1. first \in same /\ \A h \in same : first <= h
  BY MinOfIds DEF Flagged
<1> HIDE DEF first
<1>2. WantLine(kept[first], signals) \in WantLines(kept, signals)
  BY <1>1 DEF WantLines
<1>3. kept[first].text \subseteq WantLine(kept[first], signals).text
  <2> DEFINE goal == kept[first]
             voices == {i \in DOMAIN signals : Matches(goal.text, signals[i].relates)}
  <2>1. CASE voices = {}
    BY <2>1 DEF WantLine
  <2>2. CASE voices # {}
    <3>1. Min(voices) \in voices
      BY <2>2, MinOfIds
    <3>2. goal.text \subseteq signals[Min(voices)].relates
      BY <3>1 DEF Matches
    <3>3. WantLine(goal, signals).text = signals[Min(voices)].relates
      BY <2>2 DEF WantLine
    <3>4. QED
      BY <3>2, <3>3
  <2>3. QED
    BY <2>1, <2>2
<1>4. QED
  BY <1>1, <1>2, <1>3

\* A snapshot's flagged goals pass the whitelist, whatever it lists.
LEMMA BeginOwes ==
    ASSUME BeginTurn
    PROVE  OwedIsKept'
<1>1. PICK c \in Configs :
        \/ /\ slice' = FilterGoals(goals, c.domains)
           /\ due' = {goals[g] : g \in {g \in DOMAIN goals :
                         goals[g].status = "active" /\ goals[g].flagged}}
        \/ due' = {}
  BY DEF BeginTurn
<1>2. SUFFICES ASSUME NEW row \in due'
               PROVE  \E g \in DOMAIN slice' : slice'[g].flagged /\ slice'[g].text = row.text
  BY DEF OwedIsKept
<1>3. PICK g \in DOMAIN goals :
        row = goals[g] /\ goals[g].status = "active" /\ goals[g].flagged
  BY <1>1
<1>4. slice' = FilterGoals(goals, c.domains)
  BY <1>1
<1>5. g \in DOMAIN slice' /\ slice'[g] = goals[g]
  BY <1>3, <1>4 DEF FilterGoals, Restrict
<1>6. QED
  BY <1>3, <1>5

\* An answer voices everything owed.
LEMMA AnswerVoices ==
    ASSUME TypeOK, OwedIsKept, Answer
    PROVE  NeverOmitted'
<1>1. SUFFICES ASSUME NEW row \in due
               PROVE  \E line \in block'.wants : row.text \subseteq line.text
  BY DEF Answer, NeverOmitted
<1>2. PICK g \in DOMAIN slice : slice[g].flagged /\ slice[g].text = row.text
  BY DEF OwedIsKept, Answer
<1>3. g \in Flagged(slice) /\ DOMAIN slice \subseteq Nat
  BY <1>2 DEF Flagged, TypeOK
<1>4. PICK n \in 0..MaxSignals, others \in BOOLEAN :
         \E answered \in [1..n -> SignalChoices] :
            LET kept == FilterSignals(answered, slice, cfg.domains)
                signals == IF cfg.drive
                           THEN [i \in DOMAIN kept |-> Enrich(kept[i], slice)]
                           ELSE [i \in {} |-> {}]
            IN block' \in RenderBlock(slice, signals, cfg, others)
  BY DEF Answer
<1>5. PICK answered \in [1..n -> SignalChoices] :
        LET kept == FilterSignals(answered, slice, cfg.domains)
            signals == IF cfg.drive
                       THEN [i \in DOMAIN kept |-> Enrich(kept[i], slice)]
                       ELSE [i \in {} |-> {}]
        IN block' \in RenderBlock(slice, signals, cfg, others)
  BY <1>4
<1> DEFINE kept == FilterSignals(answered, slice, cfg.domains)
           signals == IF cfg.drive
                      THEN [i \in DOMAIN kept |-> Enrich(kept[i], slice)]
                      ELSE [i \in {} |-> {}]
<1>6. DOMAIN kept \subseteq Nat
  BY DEF FilterSignals, Restrict
<1>7. DOMAIN signals \subseteq Nat
  BY <1>6
<1>8. block' \in RenderBlock(slice, signals, cfg, others)
  BY <1>5
<1> HIDE DEF signals, kept
<1>9. block'.wants = WantLines(slice, signals)
  BY <1>3, <1>8 DEF RenderBlock
<1>10. QED
  BY <1>2, <1>3, <1>7, <1>9, WantNamesGoal

\* The inductive invariant is preserved by every step.
LEMMA IInvStep == IInv /\ [Next]_vars => IInv'
<1> SUFFICES ASSUME IInv, [Next]_vars PROVE IInv'
  OBVIOUS
<1>1. TypeOK'
  BY TypeStep DEF IInv
<1>2. CASE UNCHANGED turnVars
  BY <1>1, <1>2 DEF IInv, OwedIsKept, NeverOmitted, turnVars
<1>3. CASE BeginTurn
  BY <1>1, <1>3, BeginOwes DEF IInv, BeginTurn, NeverOmitted
<1>4. CASE AppraisalFails
  BY <1>1, <1>4 DEF IInv, AppraisalFails, NeverOmitted, OwedIsKept
<1>5. CASE Answer
  BY <1>1, <1>5, AnswerVoices DEF IInv, Answer, OwedIsKept
<1>6. QED
  BY <1>2, <1>3, <1>4, <1>5
     DEF Next, vars, AddGoal, UpdateGoal, SetStatus, Age, Write

\* Every successful turn names every goal that was active and flagged in its
\* snapshot, for any goals, configuration and answer.
THEOREM FlaggedSurface == Spec => []NeverOmitted
<1>1. IInv => NeverOmitted
  BY DEF IInv
<1>2. QED
  BY <1>1, IInvInit, IInvStep, PTL DEF Spec

-----------------------------------------------------------------------------
\* The slice holds active goals that were flagged or in a listed domain.
SliceEligible ==
    \A g \in DOMAIN slice :
        /\ slice[g].status = "active"
        /\ cfg.domains = {} \/ slice[g].flagged \/ slice[g].domain \in cfg.domains

AnswerInv == TypeOK /\ SliceEligible /\ EchoContained /\ MeasuredAges

\* A signal that matches a goal of the slice is enriched with a measured age.
LEMMA EnrichMeasures ==
    ASSUME NEW kept, DOMAIN kept \subseteq Nat, NEW signal,
           NEW g \in DOMAIN kept, Matches(kept[g].text, signal.relates)
    PROVE  Enrich(signal, kept).days \in {kept[h].days : h \in DOMAIN kept}
<1> DEFINE matching == {h \in DOMAIN kept : Matches(kept[h].text, signal.relates)}
<1>1. g \in matching /\ matching \subseteq Nat
  OBVIOUS
<1>2. Min(matching) \in matching
  BY <1>1, MinOfIds
<1>3. Enrich(signal, kept).days = kept[Min(matching)].days
  BY <1>1 DEF Enrich
<1>4. QED
  BY <1>2, <1>3

\* What an answer renders came from signals that passed the whitelist, enriched.
LEMMA AnswerBlock ==
    ASSUME Answer
    PROVE  \/ block'.wants = {} /\ block'.notes = {}
           \/ \E kept, signals :
                /\ block'.wants = WantLines(slice, signals)
                /\ block'.signals = signals
                /\ block'.notes \subseteq DOMAIN signals
                /\ \E count \in 0..NoteLimit(cfg) :
                      block'.notes = Notes(slice, signals, cfg.pressure, count)
                /\ DOMAIN signals \subseteq DOMAIN kept /\ DOMAIN kept \subseteq Nat
                /\ IsFiniteSet(DOMAIN kept) /\ \A i \in DOMAIN kept : kept[i] \in Signals
                /\ \A i \in DOMAIN signals : signals[i] = Enrich(kept[i], slice)
                /\ cfg.domains # {} => \A i \in DOMAIN kept :
                      \E g \in DOMAIN slice : Matches(slice[g].text, kept[i].relates)
<1>1. PICK n \in 0..MaxSignals, others \in BOOLEAN :
         \E answered \in [1..n -> SignalChoices] :
            LET kept == FilterSignals(answered, slice, cfg.domains)
                signals == IF cfg.drive
                           THEN [i \in DOMAIN kept |-> Enrich(kept[i], slice)]
                           ELSE [i \in {} |-> {}]
            IN block' \in RenderBlock(slice, signals, cfg, others)
  BY DEF Answer
<1>2. PICK answered \in [1..n -> SignalChoices] :
        LET kept == FilterSignals(answered, slice, cfg.domains)
            signals == IF cfg.drive
                       THEN [i \in DOMAIN kept |-> Enrich(kept[i], slice)]
                       ELSE [i \in {} |-> {}]
        IN block' \in RenderBlock(slice, signals, cfg, others)
  BY <1>1
<1> DEFINE kept == FilterSignals(answered, slice, cfg.domains)
           signals == IF cfg.drive
                      THEN [i \in DOMAIN kept |-> Enrich(kept[i], slice)]
                      ELSE [i \in {} |-> {}]
<1>3. block' \in RenderBlock(slice, signals, cfg, others)
  BY <1>2
<1>4. /\ DOMAIN kept \subseteq Nat
      /\ cfg.domains # {} => \A i \in DOMAIN kept :
            \E g \in DOMAIN slice : Matches(slice[g].text, kept[i].relates)
      /\ IsFiniteSet(DOMAIN kept) /\ \A i \in DOMAIN kept : kept[i] \in Signals
  <2>1. \A i \in 1..n : answered[i] \in Signals
    BY DriveAssumption
  <2>2. IsFiniteSet(1..n)
    BY FS_Interval
  <2>3. DOMAIN answered = 1..n
    OBVIOUS
  <2>4. /\ DOMAIN kept \subseteq 1..n
        /\ \A i \in DOMAIN kept : kept[i] = answered[i]
        /\ cfg.domains # {} => \A i \in DOMAIN kept :
              \E g \in DOMAIN slice : Matches(slice[g].text, kept[i].relates)
    BY <2>3 DEF FilterSignals, Restrict
  <2> HIDE DEF kept
  <2>5. IsFiniteSet(DOMAIN kept)
    BY <2>2, <2>4, FS_Subset
  <2>6. QED
    BY <2>1, <2>4, <2>5
<1>5. /\ DOMAIN signals \subseteq DOMAIN kept
      /\ \A i \in DOMAIN signals : signals[i] = Enrich(kept[i], slice)
  <2> HIDE DEF kept
  <2>1. QED
    OBVIOUS
<1> HIDE DEF kept, signals
<1>6. \/ block'.wants = {} /\ block'.notes = {}
      \/ /\ block'.wants = WantLines(slice, signals)
         /\ block'.signals = signals
         /\ block'.notes \subseteq DOMAIN signals
         /\ \E count \in 0..NoteLimit(cfg) :
               block'.notes = Notes(slice, signals, cfg.pressure, count)
  <2>1. CASE block' = NoLines
    BY <2>1 DEF NoLines
  <2>2. ASSUME NEW count,
               block' = [wants |-> WantLines(slice, signals), signals |-> signals,
                         notes |-> Notes(slice, signals, cfg.pressure, count)]
        PROVE  block'.notes \subseteq DOMAIN signals
    BY <2>2 DEF Notes, Ordinary
  <2>3. \/ block' = NoLines
        \/ \E count \in 0..NoteLimit(cfg) :
              block' = [wants |-> WantLines(slice, signals), signals |-> signals,
                        notes |-> Notes(slice, signals, cfg.pressure, count)]
    BY <1>3, Zenon DEF RenderBlock
  <2>4. QED
    BY <2>1, <2>2, <2>3
<1>7. QED
  BY <1>4, <1>5, <1>6

\* Notes name eligible goals only, and ages are measured.
LEMMA AnswerContained ==
    ASSUME AnswerInv, Answer
    PROVE  EchoContained' /\ MeasuredAges'
<1> DEFINE measured == {slice[g].days : g \in DOMAIN slice}
<1>1. UNCHANGED <<slice, cfg>>
  BY DEF Answer
<1>2. DOMAIN slice \subseteq Nat
  BY DEF AnswerInv, TypeOK
<1>3. CASE block'.wants = {} /\ block'.notes = {}
  BY <1>1, <1>3 DEF EchoContained, MeasuredAges
<1>4. ASSUME NEW kept, NEW signals,
             /\ block'.wants = WantLines(slice, signals)
             /\ block'.signals = signals
             /\ block'.notes \subseteq DOMAIN signals
             /\ DOMAIN signals \subseteq DOMAIN kept /\ DOMAIN kept \subseteq Nat
             /\ \A i \in DOMAIN signals : signals[i] = Enrich(kept[i], slice)
             /\ cfg.domains # {} => \A i \in DOMAIN kept :
                   \E g \in DOMAIN slice : Matches(slice[g].text, kept[i].relates)
      PROVE  EchoContained' /\ MeasuredAges'
  <2>1. \A i \in DOMAIN signals : signals[i].relates = kept[i].relates
    <3>1. \A i : Enrich(kept[i], slice).relates = kept[i].relates
      BY DEF Enrich
    <3>2. QED
      BY <1>4, <3>1
  <2>2. EchoContained'
    BY <1>1, <1>4, <2>1 DEF EchoContained, AnswerInv, SliceEligible
  <2>3. \A i \in DOMAIN signals, g \in DOMAIN slice :
          Matches(slice[g].text, signals[i].relates) => signals[i].days \in measured
    BY <1>2, <1>4, <2>1, EnrichMeasures
  <2>4. ASSUME NEW g \in DOMAIN slice PROVE WantLine(slice[g], signals).days \in measured
    <3> DEFINE goal == slice[g]
               voices == {i \in DOMAIN signals : Matches(goal.text, signals[i].relates)}
    <3>1. CASE voices = {}
      BY <3>1 DEF WantLine
    <3>2. CASE voices # {}
      <4>1. Min(voices) \in voices
        <5>1. voices \subseteq Nat
          BY <1>4
        <5>2. QED
          BY <3>2, <5>1, MinOfIds
      <4>2. WantLine(goal, signals).days = signals[Min(voices)].days
        BY <3>2 DEF WantLine
      <4>3. QED
        BY <2>3, <4>1, <4>2
    <3>3. QED
      BY <3>1, <3>2
  <2>5. \A line \in block'.wants : line.days \in measured
    BY <1>4, <2>4 DEF WantLines, Flagged
  <2>6. MeasuredAges'
    BY <1>1, <1>4, <2>3, <2>5 DEF MeasuredAges
  <2>7. QED
    BY <2>2, <2>6
<1>5. QED
  BY <1>3, <1>4, AnswerBlock

\* The invariant of the answers is preserved by every step.
LEMMA AnswerInvStep == AnswerInv /\ [Next]_vars => AnswerInv'
<1> SUFFICES ASSUME AnswerInv, [Next]_vars PROVE AnswerInv'
  OBVIOUS
<1>1. TypeOK'
  BY TypeStep DEF AnswerInv
<1>2. CASE UNCHANGED turnVars
  BY <1>1, <1>2 DEF AnswerInv, SliceEligible, EchoContained, MeasuredAges, turnVars
<1>3. CASE BeginTurn
  <2>1. PICK c \in Configs :
          cfg' = c /\ (slice' = FilterGoals(goals, c.domains) \/ slice' = EmptyTable)
    BY <1>3 DEF BeginTurn
  <2>2. SliceEligible'
    BY <2>1 DEF SliceEligible, FilterGoals, Restrict, EmptyTable
  <2>3. QED
    BY <1>1, <1>3, <2>2 DEF AnswerInv, EchoContained, MeasuredAges, BeginTurn
<1>4. CASE AppraisalFails
  BY <1>1, <1>4 DEF AnswerInv, SliceEligible, EchoContained, MeasuredAges, AppraisalFails
<1>5. CASE Answer
  BY <1>1, <1>5, AnswerContained DEF AnswerInv, SliceEligible, Answer
<1>6. QED
  BY <1>2, <1>3, <1>4, <1>5
     DEF Next, vars, AddGoal, UpdateGoal, SetStatus, Age, Write

\* The invariant of the answers holds initially.
LEMMA AnswerInvInit == Init => AnswerInv
<1> SUFFICES ASSUME Init PROVE AnswerInv
  OBVIOUS
<1>1. TypeOK
  BY IInvInit DEF IInv
<1>2. QED
  BY <1>1 DEF AnswerInv, SliceEligible, EchoContained, MeasuredAges, Init, EmptyTable

\* With a whitelist no note surfaces that names no eligible goal.
THEOREM EchoStaysOut == Spec => []EchoContained
<1>1. AnswerInv => EchoContained
  BY DEF AnswerInv
<1>2. QED
  BY <1>1, AnswerInvInit, AnswerInvStep, PTL DEF Spec

\* No line that names a persisted goal carries an age the model made up.
THEOREM AgesMeasured == Spec => []MeasuredAges
<1>1. AnswerInv => MeasuredAges
  BY DEF AnswerInv
<1>2. QED
  BY <1>1, AnswerInvInit, AnswerInvStep, PTL DEF Spec

-----------------------------------------------------------------------------
\* One step evicts no flagged goal but the one it unflags.
LEMMA FlaggedStep ==
    ASSUME TypeOK, [Next]_vars,
           NEW g \in DOMAIN goals \ DOMAIN goals', goals[g].flagged
    PROVE  UpdateGoal(g)
<1>1. CASE AddGoal
  <2>1. PICK row \in NewGoals :
          Write([h \in DOMAIN goals \cup {NextId} |-> IF h = NextId THEN row ELSE goals[h]])
    BY <1>1 DEF AddGoal
  <2>2. g # NextId
    BY NextIdType DEF TypeOK
  <2>3. QED
    BY <2>1, <2>2, CapKeeps DEF Write
<1>2. ASSUME NEW h \in DOMAIN goals, UpdateGoal(h) PROVE UpdateGoal(g)
  <2>1. PICK item \in NewGoals, present \in SUBSET UpdateFields :
          Write([goals EXCEPT ![h] = Merged(goals[h], item, present)])
    BY <1>2 DEF UpdateGoal
  <2>2. CASE h # g
    BY <2>1, <2>2, CapKeeps DEF Write
  <2>3. QED
    BY <1>2, <2>2
<1>3. ASSUME NEW h \in DOMAIN goals, SetStatus(h) PROVE FALSE
  <2>1. PICK status \in {"active", "candidate"} : Write([goals EXCEPT ![h].status = status])
    BY <1>3 DEF SetStatus
  <2>2. goals[h] \in Rows
    BY DEF TypeOK
  <2>3. [goals EXCEPT ![h].status = status][g].flagged
    BY <2>2 DEF Rows
  <2>4. QED
    BY <2>1, <2>3, CapKeeps DEF Write
<1>4. ASSUME NEW h \in DOMAIN goals, Age(h) PROVE FALSE
  BY <1>4 DEF Age
<1>5. CASE UNCHANGED goals
  BY <1>5
<1>6. QED
  BY <1>1, <1>2, <1>3, <1>4, <1>5
     DEF Next, vars, BeginTurn, AppraisalFails, Answer

\* The cap never costs a flagged goal.
THEOREM PrioritiesKept == Spec => FlaggedKept
<1>1. TypeOK /\ [Next]_vars =>
        [\A g \in DOMAIN goals \ DOMAIN goals' : goals[g].flagged => UpdateGoal(g)]_vars
  BY FlaggedStep
<1>2. QED
  BY <1>1, TypeCorrect, PTL DEF Spec, FlaggedKept

-----------------------------------------------------------------------------
(* The order of the notes.                                                   *)

\* What a rendered signal is: the model's confidence, an age that is a number or
\* none, and settings that are either none or a goal's.
Voiced ==
    [relates : SUBSET Words, conf : 0..Unit, days : Nat \cup {NoDays},
     push : BOOLEAN, threshold : Nat]

\* Enrichment makes a voiced signal of an answered one.
LEMMA EnrichType ==
    ASSUME NEW kept, \A g \in DOMAIN kept : g \in Nat /\ kept[g] \in Rows,
           NEW signal \in Signals
    PROVE  Enrich(signal, kept) \in Voiced
<1> DEFINE matching == {g \in DOMAIN kept : Matches(kept[g].text, signal.relates)}
<1> USE DriveAssumption DEF Signals, Voiced
<1>1. CASE matching = {}
  BY <1>1 DEF Enrich
<1>2. CASE matching # {}
  <2>1. Min(matching) \in matching
    BY <1>2, MinOfIds
  <2> DEFINE source == kept[Min(matching)]
  <2>2. source \in Rows
    BY <2>1
  <2>3. source.days \in Nat \cup {NoDays} /\ source.push \in BOOLEAN /\ source.threshold \in Nat
    BY <2>2 DEF Rows
  <2>4. Enrich(signal, kept) =
          [relates |-> signal.relates, conf |-> signal.conf, days |-> source.days,
           push |-> source.push, threshold |-> source.threshold]
    BY <1>2, <2>3 DEF Enrich
  <2> HIDE DEF source
  <2>5. QED
    BY <2>3, <2>4
<1>3. QED
  BY <1>1, <1>2

\* A confidence is at most one step of momentum, so no moving or unknown signal
\* outweighs a stalled one, and only a moving one of full confidence can match a
\* stalled one, of none and without support; only a stalled one can be authorized.
LEMMA SalienceBounds ==
    ASSUME NEW x \in Voiced, NEW pressure
    PROVE  /\ Salience(x, pressure) \in Int
           /\ x.days > 0 => /\ Salience(x, pressure) >= 2 * Unit
                            /\ x.conf > 0 \/ Authorized(x) => Salience(x, pressure) > 2 * Unit
           /\ ~(x.days > 0) => /\ Salience(x, pressure) <= 2 * Unit /\ ~Authorized(x)
                               /\ x.days # 0 \/ x.conf # Unit => Salience(x, pressure) < 2 * Unit
<1> DEFINE steps == MomentumRank(x) + (IF Authorized(x) THEN Bonus(pressure) ELSE 0)
<1>1. Unit \in Nat \ {0} /\ x.conf \in 0..Unit /\ x.days \in Int
  BY DriveAssumption DEF Voiced, NoDays
<1>2. Bonus(pressure) \in {5, 10, 15}
  BY DEF Bonus
<1>3. x.days > 0 => steps \in {2, 7, 12, 17} /\ (Authorized(x) => steps # 2)
  BY <1>2 DEF MomentumRank
<1>4. ~(x.days > 0) => /\ steps \in {0, 1} /\ ~Authorized(x)
                       /\ x.days # 0 => steps = 0
  BY <1>1 DEF MomentumRank, Authorized
<1>5. Salience(x, pressure) = Unit * steps + x.conf
  BY DEF Salience
<1> HIDE DEF steps
<1>6. QED
  BY <1>1, <1>3, <1>4, <1>5

\* Louder is asymmetric, and what is louder than another is louder than a third
\* or the third is louder than the other: a strict weak order.
LEMMA LouderOrder ==
    ASSUME NEW x \in Voiced, NEW y \in Voiced, NEW z \in Voiced, NEW pressure
    PROVE  /\ Louder(x, y, pressure) => ~Louder(y, x, pressure)
           /\ Louder(x, z, pressure) => Louder(x, y, pressure) \/ Louder(y, z, pressure)
<1>1. \A v \in Voiced : \A p : Salience(v, p) \in Int /\ v.days \in Int
  BY SalienceBounds DEF Voiced, NoDays
<1>2. CASE pressure = "firm"
  <2>1. \A v \in {x, y, z} : Authorized(v) \in BOOLEAN
    BY DEF Authorized, Voiced
  <2>2. FirmLouder(x, y) => ~FirmLouder(y, x)
    BY <1>1, <2>1 DEF FirmLouder
  <2>3. FirmLouder(x, z) => FirmLouder(x, y) \/ FirmLouder(y, z)
    BY <1>1, <2>1 DEF FirmLouder
  <2>4. QED
    BY <1>2, <2>2, <2>3 DEF Louder
<1>3. CASE pressure # "firm"
  BY <1>1, <1>3 DEF Louder
<1>4. QED
  BY <1>2, <1>3

\* What the order is for: stalled before moving and unknown under every pressure,
\* but for the tie, and authorized before the rest under firm.
LEMMA LouderMeans ==
    ASSUME NEW x \in Voiced, NEW y \in Voiced, NEW pressure
    PROVE  /\ x.days > 0 /\ ~(y.days > 0) => Louder(x, y, pressure) \/ Tied(y, x)
           /\ pressure = "firm" /\ Authorized(x) /\ ~Authorized(y) => Louder(x, y, pressure)
<1>1. Unit \in Nat
  BY DriveAssumption
<1>2. ASSUME x.days > 0, ~(y.days > 0), ~Tied(y, x) PROVE Louder(x, y, pressure)
  <2>1. \A p : Salience(x, p) > Salience(y, p)
    <3>1. (x.conf > 0 \/ Authorized(x)) \/ (y.days # 0 \/ y.conf # Unit)
      BY <1>1, <1>2 DEF Tied, Voiced
    <3>2. QED
      BY <1>1, <1>2, <3>1, SalienceBounds
  <2>2. Authorized(x) \in BOOLEAN /\ Authorized(y) = FALSE
    <3>1. ~Authorized(y)
      BY <1>2, SalienceBounds
    <3>2. Authorized(x) \in BOOLEAN /\ Authorized(y) \in BOOLEAN
      BY DEF Authorized, Voiced
    <3>3. QED
      BY <3>1, <3>2
  <2>3. FirmLouder(x, y)
    BY <2>1, <2>2 DEF FirmLouder
  <2>4. QED
    BY <2>1, <2>3 DEF Louder
<1>3. QED
  BY <1>2 DEF Louder, FirmLouder

\* The stable sort: a strict total order of the signals' positions.
LEMMA BeforeOrder ==
    ASSUME NEW signals, DOMAIN signals \subseteq Nat,
           \A i \in DOMAIN signals : signals[i] \in Voiced,
           NEW pressure,
           NEW i \in DOMAIN signals, NEW j \in DOMAIN signals, NEW k \in DOMAIN signals
    PROVE  /\ ~Before(signals, pressure, i, i)
           /\ i # j => Before(signals, pressure, i, j) \/ Before(signals, pressure, j, i)
           /\ Before(signals, pressure, i, j) /\ Before(signals, pressure, j, k)
                 => Before(signals, pressure, i, k)
<1> DEFINE L(m, n) == Louder(signals[m], signals[n], pressure)
<1>1. \A m, n, o \in DOMAIN signals : (L(m, n) => ~L(n, m)) /\ (L(m, o) => L(m, n) \/ L(n, o))
  BY LouderOrder
<1>2. \A m, n : Before(signals, pressure, m, n) <=> L(m, n) \/ (~L(n, m) /\ m < n)
  BY DEF Before
<1>3. i \in Nat /\ j \in Nat /\ k \in Nat
  OBVIOUS
<1> HIDE DEF L
<1>4. QED
  BY <1>1, <1>2, <1>3

\* At most as many notes as asked for: the number of signals before a note ranks
\* it below the count, and no two notes have the same rank.
LEMMA NotesBounded ==
    ASSUME NEW kept, NEW signals, DOMAIN signals \subseteq Nat, IsFiniteSet(DOMAIN signals),
           \A i \in DOMAIN signals : signals[i] \in Voiced,
           NEW pressure, NEW count \in Nat
    PROVE  LET notes == Notes(kept, signals, pressure, count) IN
           IsFiniteSet(notes) /\ Cardinality(notes) <= count
<1> DEFINE ordinary == Ordinary(kept, signals)
           earlier(i) == {j \in ordinary : Before(signals, pressure, j, i)}
           notes == Notes(kept, signals, pressure, count)
           rank == [i \in notes |-> Cardinality(earlier(i))]
<1>1. ordinary \subseteq DOMAIN signals /\ IsFiniteSet(ordinary)
  <2>1. ordinary \subseteq DOMAIN signals
    BY DEF Ordinary
  <2>2. QED
    BY <2>1, FS_Subset
<1>2. notes = {i \in ordinary : Cardinality(earlier(i)) < count}
  BY DEF Notes
<1> HIDE DEF ordinary, notes
<1>3. \A i \in ordinary : IsFiniteSet(earlier(i)) /\ Cardinality(earlier(i)) \in Nat
  <2>1. \A i : earlier(i) \in SUBSET ordinary
    OBVIOUS
  <2> HIDE DEF earlier
  <2>2. QED
    BY <1>1, <2>1, FS_Subset, FS_CardinalityType
<1>4. ASSUME NEW i \in notes, NEW j \in notes, Before(signals, pressure, i, j)
      PROVE  Cardinality(earlier(i)) < Cardinality(earlier(j))
  <2>1. i \in ordinary /\ j \in ordinary
    BY <1>2
  <2>2. earlier(i) \subseteq earlier(j)
    BY <1>1, <1>4, <2>1, BeforeOrder
  <2>3. i \in earlier(j) /\ i \notin earlier(i)
    BY <1>1, <1>4, <2>1, BeforeOrder
  <2> HIDE DEF earlier
  <2>4. Cardinality(earlier(i)) <= Cardinality(earlier(j))
    BY <1>3, <2>1, <2>2, FS_Subset
  <2>5. Cardinality(earlier(i)) # Cardinality(earlier(j))
    BY <1>3, <2>1, <2>2, <2>3, FS_Subset
  <2>6. QED
    BY <1>3, <2>1, <2>4, <2>5
<1>5. rank \in [notes -> 0..(count - 1)]
  <2>1. \A i \in notes : Cardinality(earlier(i)) \in 0..(count - 1)
    BY <1>2, <1>3
  <2> HIDE DEF earlier
  <2>2. QED
    BY <2>1
<1>6. \A i, j \in notes : rank[i] = rank[j] => i = j
  <2> SUFFICES ASSUME NEW i \in notes, NEW j \in notes, i # j PROVE rank[i] # rank[j]
    OBVIOUS
  <2>1. i \in DOMAIN signals /\ j \in DOMAIN signals
    BY <1>1, <1>2
  <2>2. Before(signals, pressure, i, j) \/ Before(signals, pressure, j, i)
    BY <2>1, BeforeOrder
  <2>3. Cardinality(earlier(i)) \in Nat /\ Cardinality(earlier(j)) \in Nat
    BY <1>2, <1>3
  <2>4. rank[i] = Cardinality(earlier(i)) /\ rank[j] = Cardinality(earlier(j))
    OBVIOUS
  <2> HIDE DEF earlier, rank
  <2>5. QED
    BY <1>4, <2>2, <2>3, <2>4
<1> HIDE DEF rank
<1>7. rank \in Injection(notes, 0..(count - 1))
  BY <1>5, <1>6 DEF Injection, IsInjective
<1>8. IsFiniteSet(0..(count - 1)) /\ Cardinality(0..(count - 1)) = count
  <2>1. count - 1 \in Int /\ 0 \in Int
    OBVIOUS
  <2>2. QED
    BY <2>1, FS_Interval
<1>9. QED
  BY <1>7, <1>8, FS_Injection DEF notes

\* A signal that comes before a note is a note.
LEMMA NotesLoudest ==
    ASSUME NEW kept, NEW signals, DOMAIN signals \subseteq Nat, IsFiniteSet(DOMAIN signals),
           \A i \in DOMAIN signals : signals[i] \in Voiced,
           NEW pressure, NEW count \in Nat,
           NEW i \in Notes(kept, signals, pressure, count),
           NEW j \in Ordinary(kept, signals), Before(signals, pressure, j, i)
    PROVE  j \in Notes(kept, signals, pressure, count)
<1> DEFINE ordinary == Ordinary(kept, signals)
           earlier(n) == {m \in ordinary : Before(signals, pressure, m, n)}
<1>1. ordinary \subseteq DOMAIN signals /\ IsFiniteSet(ordinary)
  <2>1. ordinary \subseteq DOMAIN signals
    BY DEF Ordinary
  <2>2. QED
    BY <2>1, FS_Subset
<1>2. i \in ordinary /\ Cardinality(earlier(i)) < count
  BY DEF Notes
<1>3. earlier(j) \subseteq earlier(i)
  BY <1>1, <1>2, BeforeOrder
<1>4. earlier(i) \subseteq ordinary
  OBVIOUS
<1>5. Cardinality(earlier(j)) < count
  <2> HIDE DEF earlier, ordinary
  <2>1. IsFiniteSet(earlier(i)) /\ Cardinality(earlier(j)) <= Cardinality(earlier(i))
    BY <1>1, <1>3, <1>4, FS_Subset
  <2>2. Cardinality(earlier(i)) \in Nat /\ Cardinality(earlier(j)) \in Nat
    BY <1>3, <2>1, FS_Subset, FS_CardinalityType
  <2>3. QED
    BY <1>2, <2>1, <2>2
<1>6. QED
  BY <1>5 DEF Notes

-----------------------------------------------------------------------------
\* The budget and the ceiling of the pressure bound what is asked for.
LEMMA NoteLimitBounds ==
    ASSUME NEW c \in Configs
    PROVE  /\ NoteLimit(c) \in Nat /\ NoteLimit(c) <= c.budget
           /\ c.pressure = "quiet" => NoteLimit(c) <= 1
<1>1. c.budget \in Nat
  BY DriveAssumption
<1>2. QED
  BY <1>1 DEF NoteLimit

\* An answer's notes are the loudest of the ordinary signals.
LEMMA AnswerLoudest ==
    ASSUME TypeOK, Answer
    PROVE  LoudestSurface'
<1>1. UNCHANGED <<slice, cfg>> /\ cfg \in Configs
  BY DEF Answer, TypeOK
<1>2. cfg.budget \in Nat
  BY <1>1, DriveAssumption
<1>3. CASE block'.notes = {}
  BY <1>1, <1>2, <1>3, FS_EmptySet DEF LoudestSurface
<1>4. ASSUME NEW kept, NEW signals, NEW count \in 0..NoteLimit(cfg),
             block'.signals = signals,
             block'.notes = Notes(slice, signals, cfg.pressure, count),
             DOMAIN signals \subseteq DOMAIN kept, DOMAIN kept \subseteq Nat,
             IsFiniteSet(DOMAIN kept), \A i \in DOMAIN kept : kept[i] \in Signals,
             \A i \in DOMAIN signals : signals[i] = Enrich(kept[i], slice)
      PROVE  LoudestSurface'
  <2>1. DOMAIN signals \subseteq Nat /\ IsFiniteSet(DOMAIN signals)
    BY <1>4, FS_Subset
  <2>2. \A i \in DOMAIN signals : signals[i] \in Voiced
    <3>1. \A g \in DOMAIN slice : g \in Nat /\ slice[g] \in Rows
      BY DEF TypeOK
    <3>2. QED
      BY <1>4, <3>1, EnrichType
  <2>3. count \in Nat /\ count <= cfg.budget /\ (cfg.pressure = "quiet" => count <= 1)
    BY <1>1, <1>2, NoteLimitBounds
  <2>4. Cardinality(block'.notes) <= count /\ Cardinality(block'.notes) \in Nat
    BY <1>4, <2>1, <2>2, <2>3, NotesBounded, FS_CardinalityType
  <2>5. ASSUME NEW i \in block'.notes,
               NEW j \in Ordinary(slice, signals) \ block'.notes
        PROVE  ~Louder(signals[j], signals[i], cfg.pressure)
    <3>1. ~Before(signals, cfg.pressure, j, i)
      BY <1>4, <2>1, <2>2, <2>3, <2>5, NotesLoudest
    <3>2. QED
      BY <3>1 DEF Before
  <2>6. ASSUME NEW i \in block'.notes,
               NEW j \in Ordinary(slice, signals) \ block'.notes
        PROVE  /\ signals[j].days > 0 => signals[i].days > 0 \/ Tied(signals[i], signals[j])
               /\ cfg.pressure = "firm" /\ Authorized(signals[j]) => Authorized(signals[i])
    <3>1. signals[i] \in Voiced /\ signals[j] \in Voiced
      BY <1>4, <2>2, <2>6 DEF Notes, Ordinary
    <3>2. QED
      BY <2>5, <3>1, LouderMeans
  <2>7. Cardinality(block'.notes) <= cfg.budget
        /\ (cfg.pressure = "quiet" => Cardinality(block'.notes) <= 1)
    BY <1>2, <2>3, <2>4
  <2>8. QED
    BY <1>1, <1>4, <2>6, <2>7 DEF LoudestSurface
<1>5. QED
  BY <1>3, <1>4, AnswerBlock

\* What is left out is never more pressing than what is shown, for any signals,
\* goals and settings, but for the tie at confidence 0.0, and the budget holds.
THEOREM LoudestShown == Spec => []LoudestSurface
<1>1. Init => LoudestSurface
  BY DEF Init, LoudestSurface
<1>2. TypeOK /\ LoudestSurface /\ [Next]_vars => LoudestSurface'
  <2> SUFFICES ASSUME TypeOK, LoudestSurface, [Next]_vars PROVE LoudestSurface'
    OBVIOUS
  <2>1. CASE UNCHANGED turnVars
    BY <2>1 DEF LoudestSurface, turnVars
  <2>2. CASE BeginTurn \/ AppraisalFails
    BY <2>2 DEF BeginTurn, AppraisalFails, LoudestSurface
  <2>3. CASE Answer
    BY <2>3, AnswerLoudest
  <2>4. QED
    BY <2>1, <2>2, <2>3 DEF Next, vars, AddGoal, UpdateGoal, SetStatus, Age, Write
<1>3. QED
  BY <1>1, <1>2, TypeCorrect, PTL DEF Spec

-----------------------------------------------------------------------------
\* The turn owes a line to exactly the flagged goals of its slice.
DueIsFlagged == due = {slice[g] : g \in Flagged(slice)}

\* No rendered signal's words contain the texts of two goals of the slice.
ClearSignals ==
    \A i \in DOMAIN block.signals : \A g, h \in DOMAIN slice :
        /\ Matches(slice[g].text, block.signals[i].relates)
        /\ Matches(slice[h].text, block.signals[i].relates)
        => g = h

ComplacentOnlyIfConfused == ClearSignals => NeverComplacent

\* A signal that matches one goal only is enriched with that goal's settings.
LEMMA EnrichLends ==
    ASSUME NEW kept, DOMAIN kept \subseteq Nat, NEW signal, NEW g \in DOMAIN kept,
           kept[g].push \in BOOLEAN,
           \A h \in DOMAIN kept : Matches(kept[h].text, signal.relates) <=> h = g
    PROVE  Authorized(Enrich(signal, kept)) = Authorized(kept[g])
<1> DEFINE matching == {h \in DOMAIN kept : Matches(kept[h].text, signal.relates)}
<1>1. matching = {g} /\ matching \subseteq Nat
  OBVIOUS
<1>2. Min(matching) = g
  BY <1>1, MinOfIds
<1>3. Enrich(signal, kept) =
        [relates |-> signal.relates, conf |-> signal.conf, days |-> kept[g].days,
         push |-> kept[g].push, threshold |-> kept[g].threshold]
  BY <1>1, <1>2 DEF Enrich
<1>4. QED
  BY <1>3 DEF Authorized

\* Then a flagged goal's line says what the goal's own settings say.
LEMMA WantSupports ==
    ASSUME NEW kept, DOMAIN kept \subseteq Nat, NEW signals, DOMAIN signals \subseteq Nat,
           NEW answered, \A i \in DOMAIN signals : signals[i] = Enrich(answered[i], kept),
           NEW g \in DOMAIN kept, kept[g].push \in BOOLEAN, Authorized(kept[g]),
           \A i \in DOMAIN signals : \A h \in DOMAIN kept :
              /\ Matches(kept[g].text, signals[i].relates)
              /\ Matches(kept[h].text, signals[i].relates)
              => h = g
    PROVE  LET line == WantLine(kept[g], signals) IN
           kept[g].text \subseteq line.text /\ line.support
<1> DEFINE goal == kept[g]
           voices == {i \in DOMAIN signals : Matches(goal.text, signals[i].relates)}
           voice == signals[Min(voices)]
<1>1. CASE voices = {}
  BY <1>1 DEF WantLine
<1>2. CASE voices # {}
  <2>1. Min(voices) \in voices
    BY <1>2, MinOfIds
  <2>2. WantLine(goal, signals)
          = [text |-> voice.relates, days |-> voice.days, support |-> Authorized(voice)]
    BY <1>2 DEF WantLine
  <2>3. voice = Enrich(answered[Min(voices)], kept)
        /\ voice.relates = answered[Min(voices)].relates
    <3>1. \A s : Enrich(s, kept).relates = s.relates
      BY DEF Enrich
    <3>2. Min(voices) \in DOMAIN signals
      BY <2>1
    <3> HIDE DEF voices
    <3>3. QED
      BY <3>1, <3>2
  <2>4. \A h \in DOMAIN kept : Matches(kept[h].text, voice.relates) <=> h = g
    BY <2>1
  <2>5. Authorized(voice) = Authorized(goal)
    BY <2>3, <2>4, EnrichLends
  <2>6. goal.text \subseteq voice.relates
    BY <2>1 DEF Matches
  <2> HIDE DEF voice, goal
  <2>7. QED
    BY <2>2, <2>5, <2>6 DEF goal
<1>3. QED
  BY <1>1, <1>2

\* An answer without confusion keeps every authorized support clause.
LEMMA AnswerSupports ==
    ASSUME TypeOK, DueIsFlagged, OwedIsKept, Answer
    PROVE  ComplacentOnlyIfConfused'
<1> SUFFICES ASSUME ClearSignals', NEW row \in due, Authorized(row),
                    \A other \in due : other.text = row.text => other = row
             PROVE  \E line \in block'.wants : row.text \subseteq line.text /\ line.support
  BY DEF ComplacentOnlyIfConfused, NeverComplacent, Answer
<1>1. UNCHANGED slice
  BY DEF Answer
<1>2. DOMAIN slice \subseteq Nat /\ \A g \in DOMAIN slice : slice[g] \in Rows
  BY DEF TypeOK
<1>3. block'.wants # {}
  BY AnswerVoices DEF NeverOmitted, Answer
<1>4. PICK kept, signals :
        /\ block'.wants = WantLines(slice, signals)
        /\ block'.signals = signals
        /\ DOMAIN signals \subseteq DOMAIN kept /\ DOMAIN kept \subseteq Nat
        /\ \A i \in DOMAIN signals : signals[i] = Enrich(kept[i], slice)
  BY <1>3, AnswerBlock
<1> DEFINE same == {h \in Flagged(slice) : slice[h].text = row.text}
           first == Min(same)
<1>5. same # {} /\ same \subseteq Nat
  BY <1>2 DEF DueIsFlagged, Flagged
<1>6. first \in same /\ \A h \in same : first <= h
  BY <1>5, MinOfIds
<1> HIDE DEF first
<1>7. first \in DOMAIN slice /\ first \in Flagged(slice) /\ slice[first] = row
  BY <1>6 DEF DueIsFlagged, Flagged
<1>8. WantLine(slice[first], signals) \in WantLines(slice, signals)
  BY <1>6, <1>7 DEF WantLines
<1>9. slice[first].push \in BOOLEAN
  BY <1>2, <1>7 DEF Rows
<1>10. \A i \in DOMAIN signals : \A h \in DOMAIN slice :
          /\ Matches(slice[first].text, signals[i].relates)
          /\ Matches(slice[h].text, signals[i].relates)
          => h = first
  BY <1>1, <1>4, <1>7 DEF ClearSignals
<1>11. DOMAIN signals \subseteq Nat
  BY <1>4
<1>12. slice[first].text \subseteq WantLine(slice[first], signals).text
       /\ WantLine(slice[first], signals).support
  BY <1>2, <1>4, <1>7, <1>9, <1>10, <1>11, WantSupports
<1>13. QED
  BY <1>4, <1>7, <1>8, <1>12

\* "A stalled user-authorized push goal must never be quietly rendered as low
\* pressure" holds but for one cause: a signal whose words contain the texts of two
\* goals, of which the first lends its settings to the other's line.
THEOREM ComplacencyNeedsConfusion == Spec => []ComplacentOnlyIfConfused
<1>1. Init => DueIsFlagged /\ ComplacentOnlyIfConfused
  BY DEF Init, DueIsFlagged, Flagged, EmptyTable, ComplacentOnlyIfConfused, NeverComplacent
<1>2. DueIsFlagged /\ [Next]_vars => DueIsFlagged'
  <2> SUFFICES ASSUME DueIsFlagged, [Next]_vars PROVE DueIsFlagged'
    OBVIOUS
  <2>1. CASE UNCHANGED <<slice, due>>
    BY <2>1 DEF DueIsFlagged, Flagged
  <2>2. CASE BeginTurn
    <3>1. PICK c \in Configs :
            \/ /\ slice' = FilterGoals(goals, c.domains)
               /\ due' = {goals[g] : g \in {g \in DOMAIN goals :
                             goals[g].status = "active" /\ goals[g].flagged}}
            \/ slice' = EmptyTable /\ due' = {}
      BY <2>2 DEF BeginTurn
    <3>2. CASE slice' = EmptyTable /\ due' = {}
      BY <3>2 DEF DueIsFlagged, Flagged, EmptyTable
    <3>3. CASE /\ slice' = FilterGoals(goals, c.domains)
               /\ due' = {goals[g] : g \in {g \in DOMAIN goals :
                             goals[g].status = "active" /\ goals[g].flagged}}
      <4>1. Flagged(slice') = {g \in DOMAIN goals :
                                 goals[g].status = "active" /\ goals[g].flagged}
        BY <3>3 DEF Flagged, FilterGoals, Restrict
      <4>2. \A g \in Flagged(slice') : slice'[g] = goals[g]
        BY <3>3 DEF Flagged, FilterGoals, Restrict
      <4>3. QED
        BY <3>3, <4>1, <4>2 DEF DueIsFlagged
    <3>4. QED
      BY <3>1, <3>2, <3>3
  <2>3. QED
    BY <2>1, <2>2
       DEF Next, vars, turnVars, AddGoal, UpdateGoal, SetStatus, Age, Write, AppraisalFails,
           Answer
<1>3. IInv /\ DueIsFlagged /\ ComplacentOnlyIfConfused /\ [Next]_vars
        => ComplacentOnlyIfConfused'
  <2> SUFFICES ASSUME IInv, DueIsFlagged, ComplacentOnlyIfConfused, [Next]_vars
               PROVE  ComplacentOnlyIfConfused'
    OBVIOUS
  <2>1. CASE UNCHANGED turnVars
    BY <2>1 DEF ComplacentOnlyIfConfused, ClearSignals, NeverComplacent, turnVars
  <2>2. CASE BeginTurn \/ AppraisalFails
    BY <2>2 DEF BeginTurn, AppraisalFails, ComplacentOnlyIfConfused, NeverComplacent
  <2>3. CASE Answer
    BY <2>3, AnswerSupports DEF IInv
  <2>4. QED
    BY <2>1, <2>2, <2>3 DEF Next, vars, AddGoal, UpdateGoal, SetStatus, Age, Write
<1>4. QED
  BY <1>1, <1>2, <1>3, IInvInit, IInvStep, PTL DEF Spec
=============================================================================
