--------------------------- MODULE ConcernsProofs ---------------------------
(***************************************************************************)
(* For every cap, every law of fading and every answer, and any number of  *)
(* passes that overlap: the tables keep their types and caps, a            *)
(* contradiction's id is never assigned twice, and a commit deletes only   *)
(* what has faded and respects MAX_DELTA, but for the rows that other      *)
(* passes have written since it read them.                                 *)
(***************************************************************************)
EXTENDS Concerns, WellFoundedInduction, FiniteSetTheorems, TLAPS

-----------------------------------------------------------------------------
\* A clamped value lies in its range.
LEMMA ClampRange ==
    ASSUME NEW value \in Int, NEW low \in Int, NEW high \in Int, low <= high
    PROVE  Clamp(value, low, high) \in low..high
  BY DEF Clamp

\* Clamping the sum to a range the old value lies in moves it no further than
\* the delta does.
LEMMA ClampStep ==
    ASSUME NEW old \in Weights, NEW delta \in (-MaxDelta)..MaxDelta
    PROVE  /\ Clamp(old + delta, 0, MaxWeight) \in Weights
           /\ Clamp(old + delta, 0, MaxWeight) - old \in (-MaxDelta)..MaxDelta
  BY ConcernsAssumption DEF Clamp, Weights

\* What the model asks for is bounded by MAX_DELTA.
LEMMA CoerceRange ==
    ASSUME NEW raw \in Int
    PROVE  CoerceDelta(raw) \in (-MaxDelta)..MaxDelta
<1>1. -MaxDelta \in Int /\ MaxDelta \in Int /\ -MaxDelta <= MaxDelta
  BY ConcernsAssumption
<1>2. QED
  BY <1>1, ClampRange DEF CoerceDelta

\* The elements of a sequence.
LEMMA Element ==
    ASSUME NEW S, NEW list \in Seq(S), NEW i \in DOMAIN list
    PROVE  list[i] \in S
  OBVIOUS

\* The absolute weights of a write: for rows read, near what was read.
LEMMA AdjustedNear ==
    ASSUME NEW list \in Seq([name : Int, delta : Int]),
           NEW base, IsTable(base, Ids, Rows),
           NEW u \in Adjusted(list, base)
    PROVE  /\ u \in [id : Ids, weight : Weights]
           /\ u.id \in DOMAIN base
           /\ u.weight - base[u.id].weight \in (-MaxDelta)..MaxDelta
<1>1. PICK i \in DOMAIN list :
        /\ list[i].name \in DOMAIN base
        /\ u = [id |-> list[i].name,
                weight |-> Clamp(base[list[i].name].weight + CoerceDelta(list[i].delta),
                                 0, MaxWeight)]
  BY DEF Adjusted, Prevailing
<1>2. list[i] \in [name : Int, delta : Int]
  BY Element
<1>3. base[list[i].name].weight \in Weights /\ list[i].name \in Ids
  BY <1>1 DEF IsTable, Rows
<1>4. CoerceDelta(list[i].delta) \in (-MaxDelta)..MaxDelta
  BY <1>2, CoerceRange
<1>5. QED
  BY <1>1, <1>3, <1>4, ClampStep

\* The absolute scores of a write, near what was read or the baseline.
LEMMA ScoredNear ==
    ASSUME NEW list \in Seq([name : Keys, delta : Int]),
           NEW scores, IsTable(scores, Keys, Weights),
           NEW s \in Scored(list, scores)
    PROVE  /\ s \in [key : Keys, value : Weights]
           /\ s.value - ScoreRead(scores, s.key) \in (-MaxDelta)..MaxDelta
<1>1. PICK i \in DOMAIN list :
        s = [key |-> list[i].name,
             value |-> Clamp(ScoreRead(scores, list[i].name) + CoerceDelta(list[i].delta),
                             0, MaxWeight)]
  BY DEF Scored, Prevailing
<1>2. list[i] \in [name : Keys, delta : Int]
  BY Element
<1>3. ScoreRead(scores, list[i].name) \in Weights
  BY ConcernsAssumption DEF IsTable, ScoreRead
<1>4. CoerceDelta(list[i].delta) \in (-MaxDelta)..MaxDelta
  BY <1>2, CoerceRange
<1>5. QED
  BY <1>1, <1>2, <1>3, <1>4, ClampStep

\* The new concerns of a write are weights.
LEMMA AddedType ==
    ASSUME NEW new \in Seq(Int)
    PROVE  LET add == [i \in DOMAIN new |-> Clamp(new[i], 0, MaxWeight)] IN
           add \in Seq(Weights) /\ Len(add) = Len(new)
<1> DEFINE add == [i \in DOMAIN new |-> Clamp(new[i], 0, MaxWeight)]
<1>1. Len(new) \in Nat /\ DOMAIN new = 1..Len(new)
  OBVIOUS
<1>2. \A i \in 1..Len(new) : Clamp(new[i], 0, MaxWeight) \in Weights
  <2>1. SUFFICES ASSUME NEW i \in 1..Len(new) PROVE Clamp(new[i], 0, MaxWeight) \in Weights
    OBVIOUS
  <2>2. new[i] \in Int /\ 0 \in Int /\ MaxWeight \in Int /\ 0 <= MaxWeight
    BY <1>1, ConcernsAssumption
  <2>3. QED
    BY <2>2, ClampRange DEF Weights
<1>3. add \in [1..Len(new) -> Weights]
  BY <1>1, <1>2
<1>4. QED
  BY <1>1, <1>3

\* What a pass composes is a write.
LEMMA ComposeType ==
    ASSUME NEW a \in Answers,
           NEW base, IsTable(base, Ids, Rows),
           NEW open, IsTable(open, Disputes, BOOLEAN),
           NEW scores, IsTable(scores, Keys, Weights)
    PROVE  Compose(a, base, open, scores) \in Writes
<1> DEFINE add == [i \in DOMAIN a.new |-> Clamp(a.new[i], 0, MaxWeight)]
           update == Adjusted(a.adjust, base)
           resolve == a.resolve \cap DOMAIN base
           prune == Prunable(base, IdsOf(update) \cup resolve)
           score == Scored(a.trust, scores)
<1>1. add \in Seq(Weights)
  BY AnswersAssumption, AddedType
<1>2. update \subseteq [id : Ids, weight : Weights]
  BY AnswersAssumption, AdjustedNear
<1>3. score \subseteq [key : Keys, value : Weights]
  BY AnswersAssumption, ScoredNear
<1>4. resolve \subseteq Ids /\ prune \subseteq Ids
  BY DEF IsTable, Prunable
<1>5. a.found \in Nat /\ a.settle \cap DOMAIN open \subseteq Disputes
  BY AnswersAssumption DEF IsTable
<1>6. Compose(a, base, open, scores) =
        [add |-> add, update |-> update, resolve |-> resolve, prune |-> prune,
         found |-> a.found, settle |-> a.settle \cap DOMAIN open, score |-> score]
  BY DEF Compose
<1> HIDE DEF add, update, resolve, prune, score
<1>7. QED
  BY <1>1, <1>2, <1>3, <1>4, <1>5, <1>6 DEF Writes

\* The empty table is a table of anything.
LEMMA EmptyIsTable ==
    ASSUME NEW keys, NEW values
    PROVE  IsTable(EmptyTable, keys, values)
  BY DEF IsTable, EmptyTable

-----------------------------------------------------------------------------
\* Ids are numbers, so every set of them that is not empty has a least one.
LEMMA LeastId ==
    ASSUME NEW S \in SUBSET Nat, S # {}
    PROVE  \E least \in S : \A i \in S : least <= i
<1>1. PICK least \in S : \A i \in S : ~(<<i, least>> \in OpToRel(<, Nat))
  BY WFMin, NatLessThanWellFounded
<1>2. \A i \in S : least <= i
  <2>1. SUFFICES ASSUME NEW i \in S PROVE least <= i
    OBVIOUS
  <2>2. i \in Nat /\ least \in Nat
    OBVIOUS
  <2>3. ~(i < least)
    BY <1>1, <2>2 DEF OpToRel
  <2>4. QED
    BY <2>2, <2>3
<1>3. QED
  BY <1>2

\* The cap keeps at most n ids: the ids above the least of them are fewer.
LEMMA CapBounds ==
    ASSUME NEW N \in Nat, NEW ids \in SUBSET (1..N), NEW n \in Nat
    PROVE  Cardinality(Newest(ids, n)) <= n /\ Newest(ids, n) \subseteq ids
<1> DEFINE newer(i) == {j \in ids : j > i}
           kept == {i \in ids : Cardinality(newer(i)) < n}
<1>1. Newest(ids, n) = kept /\ kept \subseteq ids
  BY DEF Newest
<1>2. IsFiniteSet(ids) /\ IsFiniteSet(kept)
  <2> HIDE DEF kept
  <2>1. IsFiniteSet(1..N)
    BY FS_Interval
  <2>2. QED
    BY <1>1, <2>1, FS_Subset
<1>3. CASE kept = {}
  <2> HIDE DEF kept
  <2>1. QED
    BY <1>1, <1>3, FS_EmptySet
<1>4. CASE kept # {}
  <2>1. PICK least \in kept : \A i \in kept : least <= i
    <3> HIDE DEF kept
    <3>1. kept \in SUBSET Nat
      BY <1>1
    <3>2. QED
      BY <1>4, <3>1, LeastId
  <2>2. Cardinality(newer(least)) < n /\ IsFiniteSet(newer(least))
    BY <1>2, <2>1, FS_Subset
  <2>3. kept \ {least} \subseteq newer(least)
    <3>1. SUFFICES ASSUME NEW i \in kept, i # least PROVE i \in newer(least)
      OBVIOUS
    <3>2. i \in ids /\ i \in Nat /\ least \in Nat /\ least <= i
      BY <1>1, <2>1
    <3>3. QED
      BY <3>1, <3>2
  <2> HIDE DEF kept, newer
  <2>4. Cardinality(kept \ {least}) = Cardinality(kept) - 1
    BY <1>2, <2>1, FS_RemoveElement
  <2>5. Cardinality(kept \ {least}) <= Cardinality(newer(least))
    BY <2>2, <2>3, FS_Subset
  <2>6. Cardinality(kept) \in Nat /\ Cardinality(newer(least)) \in Nat
    BY <1>2, <2>2, FS_CardinalityType
  <2>7. QED
    BY <1>1, <2>2, <2>4, <2>5, <2>6
<1>5. QED
  BY <1>3, <1>4

\* The least capacity keeps the highest id.
LEMMA CapKeepsTop ==
    ASSUME NEW N \in Nat, NEW ids \in SUBSET (1..N), NEW n \in Nat \ {0},
           NEW top \in ids, \A i \in ids : i <= top
    PROVE  top \in Newest(ids, n)
<1>1. {j \in ids : j > top} = {}
  <2>1. SUFFICES ASSUME NEW j \in ids PROVE ~(j > top)
    OBVIOUS
  <2>2. j \in Nat /\ top \in Nat /\ j <= top
    OBVIOUS
  <2>3. QED
    BY <2>2
<1>2. Cardinality({j \in ids : j > top}) < n
  BY <1>1, FS_EmptySet
<1>3. QED
  BY <1>2 DEF Newest

-----------------------------------------------------------------------------
\* Every variable starts in its type.
LEMMA TypeInit == Init => TypeOK
<1> SUFFICES ASSUME Init PROVE TypeOK
  OBVIOUS
<1>1. /\ IsTable(concerns, Ids, Rows)
      /\ IsTable(contradictions, Disputes, BOOLEAN)
      /\ IsTable(trust, Keys, Weights)
  BY EmptyIsTable DEF Init
<1>2. /\ Cardinality(DOMAIN concerns) = 0
      /\ Cardinality(DOMAIN contradictions) = 0
      /\ Cardinality(DOMAIN trust) = 0
  BY FS_EmptySet DEF Init, EmptyTable
<1>3. NoWrite \in Writes
  BY DEF NoWrite, Writes
<1>4. ASSUME NEW p \in Passes
      PROVE  IsTable(rows[p], Ids, Rows) /\ IsTable(disputes[p], Disputes, BOOLEAN)
  BY EmptyIsTable DEF Init
<1>5. QED
  BY <1>1, <1>2, <1>3, <1>4, ConcernsAssumption DEF Init, TypeOK

\* The concerns after a write are a table within its cap.
LEMMA ConcernsAfterType ==
    ASSUME TypeOK, NEW w \in Writes, NEW top \in 0..MaxId,
           IsTop(concerns, top), top + Len(w.add) <= MaxId
    PROVE  /\ IsTable(ConcernsAfter(w, top), Ids, Rows)
           /\ Cardinality(DOMAIN ConcernsAfter(w, top)) <= ConcernCap
<1> USE ConcernsAssumption
<1> DEFINE all == DOMAIN concerns \cup (top + 1)..(top + Len(w.add))
           row(i) == IF i > top THEN [weight |-> w.add[i - top], idle |-> 0] ELSE concerns[i]
           updated(i) == IF \E u \in w.update : u.id = i
                         THEN [weight |-> (CHOOSE u \in w.update : u.id = i).weight, idle |-> 0]
                         ELSE row(i)
           resolved(i) == IF i \in w.resolve THEN [updated(i) EXCEPT !.idle = 0]
                                             ELSE updated(i)
           kept == Newest(all \ w.prune, ConcernCap)
<1>1. w.add \in Seq(Weights) /\ Len(w.add) \in Nat /\ DOMAIN w.add = 1..Len(w.add)
  BY DEF Writes
<1>2. all \in SUBSET (1..MaxId) /\ all \ w.prune \in SUBSET (1..MaxId)
  BY <1>1 DEF TypeOK, IsTable, Ids
<1>3. ConcernsAfter(w, top) = [i \in kept |-> resolved(i)]
  BY DEF ConcernsAfter
<1>4. kept \subseteq all /\ Cardinality(kept) <= ConcernCap
  <2> DEFINE rest == all \ w.prune
  <2>1. rest \in SUBSET (1..MaxId) /\ rest \subseteq all
    BY <1>2
  <2> HIDE DEF all, rest
  <2>2. Cardinality(Newest(rest, ConcernCap)) <= ConcernCap /\ Newest(rest, ConcernCap) \subseteq rest
    BY <2>1, CapBounds
  <2>3. kept = Newest(rest, ConcernCap)
    BY DEF rest
  <2> HIDE DEF kept
  <2>4. QED
    BY <2>1, <2>2, <2>3
<1>5. \A i \in all : row(i) \in Rows
  <2>1. SUFFICES ASSUME NEW i \in all PROVE row(i) \in Rows
    OBVIOUS
  <2>2. CASE i > top
    <3>1. i - top \in DOMAIN w.add
      BY <1>1, <1>2, <2>2 DEF IsTop, TypeOK, IsTable, Ids
    <3>2. w.add[i - top] \in Weights
      BY <1>1, <3>1, Element
    <3>3. QED
      BY <2>2, <3>2 DEF Rows
  <2>3. CASE ~(i > top)
    <3>1. i \in DOMAIN concerns
      BY <1>1, <2>3
    <3>2. QED
      BY <2>3, <3>1 DEF TypeOK, IsTable
  <2>4. QED
    BY <2>2, <2>3
<1> HIDE DEF row, all
<1>6. \A i \in all : updated(i) \in Rows
  <2>1. SUFFICES ASSUME NEW i \in all PROVE updated(i) \in Rows
    OBVIOUS
  <2>2. ASSUME \E u \in w.update : u.id = i
        PROVE  (CHOOSE u \in w.update : u.id = i).weight \in Weights
    BY <2>2 DEF Writes
  <2>3. QED
    BY <1>5, <2>2 DEF Rows
<1> HIDE DEF updated
<1>7. \A i \in all : resolved(i) \in Rows
  BY <1>6 DEF Rows
<1> HIDE DEF resolved, kept
<1>8. QED
  BY <1>2, <1>3, <1>4, <1>7 DEF IsTable, Ids

\* So are the contradictions.
LEMMA ContradictionsAfterType ==
    ASSUME TypeOK, NEW w \in Writes, NEW last \in 0..MaxDispute,
           IsTop(contradictions, last), last + w.found <= MaxDispute
    PROVE  /\ IsTable(ContradictionsAfter(w, last), Disputes, BOOLEAN)
           /\ Cardinality(DOMAIN ContradictionsAfter(w, last)) <= ContradictionCap
<1> USE ConcernsAssumption
<1> DEFINE all == DOMAIN contradictions \cup (last + 1)..(last + w.found)
           kept == Newest(all, ContradictionCap)
           settled(i) == i \in w.settle \/ (i <= last /\ contradictions[i])
<1>1. w.found \in Nat
  BY DEF Writes
<1>2. all \in SUBSET (1..MaxDispute)
  BY <1>1 DEF TypeOK, IsTable, Disputes
<1>3. ContradictionsAfter(w, last) = [i \in kept |-> settled(i)]
  BY DEF ContradictionsAfter
<1>4. kept \subseteq all /\ Cardinality(kept) <= ContradictionCap
  <2> HIDE DEF all
  <2>1. QED
    BY <1>2, CapBounds
<1>5. \A i \in kept : settled(i) \in BOOLEAN
  OBVIOUS
<1> HIDE DEF settled, kept, all
<1>6. QED
  BY <1>2, <1>3, <1>4, <1>5 DEF IsTable, Disputes

\* And the trust scores.
LEMMA TrustAfterType ==
    ASSUME TypeOK, NEW w \in Writes, NEW kept \in KeptKeys(w)
    PROVE  /\ IsTable(TrustAfter(w, kept), Keys, Weights)
           /\ Cardinality(DOMAIN TrustAfter(w, kept)) <= TrustCap
<1> DEFINE written == KeysNamed(w)
           score(k) == IF \E s \in w.score : s.key = k
                       THEN (CHOOSE s \in w.score : s.key = k).value ELSE trust[k]
<1>1. TrustAfter(w, kept) = [k \in kept |-> score(k)]
  BY DEF TrustAfter
<1>2. kept \subseteq written \cup DOMAIN trust /\ written \subseteq Keys
  BY DEF KeptKeys, KeysNamed, Writes
<1>3. Cardinality(kept) <= TrustCap
  <2> DEFINE all == written \cup DOMAIN trust
  <2>1. IF Cardinality(all) <= TrustCap THEN kept = all ELSE Cardinality(kept) = TrustCap
    BY DEF KeptKeys
  <2> HIDE DEF all
  <2>2. QED
    BY <2>1, ConcernsAssumption
<1>4. \A k \in kept : score(k) \in Weights
  <2>1. SUFFICES ASSUME NEW k \in kept PROVE score(k) \in Weights
    OBVIOUS
  <2>2. CASE \E s \in w.score : s.key = k
    BY <2>2 DEF Writes
  <2>3. CASE ~(\E s \in w.score : s.key = k)
    <3>1. k \in DOMAIN trust
      BY <1>2, <2>3 DEF KeysNamed
    <3>2. QED
      BY <2>3, <3>1 DEF TypeOK, IsTable
  <2>4. QED
    BY <2>2, <2>3
<1> HIDE DEF score
<1>5. kept \subseteq Keys
  BY <1>2 DEF TypeOK, IsTable
<1>6. QED
  BY <1>1, <1>3, <1>4, <1>5 DEF IsTable

\* Every step keeps every variable in its type.
LEMMA TypeStep == TypeOK /\ [Next]_vars => TypeOK'
<1> SUFFICES ASSUME TypeOK, [Next]_vars PROVE TypeOK'
  OBVIOUS
<1> USE DEF db, view, history
<1>1. ASSUME NEW p \in Passes, ReadConcerns(p) PROVE TypeOK'
  <2>1. DOMAIN rows' = Passes /\ \A q \in Passes : IsTable(rows'[q], Ids, Rows)
    BY <1>1 DEF ReadConcerns, TypeOK
  <2>2. pc' \in [Passes -> {"idle", "contradictions", "trust", "commit"}]
    BY <1>1 DEF ReadConcerns, TypeOK
  <2>3. QED
    BY <1>1, <2>1, <2>2 DEF ReadConcerns, TypeOK
<1>2. ASSUME NEW p \in Passes, ReadContradictions(p) PROVE TypeOK'
  <2>1. /\ DOMAIN disputes' = Passes
        /\ \A q \in Passes : IsTable(disputes'[q], Disputes, BOOLEAN)
    BY <1>2 DEF ReadContradictions, TypeOK
  <2>2. pc' \in [Passes -> {"idle", "contradictions", "trust", "commit"}]
    BY <1>2 DEF ReadContradictions, TypeOK
  <2>3. QED
    BY <1>2, <2>1, <2>2 DEF ReadContradictions, TypeOK
<1>3. ASSUME NEW p \in Passes, Forget(p)
      PROVE  /\ DOMAIN rows' = Passes /\ DOMAIN disputes' = Passes
             /\ \A q \in Passes : IsTable(rows'[q], Ids, Rows) /\ IsTable(disputes'[q], Disputes, BOOLEAN)
  BY <1>3, EmptyIsTable DEF Forget, TypeOK
<1>4. ASSUME NEW p \in Passes, ReadTrust(p) PROVE TypeOK'
  <2>1. PICK a \in Answers :
          write' = [write EXCEPT ![p] = Compose(a, rows[p], disputes[p], trust)]
    BY <1>4 DEF ReadTrust
  <2>2. Compose(a, rows[p], disputes[p], trust) \in Writes
    BY ComposeType DEF TypeOK
  <2>3. write' \in [Passes -> Writes]
    BY <2>1, <2>2 DEF TypeOK
  <2>4. staleIds' \in [Passes -> SUBSET Ids]
    BY <1>4 DEF ReadTrust, TypeOK
  <2>5. pc' \in [Passes -> {"idle", "contradictions", "trust", "commit"}]
    BY <1>4 DEF ReadTrust, TypeOK
  <2>6. UNCHANGED <<db, blind, staleKeys, assigned>> /\ Forget(p)
    BY <1>4 DEF ReadTrust
  <2>7. QED
    BY <1>3, <2>3, <2>4, <2>5, <2>6 DEF TypeOK
<1>5. ASSUME NEW p \in Passes, ReadFails(p) PROVE TypeOK'
  <2>1. PICK a \in Answers :
          write' = [write EXCEPT ![p] = Compose(a, EmptyTable, EmptyTable, EmptyTable)]
    BY <1>5 DEF ReadFails
  <2>2. Compose(a, EmptyTable, EmptyTable, EmptyTable) \in Writes
    BY ComposeType, EmptyIsTable
  <2>3. write' \in [Passes -> Writes]
    BY <2>1, <2>2 DEF TypeOK
  <2>4. staleIds' \in [Passes -> SUBSET Ids] /\ blind' \in [Passes -> BOOLEAN]
    BY <1>5 DEF ReadFails, TypeOK
  <2>5. pc' \in [Passes -> {"idle", "contradictions", "trust", "commit"}]
    BY <1>5 DEF ReadFails, TypeOK
  <2>6. UNCHANGED <<db, staleKeys, assigned>> /\ Forget(p)
    BY <1>5 DEF ReadFails
  <2>7. QED
    BY <1>3, <2>3, <2>4, <2>5, <2>6 DEF TypeOK
<1>6. ASSUME NEW p \in Passes, Return(p)
      PROVE  /\ pc' \in [Passes -> {"idle", "contradictions", "trust", "commit"}]
             /\ write' \in [Passes -> Writes]
             /\ blind' \in [Passes -> BOOLEAN]
             /\ UNCHANGED view
  <2>1. NoWrite \in Writes
    BY DEF NoWrite, Writes
  <2>2. QED
    BY <1>6, <2>1 DEF Return, TypeOK
<1>7. ASSUME NEW p \in Passes, Commit(p) PROVE TypeOK'
  <2>1. write[p] \in Writes
    BY DEF TypeOK
  <2>2. /\ IsTable(concerns', Ids, Rows)
        /\ Cardinality(DOMAIN concerns') <= ConcernCap
    BY <1>7, <2>1, ConcernsAfterType DEF Commit
  <2>3. /\ IsTable(contradictions', Disputes, BOOLEAN)
        /\ Cardinality(DOMAIN contradictions') <= ContradictionCap
        /\ assigned' \subseteq Disputes
    <3>1. PICK last \in 0..MaxDispute :
            /\ IsTop(contradictions, last) /\ last + write[p].found <= MaxDispute
            /\ contradictions' = ContradictionsAfter(write[p], last)
            /\ assigned' = assigned \cup (last + 1)..(last + write[p].found)
      BY <1>7 DEF Commit
    <3>2. (last + 1)..(last + write[p].found) \subseteq Disputes
      BY <2>1, <3>1, ConcernsAssumption DEF Writes, Disputes
    <3>3. QED
      BY <2>1, <3>1, <3>2, ContradictionsAfterType DEF TypeOK
  <2>4. /\ IsTable(trust', Keys, Weights)
        /\ Cardinality(DOMAIN trust') <= TrustCap
    BY <1>7, <2>1, TrustAfterType DEF Commit
  <2>5. staleIds' \in [Passes -> SUBSET Ids] /\ staleKeys' \in [Passes -> SUBSET Keys]
    <3>1. Touched(concerns, concerns') \subseteq Ids /\ Touched(trust, trust') \subseteq Keys
      BY <2>2, <2>4 DEF Touched, IsTable, TypeOK
    <3>2. /\ staleIds' = Outdate(p, staleIds, Touched(concerns, concerns'), IdsKnown)
          /\ staleKeys' = Outdate(p, staleKeys, Touched(trust, trust'), KeysKnown)
      BY <1>7 DEF Commit
    <3>3. QED
      BY <3>1, <3>2 DEF Outdate, TypeOK
  <2>6. Return(p)
    BY <1>7 DEF Commit
  <2>7. QED
    BY <1>6, <2>2, <2>3, <2>4, <2>5, <2>6 DEF TypeOK
<1>8. ASSUME NEW p \in Passes, CommitFails(p) PROVE TypeOK'
  <2>1. Return(p) /\ UNCHANGED <<db, assigned>>
    BY <1>8 DEF CommitFails
  <2>2. staleIds' \in [Passes -> SUBSET Ids] /\ staleKeys' \in [Passes -> SUBSET Keys]
    BY <1>8 DEF CommitFails, TypeOK
  <2>3. QED
    BY <1>6, <2>1, <2>2 DEF TypeOK
<1>9. CASE Idle
  <2> DEFINE row(i) == IF concerns[i].idle < MaxIdle
                       THEN [concerns[i] EXCEPT !.idle = @ + 1] ELSE concerns[i]
  <2>1. \A i \in DOMAIN concerns : row(i) \in Rows
    <3>1. SUFFICES ASSUME NEW i \in DOMAIN concerns PROVE row(i) \in Rows
      OBVIOUS
    <3>2. concerns[i] \in Rows
      BY DEF TypeOK, IsTable
    <3>3. CASE concerns[i].idle < MaxIdle
      <4>1. concerns[i].idle + 1 \in 0..MaxIdle
        BY <3>2, <3>3, ConcernsAssumption DEF Rows
      <4>2. [concerns[i] EXCEPT !.idle = @ + 1] \in Rows
        BY <3>2, <4>1 DEF Rows
      <4>3. QED
        BY <3>3, <4>2
    <3>4. QED
      BY <3>2, <3>3
  <2>2. concerns' = [i \in DOMAIN concerns |-> row(i)]
    BY <1>9 DEF Idle
  <2> HIDE DEF row
  <2>3. IsTable(concerns', Ids, Rows) /\ DOMAIN concerns' = DOMAIN concerns
    BY <2>1, <2>2 DEF TypeOK, IsTable
  <2>4. QED
    BY <1>9, <2>3 DEF Idle, TypeOK
<1>10. CASE UNCHANGED vars
  BY <1>10 DEF vars, TypeOK
<1>11. QED
  BY <1>1, <1>2, <1>4, <1>5, <1>7, <1>8, <1>9, <1>10 DEF Next

\* The tables keep their types and their caps, whatever passes overlap.
THEOREM TypeCorrect == Spec => []TypeOK
<1>1. QED
  BY TypeInit, TypeStep, PTL DEF Spec

-----------------------------------------------------------------------------
\* Below every id assigned so far or at it, the table holds one.
IdsHeld == \A i \in assigned : \E j \in DOMAIN contradictions : i <= j

\* What a commit does to the contradictions: the ids it adds are above all that
\* were assigned, and the highest id stays.
LEMMA CommitIds ==
    ASSUME TypeOK, IdsHeld, NEW p \in Passes, Commit(p)
    PROVE  /\ IdsHeld'
           /\ (DOMAIN contradictions' \ DOMAIN contradictions) \cap assigned = {}
<1> USE ConcernsAssumption
<1>1. PICK last \in 0..MaxDispute :
        /\ IsTop(contradictions, last) /\ last + write[p].found <= MaxDispute
        /\ contradictions' = ContradictionsAfter(write[p], last)
        /\ assigned' = assigned \cup (last + 1)..(last + write[p].found)
  BY DEF Commit
<1> DEFINE found == write[p].found
           all == DOMAIN contradictions \cup (last + 1)..(last + found)
<1>2. found \in Nat
  BY DEF TypeOK, Writes
<1>3. all \in SUBSET (1..MaxDispute) /\ DOMAIN contradictions \subseteq 1..MaxDispute
  BY <1>1, <1>2 DEF TypeOK, IsTable, Disputes
<1>4. DOMAIN contradictions' = Newest(all, ContradictionCap)
  BY <1>1 DEF ContradictionsAfter
<1>5. Newest(all, ContradictionCap) \subseteq all
  BY DEF Newest
<1>6. assigned \subseteq 1..MaxDispute
  BY DEF TypeOK, Disputes
<1>7. \A i \in assigned : i <= last
  <2>1. SUFFICES ASSUME NEW i \in assigned PROVE i <= last
    OBVIOUS
  <2>2. PICK j \in DOMAIN contradictions : i <= j
    BY DEF IdsHeld
  <2>3. j <= last /\ j \in Nat /\ i \in Nat
    BY <1>1, <1>3, <1>6 DEF IsTop
  <2>4. QED
    BY <2>2, <2>3
<1>8. (DOMAIN contradictions' \ DOMAIN contradictions) \cap assigned = {}
  <2>1. SUFFICES ASSUME NEW i \in all \ DOMAIN contradictions, i \in assigned PROVE FALSE
    BY <1>4, <1>5
  <2>2. i >= last + 1 /\ i <= last /\ i \in Nat
    BY <1>2, <1>7, <2>1
  <2>3. QED
    BY <2>2
<1>9. IdsHeld'
  <2>1. SUFFICES ASSUME NEW i \in assigned'
                 PROVE  \E j \in DOMAIN contradictions' : i <= j
    BY DEF IdsHeld
  <2>2. CASE found = 0
    <3>1. i \in assigned
      BY <1>1, <1>2, <2>2
    <3>2. all = DOMAIN contradictions
      <4>1. \A k \in Int : ~(k >= last + 1 /\ k <= last + found)
        BY <2>2
      <4>2. (last + 1)..(last + found) = {}
        BY <4>1, <1>2
      <4>3. QED
        BY <4>2
    <3>3. PICK j \in DOMAIN contradictions : i <= j
      BY <3>1 DEF IdsHeld
    <3>4. last \in all /\ \A k \in all : k <= last
      BY <1>1, <1>3, <3>2, <3>3 DEF IsTop
    <3> HIDE DEF all
    <3>5. last \in Newest(all, ContradictionCap)
      BY <1>3, <3>4, CapKeepsTop
    <3>6. QED
      BY <1>4, <1>7, <3>1, <3>5
  <2>3. CASE found # 0
    <3> DEFINE top == last + found
    <3>1. top \in all /\ top \in Nat
      BY <1>2, <2>3
    <3>2. \A k \in all : k <= top
      BY <1>1, <1>2, <1>3 DEF IsTop
    <3>3. i <= top
      BY <1>1, <1>2, <1>6, <1>7
    <3> HIDE DEF all, top
    <3>4. top \in Newest(all, ContradictionCap)
      BY <1>3, <3>1, <3>2, CapKeepsTop
    <3>5. QED
      BY <1>4, <3>3, <3>4
  <2>4. QED
    BY <2>2, <2>3
<1>10. QED
  BY <1>8, <1>9

\* Every other step leaves the contradictions alone.
LEMMA IdsStep ==
    ASSUME TypeOK, IdsHeld, [Next]_vars
    PROVE  /\ IdsHeld'
           /\ (DOMAIN contradictions' \ DOMAIN contradictions) \cap assigned = {}
<1>1. ASSUME UNCHANGED <<contradictions, assigned>>
      PROVE  /\ IdsHeld'
             /\ (DOMAIN contradictions' \ DOMAIN contradictions) \cap assigned = {}
  BY <1>1 DEF IdsHeld
<1>2. ASSUME NEW p \in Passes,
             \/ ReadConcerns(p) \/ ReadContradictions(p) \/ ReadTrust(p)
             \/ ReadFails(p) \/ CommitFails(p)
      PROVE  UNCHANGED <<contradictions, assigned>>
  BY <1>2 DEF ReadConcerns, ReadContradictions, ReadTrust, ReadFails, CommitFails, db, history
<1>3. Idle \/ UNCHANGED vars => UNCHANGED <<contradictions, assigned>>
  BY DEF Idle, vars, db, history
<1>4. QED
  BY <1>1, <1>2, <1>3, CommitIds DEF Next

\* A contradiction's id names one contradiction for ever, however many passes
\* overlap and whatever the cap deletes.
THEOREM IdsUnique == Spec => ContradictionIdsUnique
<1>1. Init => IdsHeld
  BY DEF Init, IdsHeld
<1>2. TypeOK /\ IdsHeld /\ [Next]_vars => IdsHeld'
  BY IdsStep
<1>3. TypeOK /\ IdsHeld /\ [Next]_vars
        => [(DOMAIN contradictions' \ DOMAIN contradictions) \cap assigned = {}]_vars
  BY IdsStep
<1>4. QED
  BY <1>1, <1>2, <1>3, TypeCorrect, PTL DEF Spec, ContradictionIdsUnique

-----------------------------------------------------------------------------
\* What a pass has read of the concerns still holds, but for the rows other passes
\* have written since: they are there with their weight, and no fresher than they
\* were.  A pass that is not reading has nothing in hand.
ViewHolds(p) ==
    /\ pc[p] \in {"idle", "commit"} => DOMAIN rows[p] = {}
    /\ \A i \in DOMAIN rows[p] \ staleIds[p] :
          /\ i \in DOMAIN concerns
          /\ concerns[i].weight = rows[p][i].weight
          /\ Decayed(rows[p][i]) => Decayed(concerns[i])

\* So does what its composed write says, whatever time has passed: but for those
\* rows it names rows that are there, prunes rows that have faded and that it does
\* not name otherwise, and moves what it moves by MAX_DELTA at most.  A pass whose
\* read failed names no concern that exists.
WriteHolds(p) ==
    LET w == write[p] IN
    /\ Len(w.add) <= ConcernCap
    /\ blind[p] => pc[p] = "commit" /\ IdsNamed(w) = {}
    /\ w.prune \cap (IdsOf(w.update) \cup w.resolve) = {}
    /\ IdsNamed(w) \ staleIds[p] \subseteq DOMAIN concerns
    /\ \A i \in w.prune \ staleIds[p] : Decayed(concerns[i])
    /\ \A u \in w.update : u.id \notin staleIds[p] =>
          u.weight - concerns[u.id].weight \in (-MaxDelta)..MaxDelta
    /\ ~blind[p] => \A s \in w.score : s.key \notin staleKeys[p] =>
          s.value - ScoreRead(trust, s.key) \in (-MaxDelta)..MaxDelta

PassHolds(p) == ViewHolds(p) /\ WriteHolds(p)
PassesHold == \A p \in Passes : PassHolds(p)

\* What a pass composes is true of the tables it composes it from.
LEMMA ComposeTrue ==
    ASSUME NEW a \in Answers,
           NEW base, IsTable(base, Ids, Rows),
           NEW open, IsTable(open, Disputes, BOOLEAN),
           NEW scores, IsTable(scores, Keys, Weights)
    PROVE  LET w == Compose(a, base, open, scores) IN
           /\ Len(w.add) <= ConcernCap
           /\ IdsOf(w.update) \cup w.resolve \cup w.prune \subseteq DOMAIN base
           /\ w.prune \cap (IdsOf(w.update) \cup w.resolve) = {}
           /\ \A i \in w.prune : Decayed(base[i])
           /\ \A u \in w.update : u.weight - base[u.id].weight \in (-MaxDelta)..MaxDelta
           /\ \A s \in w.score : s.value - ScoreRead(scores, s.key) \in (-MaxDelta)..MaxDelta
<1> DEFINE w == Compose(a, base, open, scores)
           update == Adjusted(a.adjust, base)
           resolve == a.resolve \cap DOMAIN base
<1>1. /\ w.add = [i \in DOMAIN a.new |-> Clamp(a.new[i], 0, MaxWeight)]
      /\ w.update = update
      /\ w.resolve = resolve
      /\ w.prune = Prunable(base, IdsOf(update) \cup resolve)
      /\ w.score = Scored(a.trust, scores)
  BY DEF Compose
<1>2. \A u \in update : /\ u.id \in DOMAIN base
                        /\ u.weight - base[u.id].weight \in (-MaxDelta)..MaxDelta
  BY AnswersAssumption, AdjustedNear
<1>3. \A s \in Scored(a.trust, scores) :
          s.value - ScoreRead(scores, s.key) \in (-MaxDelta)..MaxDelta
  BY AnswersAssumption, ScoredNear
<1>4. Len(w.add) <= ConcernCap
  <2>1. a.new \in Seq(Int) /\ Len(a.new) <= ConcernCap
    BY AnswersAssumption
  <2>2. Len(w.add) = Len(a.new)
    BY <1>1, <2>1, AddedType
  <2>3. QED
    BY <2>1, <2>2
<1> HIDE DEF w, update
<1>5. IdsOf(update) \subseteq DOMAIN base
  BY <1>2 DEF IdsOf
<1>6. QED
  BY <1>1, <1>2, <1>3, <1>4, <1>5 DEF Prunable, w

\* A pass with nothing in hand and nothing to write holds.
LEMMA NothingHolds ==
    ASSUME NEW p \in Passes, write[p] = NoWrite, DOMAIN rows[p] = {}, blind[p] = FALSE
    PROVE  PassHolds(p)
<1>1. Len(NoWrite.add) = 0 /\ IdsNamed(NoWrite) = {} /\ NoWrite.update = {}
      /\ NoWrite.prune = {} /\ NoWrite.score = {}
  BY DEF NoWrite, IdsNamed, IdsOf
<1>2. WriteHolds(p)
  BY <1>1, ConcernsAssumption DEF WriteHolds
<1>3. ViewHolds(p)
  BY DEF ViewHolds
<1>4. QED
  BY <1>2, <1>3 DEF PassHolds

\* Fading leaves every row where it is, with its weight, and no row recovers.
LEMMA IdleRows ==
    ASSUME TypeOK, Idle
    PROVE  /\ DOMAIN concerns' = DOMAIN concerns
           /\ \A i \in DOMAIN concerns :
                /\ concerns'[i].weight = concerns[i].weight
                /\ Decayed(concerns[i]) => Decayed(concerns'[i])
<1> DEFINE row(i) == IF concerns[i].idle < MaxIdle
                     THEN [concerns[i] EXCEPT !.idle = @ + 1] ELSE concerns[i]
<1>1. concerns' = [i \in DOMAIN concerns |-> row(i)]
  BY DEF Idle
<1>2. ASSUME NEW i \in DOMAIN concerns
      PROVE  /\ row(i).weight = concerns[i].weight
             /\ Decayed(concerns[i]) => Decayed(row(i))
  <2>1. concerns[i] \in Rows
    BY DEF TypeOK, IsTable
  <2>2. CASE concerns[i].idle < MaxIdle
    <3>1. /\ row(i).weight = concerns[i].weight
          /\ row(i).idle = concerns[i].idle + 1
      BY <2>1, <2>2 DEF Rows
    <3>2. /\ concerns[i].idle \in 0..MaxIdle /\ concerns[i].idle + 1 \in 0..MaxIdle
          /\ concerns[i].weight \in Nat
      BY <2>1, <2>2, ConcernsAssumption DEF Rows, Weights
    <3>3. /\ FadesBelow[concerns[i].idle] <= FadesBelow[concerns[i].idle + 1]
          /\ FadesBelow[concerns[i].idle] \in Nat /\ FadesBelow[concerns[i].idle + 1] \in Nat
      BY <3>2, ConcernsAssumption
    <3> HIDE DEF row
    <3>4. QED
      BY <3>1, <3>2, <3>3 DEF Decayed
  <2>3. QED
    BY <2>2
<1> HIDE DEF row
<1>3. QED
  BY <1>1, <1>2

\* The steps of one pass disturb nothing of another that does not commit.
LEMMA OthersHold ==
    ASSUME NEW q \in Passes, PassHolds(q),
           UNCHANGED <<concerns, trust, write[q], rows[q], blind[q], staleIds[q], staleKeys[q]>>,
           pc'[q] = pc[q]
    PROVE  PassHolds(q)'
  BY DEF PassHolds, ViewHolds, WriteHolds

\* Reading the tables: what is in hand is what the tables hold.
LEMMA ReadingHolds ==
    ASSUME TypeOK, NEW p \in Passes, PassHolds(p),
           ReadConcerns(p) \/ ReadContradictions(p)
    PROVE  PassHolds(p)'
<1> USE DEF db, history
<1>1. CASE ReadConcerns(p)
  <2>1. rows'[p] = concerns /\ pc'[p] = "contradictions"
    BY <1>1 DEF ReadConcerns, TypeOK
  <2>2. ViewHolds(p)'
    BY <1>1, <2>1 DEF ReadConcerns, ViewHolds
  <2>3. WriteHolds(p)'
    BY <1>1 DEF ReadConcerns, PassHolds, WriteHolds
  <2>4. QED
    BY <2>2, <2>3 DEF PassHolds
<1>2. CASE ReadContradictions(p)
  <2>1. pc'[p] = "trust"
    BY <1>2 DEF ReadContradictions, TypeOK
  <2>2. ViewHolds(p)'
    BY <1>2, <2>1 DEF ReadContradictions, PassHolds, ViewHolds
  <2>3. WriteHolds(p)'
    BY <1>2 DEF ReadContradictions, PassHolds, WriteHolds
  <2>4. QED
    BY <2>2, <2>3 DEF PassHolds
<1>3. QED
  BY <1>1, <1>2

\* Composing: what holds of the rows read holds of the rows there, but for those
\* written since.
LEMMA ComposingHolds ==
    ASSUME TypeOK, NEW p \in Passes, PassHolds(p), ReadTrust(p) \/ ReadFails(p)
    PROVE  PassHolds(p)'
<1> USE DEF db, history
<1>1. DOMAIN rows'[p] = {} /\ pc'[p] = "commit"
  BY DEF ReadTrust, ReadFails, Forget, EmptyTable, TypeOK
<1>2. ViewHolds(p)'
  BY <1>1 DEF ViewHolds
<1>3. CASE ReadTrust(p)
  <2>1. PICK a \in Answers : write'[p] = Compose(a, rows[p], disputes[p], trust)
    BY <1>3 DEF ReadTrust, TypeOK
  <2> DEFINE w == Compose(a, rows[p], disputes[p], trust)
  <2>2. /\ Len(w.add) <= ConcernCap
        /\ IdsOf(w.update) \cup w.resolve \cup w.prune \subseteq DOMAIN rows[p]
        /\ w.prune \cap (IdsOf(w.update) \cup w.resolve) = {}
        /\ \A i \in w.prune : Decayed(rows[p][i])
        /\ \A u \in w.update : u.weight - rows[p][u.id].weight \in (-MaxDelta)..MaxDelta
        /\ \A s \in w.score : s.value - ScoreRead(trust, s.key) \in (-MaxDelta)..MaxDelta
    BY ComposeTrue DEF TypeOK
  <2>3. w = write'[p]
    BY <2>1
  <2> HIDE DEF w
  <2>4. /\ staleIds'[p] = staleIds[p] \cap IdsNamed(w)
        /\ UNCHANGED <<concerns, trust, staleKeys, blind>> /\ ~blind[p]
    BY <1>3, <2>3 DEF ReadTrust, TypeOK, PassHolds, WriteHolds
  <2>5. IdsNamed(w) \subseteq DOMAIN rows[p]
    BY <2>2 DEF IdsNamed
  <2>6. ASSUME NEW i \in IdsNamed(w), i \notin staleIds'[p]
        PROVE  /\ i \in DOMAIN concerns
               /\ concerns[i].weight = rows[p][i].weight
               /\ Decayed(rows[p][i]) => Decayed(concerns[i])
    BY <2>4, <2>5, <2>6 DEF PassHolds, ViewHolds
  <2>7. \A i \in w.prune \ staleIds'[p] : Decayed(concerns[i])
    BY <2>2, <2>6 DEF IdsNamed
  <2>8. ASSUME NEW u \in w.update, u.id \notin staleIds'[p]
        PROVE  u.weight - concerns[u.id].weight \in (-MaxDelta)..MaxDelta
    <3>1. u.id \in IdsNamed(w)
      BY DEF IdsNamed, IdsOf
    <3>2. concerns[u.id].weight = rows[p][u.id].weight
      BY <2>6, <2>8, <3>1
    <3>3. QED
      BY <2>2, <3>2
  <2>9. IdsNamed(w) \ staleIds'[p] \subseteq DOMAIN concerns
    BY <2>6
  <2>10. WriteHolds(p)'
    BY <2>2, <2>3, <2>4, <2>7, <2>8, <2>9 DEF WriteHolds
  <2>11. QED
    BY <1>2, <2>10 DEF PassHolds
<1>4. CASE ReadFails(p)
  <2>1. PICK a \in Answers : write'[p] = Compose(a, EmptyTable, EmptyTable, EmptyTable)
    BY <1>4 DEF ReadFails, TypeOK
  <2>2. blind'[p] = TRUE
    BY <1>4 DEF ReadFails, TypeOK
  <2> DEFINE w == Compose(a, EmptyTable, EmptyTable, EmptyTable)
  <2>3. /\ Len(w.add) <= ConcernCap
        /\ IdsOf(w.update) \cup w.resolve \cup w.prune \subseteq DOMAIN EmptyTable
    BY ComposeTrue, EmptyIsTable
  <2>4. w = write'[p] /\ DOMAIN EmptyTable = {}
    BY <2>1 DEF EmptyTable
  <2> HIDE DEF w
  <2>5. IdsNamed(w) = {} /\ w.update = {} /\ w.prune = {}
    BY <2>3, <2>4 DEF IdsNamed, IdsOf
  <2>6. WriteHolds(p)'
    BY <1>1, <2>2, <2>3, <2>4, <2>5 DEF WriteHolds
  <2>7. QED
    BY <1>2, <2>6 DEF PassHolds
<1>5. QED
  BY <1>3, <1>4

\* A pass that has committed, or failed to, has nothing in hand.
LEMMA ReturningHolds ==
    ASSUME TypeOK, NEW p \in Passes, PassHolds(p), Commit(p) \/ CommitFails(p)
    PROVE  PassHolds(p)'
<1>1. /\ write'[p] = NoWrite /\ blind'[p] = FALSE /\ rows' = rows
      /\ pc[p] = "commit" /\ pc'[p] = "idle"
  BY DEF Commit, CommitFails, Return, view, TypeOK
<1>2. DOMAIN rows'[p] = {}
  BY <1>1 DEF PassHolds, ViewHolds
<1>3. /\ Len(NoWrite.add) = 0 /\ IdsNamed(NoWrite) = {} /\ NoWrite.update = {}
      /\ NoWrite.prune = {} /\ NoWrite.score = {}
  BY DEF NoWrite, IdsNamed, IdsOf
<1>4. WriteHolds(p)'
  BY <1>1, <1>3, ConcernsAssumption DEF WriteHolds
<1>5. ViewHolds(p)'
  BY <1>2 DEF ViewHolds
<1>6. QED
  BY <1>4, <1>5 DEF PassHolds

\* A commit makes stale what it touches of what another pass has in hand.
LEMMA OvertakenHolds ==
    ASSUME TypeOK, NEW p \in Passes, Commit(p), NEW q \in Passes, q # p, PassHolds(q)
    PROVE  PassHolds(q)'
<1>1. UNCHANGED <<write[q], blind[q], rows, pc[q]>>
  BY DEF Commit, Return, view, TypeOK
<1>2. /\ staleIds'[q] = staleIds[q] \cup (Touched(concerns, concerns') \cap IdsKnown(q))
      /\ staleKeys'[q] = staleKeys[q] \cup (Touched(trust, trust') \cap KeysKnown(q))
  BY DEF Commit, Outdate
<1>3. ASSUME NEW i \in IdsKnown(q), i \notin staleIds'[q]
      PROVE  /\ i \notin staleIds[q]
             /\ i \in DOMAIN concerns => i \in DOMAIN concerns' /\ concerns'[i] = concerns[i]
  BY <1>2, <1>3 DEF Touched
<1>4. ViewHolds(q)'
  <2>1. DOMAIN rows[q] \subseteq IdsKnown(q)
    BY DEF IdsKnown
  <2>2. QED
    BY <1>1, <1>3, <2>1 DEF PassHolds, ViewHolds
<1>5. \A i \in IdsNamed(write[q]) : i \in IdsKnown(q)
  BY DEF IdsKnown
<1>6. /\ IdsNamed(write[q]) \ staleIds'[q] \subseteq DOMAIN concerns'
      /\ \A i \in IdsNamed(write[q]) \ staleIds'[q] : concerns'[i] = concerns[i]
  BY <1>3, <1>5 DEF PassHolds, WriteHolds
<1>7. \A i \in write[q].prune \ staleIds'[q] : Decayed(concerns'[i])
  BY <1>3, <1>5, <1>6 DEF PassHolds, WriteHolds, IdsNamed
<1>8. ASSUME NEW u \in write[q].update, u.id \notin staleIds'[q]
      PROVE  u.weight - concerns'[u.id].weight \in (-MaxDelta)..MaxDelta
  <2>1. u.id \in IdsNamed(write[q])
    BY DEF IdsNamed, IdsOf
  <2>2. u.id \notin staleIds[q] /\ concerns'[u.id] = concerns[u.id]
    BY <1>3, <1>5, <1>6, <1>8, <2>1
  <2>3. QED
    BY <2>2 DEF PassHolds, WriteHolds
<1>9. ASSUME ~blind[q], NEW s \in write[q].score, s.key \notin staleKeys'[q]
      PROVE  s.value - ScoreRead(trust', s.key) \in (-MaxDelta)..MaxDelta
  <2>1. s.key \in KeysKnown(q)
    BY DEF KeysKnown, KeysNamed
  <2>2. s.key \notin staleKeys[q] /\ s.key \notin Touched(trust, trust')
    BY <1>2, <1>9, <2>1
  <2>3. ScoreRead(trust', s.key) = ScoreRead(trust, s.key)
    BY <2>2 DEF ScoreRead, Touched
  <2>4. QED
    BY <1>9, <2>2, <2>3 DEF PassHolds, WriteHolds
<1>10. WriteHolds(q)'
  BY <1>1, <1>6, <1>7, <1>8, <1>9 DEF PassHolds, WriteHolds
<1>11. QED
  BY <1>4, <1>10 DEF PassHolds

\* Time makes no row fresher.
LEMMA FadingHolds ==
    ASSUME TypeOK, Idle, NEW q \in Passes, PassHolds(q)
    PROVE  PassHolds(q)'
<1>1. UNCHANGED <<trust, pc, write, rows, blind, staleIds, staleKeys>>
  BY DEF Idle, view, history
<1>2. /\ DOMAIN concerns' = DOMAIN concerns
      /\ \A i \in DOMAIN concerns :
           /\ concerns'[i].weight = concerns[i].weight
           /\ Decayed(concerns[i]) => Decayed(concerns'[i])
  BY IdleRows
<1>3. ViewHolds(q)'
  BY <1>1, <1>2 DEF PassHolds, ViewHolds
<1>4. \A i \in write[q].prune \ staleIds[q] : Decayed(concerns'[i])
  BY <1>2 DEF PassHolds, WriteHolds, IdsNamed
<1>5. ASSUME NEW u \in write[q].update, u.id \notin staleIds[q]
      PROVE  u.weight - concerns'[u.id].weight \in (-MaxDelta)..MaxDelta
  <2>1. u.id \in IdsNamed(write[q])
    BY DEF IdsNamed, IdsOf
  <2>2. u.id \in DOMAIN concerns
    BY <1>5, <2>1 DEF PassHolds, WriteHolds
  <2>3. QED
    BY <1>2, <1>5, <2>2 DEF PassHolds, WriteHolds
<1>6. WriteHolds(q)'
  BY <1>1, <1>2, <1>4, <1>5 DEF PassHolds, WriteHolds
<1>7. QED
  BY <1>3, <1>6 DEF PassHolds

\* So every step keeps every pass's view and write holding.
LEMMA HoldStep == TypeOK /\ PassesHold /\ [Next]_vars => PassesHold'
<1> SUFFICES ASSUME TypeOK, PassesHold, [Next]_vars, NEW q \in Passes
             PROVE  PassHolds(q)'
  BY DEF PassesHold
<1>1. PassHolds(q)
  BY DEF PassesHold
<1>2. ASSUME NEW p \in Passes, ReadConcerns(p) \/ ReadContradictions(p) \/ ReadTrust(p) \/ ReadFails(p)
      PROVE  PassHolds(q)'
  <2>1. CASE q = p
    BY <1>1, <1>2, <2>1, ReadingHolds, ComposingHolds
  <2>2. CASE q # p
    <3>1. UNCHANGED <<concerns, trust, write[q], rows[q], blind[q], staleIds[q], staleKeys[q]>>
      BY <1>2, <2>2 DEF ReadConcerns, ReadContradictions, ReadTrust, ReadFails, Forget,
                        TypeOK, db, history
    <3>2. pc'[q] = pc[q]
      BY <1>2, <2>2 DEF ReadConcerns, ReadContradictions, ReadTrust, ReadFails, TypeOK
    <3>3. QED
      BY <1>1, <3>1, <3>2, OthersHold
  <2>3. QED
    BY <2>1, <2>2
<1>3. ASSUME NEW p \in Passes, Commit(p) PROVE PassHolds(q)'
  BY <1>1, <1>3, ReturningHolds, OvertakenHolds
<1>4. ASSUME NEW p \in Passes, CommitFails(p) PROVE PassHolds(q)'
  <2>1. CASE q = p
    BY <1>1, <1>4, <2>1, ReturningHolds
  <2>2. CASE q # p
    <3>1. /\ UNCHANGED <<concerns, trust, write[q], rows[q], blind[q], staleIds[q], staleKeys[q]>>
          /\ pc'[q] = pc[q]
      BY <1>4, <2>2 DEF CommitFails, Return, TypeOK, db, view
    <3>2. QED
      BY <1>1, <3>1, OthersHold
  <2>3. QED
    BY <2>1, <2>2
<1>5. CASE Idle
  BY <1>1, <1>5, FadingHolds
<1>6. CASE UNCHANGED vars
  BY <1>1, <1>6, OthersHold DEF vars, db, view, history
<1>7. QED
  BY <1>2, <1>3, <1>4, <1>5, <1>6 DEF Next

\* In every reachable state what passes have in hand and mean to write holds.
LEMMA PassesStayTrue == Spec => [](TypeOK /\ PassesHold)
<1>1. Init => PassesHold
  <2>1. SUFFICES ASSUME Init, NEW p \in Passes PROVE PassHolds(p)
    BY DEF PassesHold
  <2>2. write[p] = NoWrite /\ DOMAIN rows[p] = {} /\ blind[p] = FALSE
    BY <2>1 DEF Init, EmptyTable
  <2>3. QED
    BY <2>2, NothingHolds
<1>2. QED
  BY <1>1, HoldStep, TypeCorrect, PTL DEF Spec

-----------------------------------------------------------------------------
\* A set of ids that is not empty has a greatest one.
LEMMA GreatestId ==
    ASSUME NEW N \in Nat, NEW S \in SUBSET (1..N), S # {}
    PROVE  \E greatest \in S : \A i \in S : i <= greatest
<1> DEFINE mirror == {N - i : i \in S}
<1>1. mirror \in SUBSET Nat /\ mirror # {}
  <2>1. \A i \in S : N - i \in Nat
    OBVIOUS
  <2>2. QED
    BY <2>1
<1>2. PICK least \in mirror : \A m \in mirror : least <= m
  <2> HIDE DEF mirror
  <2>1. QED
    BY <1>1, LeastId
<1>3. PICK greatest \in S : least = N - greatest
  BY <1>2
<1>4. \A i \in S : i <= greatest
  <2>1. SUFFICES ASSUME NEW i \in S PROVE i <= greatest
    OBVIOUS
  <2>2. least <= N - i
    BY <1>2
  <2>3. i \in Int /\ greatest \in Int
    OBVIOUS
  <2>4. QED
    BY <1>3, <2>2, <2>3
<1>5. QED
  BY <1>4

\* An id with n newer ones has n newer ones among those the cap keeps.
LEMMA CapFilled ==
    ASSUME NEW N \in Nat, NEW ids \in SUBSET (1..N), NEW n \in Nat, NEW i \in ids,
           Cardinality({j \in ids : j > i}) >= n
    PROVE  Cardinality({j \in Newest(ids, n) : j > i}) >= n
<1> DEFINE newer(k) == {j \in ids : j > k}
           kept == {j \in Newest(ids, n) : j > i}
<1>1. IsFiniteSet(ids)
  <2>1. IsFiniteSet(1..N)
    BY FS_Interval
  <2>2. QED
    BY <2>1, FS_Subset
<1>2. kept \subseteq newer(i) /\ newer(i) \subseteq ids
  BY DEF Newest
<1>3. \A k \in ids : newer(k) \subseteq ids /\ IsFiniteSet(newer(k)) /\ Cardinality(newer(k)) \in Nat
  <2>1. SUFFICES ASSUME NEW k \in ids
                 PROVE  newer(k) \subseteq ids /\ IsFiniteSet(newer(k)) /\ Cardinality(newer(k)) \in Nat
    OBVIOUS
  <2>2. newer(k) \subseteq ids
    OBVIOUS
  <2> HIDE DEF newer
  <2>3. QED
    BY <1>1, <2>2, FS_Subset, FS_CardinalityType
<1>4. IsFiniteSet(kept) /\ Cardinality(kept) \in Nat
  <2> HIDE DEF kept, newer
  <2>1. QED
    BY <1>2, <1>3, FS_Subset, FS_CardinalityType
<1>5. SUFFICES ASSUME Cardinality(kept) < n PROVE FALSE
  BY <1>4
<1>6. newer(i) \ kept # {}
  <2>1. Cardinality(newer(i)) >= n
    OBVIOUS
  <2> HIDE DEF kept, newer
  <2>2. newer(i) # kept
    BY <1>3, <1>4, <1>5, <2>1
  <2>3. QED
    BY <1>2, <2>2
<1>7. PICK top \in newer(i) \ kept : \A j \in newer(i) \ kept : j <= top
  <2> DEFINE out == newer(i) \ kept
  <2>1. out \in SUBSET (1..N) /\ out # {}
    BY <1>2, <1>6
  <2> HIDE DEF out
  <2>2. PICK top \in out : \A j \in out : j <= top
    BY <2>1, GreatestId
  <2>3. QED
    BY <2>2 DEF out
<1>8. newer(top) \subseteq kept
  <2>1. SUFFICES ASSUME NEW j \in ids, j > top, j \notin kept PROVE FALSE
    OBVIOUS
  <2>2. top \in Nat /\ j \in Nat /\ i \in Nat /\ top > i
    BY <1>7
  <2>3. j \in newer(i) \ kept
    BY <2>1, <2>2
  <2>4. QED
    BY <1>7, <2>1, <2>2, <2>3
<1>9. Cardinality(newer(top)) < n
  <2>1. top \in ids
    BY <1>7
  <2> HIDE DEF kept, newer
  <2>2. Cardinality(newer(top)) <= Cardinality(kept)
    BY <1>4, <1>8, FS_Subset
  <2>3. QED
    BY <1>3, <1>4, <1>5, <2>1, <2>2
<1>10. top \in kept
  BY <1>7, <1>9 DEF Newest
<1>11. QED
  BY <1>7, <1>10

\* The ids in the table after the write of a pass: those kept of the ids there
\* and added, less the pruned.
LEMMA CommitRows ==
    ASSUME TypeOK, NEW p \in Passes, Commit(p)
    PROVE  \E top \in 0..MaxId :
             LET w == write[p]
                 left == (DOMAIN concerns \cup (top + 1)..(top + Len(w.add))) \ w.prune
             IN /\ IsTop(concerns, top)
                /\ left \in SUBSET (1..MaxId)
                /\ DOMAIN concerns' = Newest(left, ConcernCap)
                /\ concerns' = ConcernsAfter(w, top)
                /\ \A i \in left \ DOMAIN concerns' : EvictedBy(concerns', i)
<1> USE ConcernsAssumption
<1>1. PICK top \in 0..MaxId :
        /\ IsTop(concerns, top) /\ top + Len(write[p].add) <= MaxId
        /\ concerns' = ConcernsAfter(write[p], top)
  BY DEF Commit
<1> DEFINE left == (DOMAIN concerns \cup (top + 1)..(top + Len(write[p].add))) \ write[p].prune
<1>2. write[p].add \in Seq(Weights) /\ Len(write[p].add) \in Nat
  BY DEF TypeOK, Writes
<1>3. left \in SUBSET (1..MaxId)
  BY <1>1, <1>2 DEF TypeOK, IsTable, Ids
<1>4. DOMAIN concerns' = Newest(left, ConcernCap)
  BY <1>1 DEF ConcernsAfter
<1>5. \A i \in left \ DOMAIN concerns' : EvictedBy(concerns', i)
  <2> HIDE DEF left
  <2>1. SUFFICES ASSUME NEW i \in left, i \notin Newest(left, ConcernCap)
                 PROVE  EvictedBy(concerns', i)
    BY <1>4
  <2>2. IsFiniteSet({j \in left : j > i})
    <3>1. IsFiniteSet(1..MaxId)
      BY FS_Interval
    <3>2. {j \in left : j > i} \subseteq 1..MaxId
      BY <1>3
    <3>3. QED
      BY <3>1, <3>2, FS_Subset
  <2>3. Cardinality({j \in left : j > i}) \in Nat
    BY <2>2, FS_CardinalityType
  <2>4. ~(Cardinality({j \in left : j > i}) < ConcernCap)
    BY <2>1 DEF Newest
  <2>5. Cardinality({j \in left : j > i}) >= ConcernCap
    BY <2>3, <2>4
  <2>6. Cardinality({j \in Newest(left, ConcernCap) : j > i}) >= ConcernCap
    BY <1>3, <2>5, CapFilled
  <2>7. QED
    BY <1>4, <2>6 DEF EvictedBy
<1>6. QED
  BY <1>1, <1>3, <1>4, <1>5

\* However passes overlap, a commit deletes no concern that has not faded, unless
\* another pass has written it meanwhile: not the one this pass was shown, nor one
\* whose id its answer repeats.
THEOREM KeepsLive == Spec => UntouchedLiveStays
<1>1. TypeOK /\ PassesHold /\ [Next]_vars
        => [\A p \in Passes : Commit(p) =>
              \A i \in DOMAIN concerns \ DOMAIN concerns' :
                  Decayed(concerns[i]) \/ EvictedBy(concerns', i) \/ i \in staleIds[p]]_vars
  <2>1. SUFFICES ASSUME TypeOK, PassesHold, NEW p \in Passes, Commit(p),
                        NEW i \in DOMAIN concerns \ DOMAIN concerns', i \notin staleIds[p]
                 PROVE  Decayed(concerns[i]) \/ EvictedBy(concerns', i)
    OBVIOUS
  <2>2. CASE i \in write[p].prune
    BY <2>1, <2>2 DEF PassesHold, PassHolds, WriteHolds
  <2>3. CASE i \notin write[p].prune
    BY <2>1, <2>3, CommitRows
  <2>4. QED
    BY <2>2, <2>3
<1>2. QED
  BY <1>1, PassesStayTrue, PTL DEF Spec, UntouchedLiveStays

\* However passes overlap and whether its read failed or not, a commit moves no
\* weight by more than MAX_DELTA but that of a row written meanwhile.
THEOREM WeightsMoveSlowly == Spec => BoundedWeightStep
<1>1. TypeOK /\ PassesHold /\ [Next]_vars
        => [\A p \in Passes : Commit(p) =>
              \A i \in (DOMAIN concerns \cap DOMAIN concerns') \ staleIds[p] :
                  concerns'[i].weight - concerns[i].weight \in (-MaxDelta)..MaxDelta]_vars
  <2>1. SUFFICES ASSUME TypeOK, PassesHold, NEW p \in Passes, Commit(p),
                        NEW i \in (DOMAIN concerns \cap DOMAIN concerns') \ staleIds[p]
                 PROVE  concerns'[i].weight - concerns[i].weight \in (-MaxDelta)..MaxDelta
    OBVIOUS
  <2> DEFINE w == write[p]
  <2>2. PICK top \in 0..MaxId : IsTop(concerns, top) /\ concerns' = ConcernsAfter(w, top)
    BY <2>1, CommitRows
  <2>3. ~(i > top) /\ concerns[i] \in Rows
    <3>1. i <= top /\ i \in Ids /\ concerns[i] \in Rows
      BY <2>1, <2>2 DEF IsTop, TypeOK, IsTable
    <3>2. QED
      BY <3>1 DEF Ids
  <2> DEFINE updated == IF \E u \in w.update : u.id = i
                        THEN [weight |-> (CHOOSE u \in w.update : u.id = i).weight, idle |-> 0]
                        ELSE concerns[i]
  <2>4. concerns'[i] = IF i \in w.resolve THEN [updated EXCEPT !.idle = 0] ELSE updated
    <3>1. i \in DOMAIN ConcernsAfter(w, top)
      BY <2>1, <2>2
    <3> DEFINE row == IF i > top THEN [weight |-> w.add[i - top], idle |-> 0] ELSE concerns[i]
               next(r) == IF \E u \in w.update : u.id = i
                          THEN [weight |-> (CHOOSE u \in w.update : u.id = i).weight, idle |-> 0]
                          ELSE r
    <3>2. ConcernsAfter(w, top)[i]
            = IF i \in w.resolve THEN [next(row) EXCEPT !.idle = 0] ELSE next(row)
      BY <3>1 DEF ConcernsAfter
    <3>3. row = concerns[i] /\ updated = next(concerns[i])
      BY <2>3
    <3> HIDE DEF row, next, updated
    <3>4. QED
      BY <2>2, <3>2, <3>3
  <2>5. updated \in [weight : Weights, idle : 0..MaxIdle]
    <3>1. ASSUME \E u \in w.update : u.id = i
          PROVE  (CHOOSE u \in w.update : u.id = i).weight \in Weights
      <4>1. w.update \subseteq [id : Ids, weight : Weights]
        BY <2>1 DEF TypeOK, Writes
      <4>2. (CHOOSE u \in w.update : u.id = i) \in w.update
        BY <3>1
      <4>3. QED
        BY <4>1, <4>2
    <3>2. 0 \in 0..MaxIdle
      BY ConcernsAssumption
    <3>3. QED
      BY <2>3, <3>1, <3>2 DEF Rows
  <2>6. concerns'[i].weight = updated.weight
    <3> HIDE DEF updated
    <3>1. QED
      BY <2>4, <2>5
  <2>7. CASE \E u \in w.update : u.id = i
    <3>1. PICK u \in w.update : u.id = i /\ updated.weight = u.weight
      BY <2>7
    <3>2. u.weight - concerns[u.id].weight \in (-MaxDelta)..MaxDelta
      BY <2>1, <3>1 DEF PassesHold, PassHolds, WriteHolds
    <3> HIDE DEF updated
    <3>3. QED
      BY <2>6, <3>1, <3>2
  <2>8. CASE ~(\E u \in w.update : u.id = i)
    <3>1. concerns'[i].weight = concerns[i].weight /\ concerns[i].weight \in Int
      BY <2>3, <2>6, <2>8 DEF Rows, Weights
    <3>2. QED
      BY <3>1, ConcernsAssumption
  <2>9. QED
    BY <2>7, <2>8
<1>2. QED
  BY <1>1, PassesStayTrue, PTL DEF Spec, BoundedWeightStep

\* Nor a trust score but one written meanwhile, if its read succeeded.
THEOREM TrustMovesSlowly == Spec => BoundedTrustStep
<1>1. TypeOK /\ PassesHold /\ [Next]_vars
        => [\A p \in Passes : Commit(p) /\ ~blind[p] =>
              \A k \in DOMAIN trust' \ staleKeys[p] :
                  trust'[k] - (IF k \in DOMAIN trust THEN trust[k] ELSE Baseline)
                    \in (-MaxDelta)..MaxDelta]_vars
  <2>1. SUFFICES ASSUME TypeOK, PassesHold, NEW p \in Passes, Commit(p), ~blind[p],
                        NEW k \in DOMAIN trust' \ staleKeys[p]
                 PROVE  trust'[k] - ScoreRead(trust, k) \in (-MaxDelta)..MaxDelta
    BY DEF ScoreRead
  <2> DEFINE w == write[p]
  <2>2. PICK kept \in KeptKeys(w) : trust' = TrustAfter(w, kept)
    BY <2>1 DEF Commit
  <2>3. trust'[k] = IF \E s \in w.score : s.key = k
                    THEN (CHOOSE s \in w.score : s.key = k).value ELSE trust[k]
    BY <2>2 DEF TrustAfter
  <2>4. CASE \E s \in w.score : s.key = k
    <3>1. PICK s \in w.score : s.key = k /\ trust'[k] = s.value
      BY <2>3, <2>4
    <3>2. QED
      BY <2>1, <3>1 DEF PassesHold, PassHolds, WriteHolds
  <2>5. CASE ~(\E s \in w.score : s.key = k)
    <3>1. k \in kept /\ kept \subseteq {s.key : s \in w.score} \cup DOMAIN trust
      BY <2>2 DEF TrustAfter, KeptKeys, KeysNamed
    <3>2. k \in DOMAIN trust
      BY <2>5, <3>1
    <3>3. trust'[k] = trust[k] /\ ScoreRead(trust, k) = trust[k] /\ trust[k] \in Weights
      BY <2>1, <2>3, <2>5, <3>2 DEF ScoreRead, TypeOK, IsTable
    <3>4. QED
      BY <3>3, ConcernsAssumption DEF Weights
  <2>6. QED
    BY <2>4, <2>5
<1>2. QED
  BY <1>1, PassesStayTrue, PTL DEF Spec, BoundedTrustStep

\* The highest id is one.
LEMMA TopUnique ==
    ASSUME NEW table, NEW N \in Nat, DOMAIN table \subseteq 1..N,
           NEW top \in 0..N, IsTop(table, top), NEW other \in 0..N, IsTop(table, other)
    PROVE  top = other
<1>1. top = 0 => DOMAIN table = {}
  BY DEF IsTop
<1>2. other = 0 => DOMAIN table = {}
  BY DEF IsTop
<1>3. CASE DOMAIN table = {}
  BY <1>3 DEF IsTop
<1>4. CASE DOMAIN table # {}
  BY <1>1, <1>2, <1>4 DEF IsTop
<1>5. QED
  BY <1>3, <1>4

\* A row a pass adds is there after its commit, under the next id, unless the pass
\* has read a row with that id and another has removed it: it adds no more rows
\* than the cap holds, and names no other row that is not there.
LEMMA AddedStay ==
    ASSUME TypeOK, PassesHold, NEW p \in Passes, Commit(p),
           NEW top \in 0..MaxId, IsTop(concerns, top),
           NEW n \in DOMAIN write[p].add, top + n \notin staleIds[p]
    PROVE  /\ top + n \in DOMAIN concerns'
           /\ concerns'[top + n] = [weight |-> write[p].add[n], idle |-> 0]
<1> USE ConcernsAssumption
<1> DEFINE w == write[p]
           left == (DOMAIN concerns \cup (top + 1)..(top + Len(w.add))) \ w.prune
           i == top + n
<1>1. /\ w.add \in Seq(Weights) /\ DOMAIN w.add = 1..Len(w.add) /\ Len(w.add) \in Nat
      /\ Len(w.add) <= ConcernCap
      /\ w.update \subseteq [id : Ids, weight : Weights]
      /\ IdsNamed(w) \ staleIds[p] \subseteq DOMAIN concerns
  BY DEF TypeOK, Writes, PassesHold, PassHolds, WriteHolds
<1>2. /\ left \in SUBSET (1..MaxId)
      /\ DOMAIN concerns' = Newest(left, ConcernCap)
      /\ concerns' = ConcernsAfter(w, top)
  <2>1. PICK other \in 0..MaxId :
          LET rest == (DOMAIN concerns \cup (other + 1)..(other + Len(w.add))) \ w.prune
          IN /\ IsTop(concerns, other)
             /\ rest \in SUBSET (1..MaxId)
             /\ DOMAIN concerns' = Newest(rest, ConcernCap)
             /\ concerns' = ConcernsAfter(w, other)
    BY CommitRows
  <2>2. DOMAIN concerns \subseteq 1..MaxId
    BY DEF TypeOK, IsTable, Ids
  <2>3. other = top
    BY <2>1, <2>2, TopUnique
  <2>4. QED
    BY <2>1, <2>3
<1>3. /\ i \in Nat /\ i > top /\ i <= top + Len(w.add)
      /\ \A j \in DOMAIN concerns : j \in Nat /\ j <= top
  BY <1>1 DEF IsTop, TypeOK, IsTable, Ids
<1>4. i \notin IdsNamed(w)
  BY <1>1, <1>3
<1>5. i \in left
  BY <1>1, <1>3, <1>4 DEF IdsNamed
<1>6. Cardinality({j \in left : j > i}) < ConcernCap
  <2>1. {j \in left : j > i} \subseteq (top + 2)..(top + Len(w.add))
    BY <1>1, <1>3
  <2>2. /\ IsFiniteSet((top + 2)..(top + Len(w.add)))
        /\ Cardinality((top + 2)..(top + Len(w.add))) < ConcernCap
    <3> DEFINE low == top + 2
               length == Len(w.add)
               high == top + length
    <3>1. low \in Int /\ high \in Int /\ high - low + 1 < ConcernCap /\ 0 < ConcernCap
      <4>1. length \in Nat /\ length <= ConcernCap /\ n \in 1..length
        BY <1>1
      <4> HIDE DEF length
      <4>2. top \in Nat
        OBVIOUS
      <4>3. QED
        BY <4>1, <4>2
    <3> HIDE DEF low, length, high
    <3>2. /\ IsFiniteSet(low..high)
          /\ Cardinality(low..high) = IF low > high THEN 0 ELSE high - low + 1
      BY <3>1, FS_Interval
    <3>3. QED
      BY <3>1, <3>2 DEF low, length, high
  <2> DEFINE newer == {j \in left : j > i}
  <2> HIDE DEF newer
  <2>3. /\ Cardinality(newer) <= Cardinality((top + 2)..(top + Len(w.add)))
        /\ IsFiniteSet(newer)
    BY <2>1, <2>2, FS_Subset DEF newer
  <2>4. Cardinality(newer) \in Nat /\ Cardinality((top + 2)..(top + Len(w.add))) \in Nat
    BY <2>2, <2>3, FS_CardinalityType
  <2>5. QED
    BY <2>2, <2>3, <2>4 DEF newer
<1>7. i \in DOMAIN concerns'
  BY <1>2, <1>5, <1>6 DEF Newest
<1>8. concerns'[i] = [weight |-> w.add[n], idle |-> 0]
  <2>1. i \notin w.resolve /\ ~(\E u \in w.update : u.id = i)
    BY <1>4 DEF IdsNamed, IdsOf
  <2>2. i - top = n
    BY <1>1, <1>2
  <2> HIDE DEF i
  <2>3. QED
    BY <1>2, <1>3, <1>7, <2>1, <2>2 DEF ConcernsAfter
<1>9. QED
  BY <1>7, <1>8

\* A row a pass adjusts or resolves stays, idle for no time, unless newer ones fill
\* the table or another pass has written it: the pass does not prune what it names.
LEMMA NamedStay ==
    ASSUME TypeOK, PassesHold, NEW p \in Passes, Commit(p),
           NEW i \in (IdsOf(write[p].update) \cup write[p].resolve) \ staleIds[p]
    PROVE  IF i \in DOMAIN concerns' THEN concerns'[i].idle = 0 ELSE EvictedBy(concerns', i)
<1> DEFINE w == write[p]
<1>1. /\ i \in DOMAIN concerns /\ i \notin w.prune
      /\ w.update \subseteq [id : Ids, weight : Weights]
  BY DEF TypeOK, Writes, PassesHold, PassHolds, WriteHolds, IdsNamed
<1>2. PICK top \in 0..MaxId :
        LET left == (DOMAIN concerns \cup (top + 1)..(top + Len(w.add))) \ w.prune
        IN /\ IsTop(concerns, top)
           /\ concerns' = ConcernsAfter(w, top)
           /\ \A k \in left \ DOMAIN concerns' : EvictedBy(concerns', k)
  BY CommitRows
<1>3. i \notin DOMAIN concerns' => EvictedBy(concerns', i)
  BY <1>1, <1>2
<1>4. ASSUME i \in DOMAIN concerns' PROVE concerns'[i].idle = 0
  <2> DEFINE old == concerns[i]
             updated == IF \E u \in w.update : u.id = i
                        THEN [weight |-> (CHOOSE u \in w.update : u.id = i).weight, idle |-> 0]
                        ELSE old
  <2>1. ~(i > top)
    <3>1. i <= top /\ i \in Ids
      BY <1>1, <1>2 DEF IsTop, TypeOK, IsTable
    <3>2. QED
      BY <3>1 DEF Ids
  <2>2. concerns'[i] = IF i \in w.resolve THEN [updated EXCEPT !.idle = 0] ELSE updated
    BY <1>2, <1>4, <2>1 DEF ConcernsAfter
  <2>3. old \in Rows
    BY <1>1 DEF TypeOK, IsTable
  <2>4. CASE i \in w.resolve
    <3>1. "idle" \in DOMAIN updated
      BY <2>3 DEF Rows
    <3> HIDE DEF updated
    <3>2. QED
      BY <2>2, <2>4, <3>1
  <2>5. CASE i \notin w.resolve
    <3>1. \E u \in w.update : u.id = i
      BY <2>5 DEF IdsOf
    <3>2. QED
      BY <2>2, <2>5, <3>1
  <2>6. QED
    BY <2>4, <2>5
<1>5. QED
  BY <1>3, <1>4

\* What a pass adds, adjusts or resolves is not lost by its commit, unless another
\* pass has written that row meanwhile.
THEOREM NamedNotLost == Spec => NothingNamedIsLost
<1>1. TypeOK /\ PassesHold /\ [Next]_vars
        => [\A p \in Passes : Commit(p) =>
              /\ \A i \in (IdsOf(write[p].update) \cup write[p].resolve) \ staleIds[p] :
                    IF i \in DOMAIN concerns' THEN concerns'[i].idle = 0
                                              ELSE EvictedBy(concerns', i)
              /\ \A top \in 0..MaxId, n \in DOMAIN write[p].add :
                    IsTop(concerns, top) /\ top + n \notin staleIds[p] =>
                        /\ top + n \in DOMAIN concerns'
                        /\ concerns'[top + n] = [weight |-> write[p].add[n], idle |-> 0]]_vars
  BY AddedStay, NamedStay
<1>2. QED
  BY <1>1, PassesStayTrue, PTL DEF Spec, NothingNamedIsLost
=============================================================================
