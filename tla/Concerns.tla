------------------------------ MODULE Concerns ------------------------------
(***************************************************************************)
(* What a reflection pass does to the concerns, contradictions and trust   *)
(* scores (anansi/reflection.py apply_reflection, anansi/store.py          *)
(* read_snapshot and apply_deltas).  apply_reflection reads one table after *)
(* the other over one connection, composes a write from them and from the  *)
(* model's answer, and commits it over another connection: other passes'   *)
(* commits can lie anywhere in between.  Concerns fade while nobody touches *)
(* them; only a pass that finds one faded deletes it.                      *)
(***************************************************************************)
EXTENDS Integers, FiniteSets, Sequences

CONSTANTS Passes,           \* threads that may run apply_reflection
          Keys,             \* trust keys
          Answers,          \* documents the model may return, before coercion
          MaxId,            \* bound: ids of concerns
          MaxDispute,       \* bound: ids of contradictions
          ConcernCap, ContradictionCap, TrustCap,     \* store.CAPS
          MaxWeight,        \* weights and scores are 0..MaxWeight
          Baseline,         \* the score an absent trust key starts at
          MaxDelta,         \* reflection.MAX_DELTA
          MaxIdle,          \* bound: half-lives after which idling shows no more
          FadesBelow,       \* FadesBelow[i]: weights that i idle half-lives bring
                            \* under DECAY_PRUNE_THRESHOLD
          ReadsMayFail      \* whether a read can hit a locked or unreadable file

Weights == 0..MaxWeight
Ids == 1..MaxId
Disputes == 1..MaxDispute

ASSUME ConcernsAssumption ==
    /\ MaxId \in Nat /\ MaxDispute \in Nat /\ MaxWeight \in Nat /\ MaxDelta \in Nat /\ MaxIdle \in Nat
    /\ ConcernCap \in Nat /\ ContradictionCap \in Nat \ {0} /\ TrustCap \in Nat
    /\ Baseline \in Weights
    /\ FadesBelow \in [0..MaxIdle -> Nat]
    /\ \A i \in 0..MaxIdle : i + 1 <= MaxIdle => FadesBelow[i] <= FadesBelow[i + 1]
    /\ ReadsMayFail \in BOOLEAN
    /\ IsFiniteSet(Keys)

\* parse_reflection caps the list of new concerns below the table's cap.
ASSUME AnswersAssumption ==
    \A a \in Answers :
        /\ a.new \in Seq(Int) /\ Len(a.new) <= ConcernCap
        /\ a.adjust \in Seq([name : Int, delta : Int])
        /\ a.resolve \subseteq Int
        /\ a.found \in Nat
        /\ a.settle \subseteq Int
        /\ a.trust \in Seq([name : Keys, delta : Int])

VARIABLES concerns,        \* id |-> [weight, idle]: idle half-lives since updated_at
          contradictions,  \* id |-> resolved
          trust,           \* key |-> score
          pc, write,       \* each pass's position and composed write
          rows, disputes,  \* concerns and contradictions as each pass has read them
          blind,           \* each pass: its read failed
          staleIds,        \* history: of the concerns a pass read or its write names,
                           \* those that other passes have written since
          staleKeys,       \* history: of the keys its write names, likewise
          assigned         \* history: contradiction ids ever assigned

db == <<concerns, contradictions, trust>>
view == <<rows, disputes>>
history == <<staleIds, staleKeys, assigned>>
vars == <<db, pc, write, view, blind, history>>

-----------------------------------------------------------------------------
Rows == [weight : Weights, idle : 0..MaxIdle]

\* Tables are functions from the keys present.
IsTable(table, keys, values) ==
    /\ DOMAIN table \subseteq keys
    /\ table \in [DOMAIN table -> values]

EmptyTable == [key \in {} |-> 0]

Writes == [add : Seq(Weights), update : SUBSET [id : Ids, weight : Weights],
           resolve : SUBSET Ids, prune : SUBSET Ids,
           found : Nat, settle : SUBSET Disputes,
           score : SUBSET [key : Keys, value : Weights]]

NoWrite == [add |-> <<>>, update |-> {}, resolve |-> {}, prune |-> {},
            found |-> 0, settle |-> {}, score |-> {}]

Clamp(value, low, high) ==
    IF value < low THEN low ELSE IF value > high THEN high ELSE value

\* Mutant of CoerceDelta: the model's own delta is applied.
TrustDelta(raw) == raw

CoerceDelta(raw) == Clamp(raw, -MaxDelta, MaxDelta)

\* effective_weight < DECAY_PRUNE_THRESHOLD.
Decayed(row) == row.weight < FadesBelow[row.idle]

\* Mutant of Newest: the cap is off by one.
NewestAndOne(ids, n) == {i \in ids : Cardinality({j \in ids : j > i}) <= n}

\* ORDER BY id DESC LIMIT n.
Newest(ids, n) == {i \in ids : Cardinality({j \in ids : j > i}) < n}

\* INTEGER PRIMARY KEY without AUTOINCREMENT: one above the highest present.
IsTop(table, top) ==
    /\ top \in {0} \cup DOMAIN table
    /\ \A i \in DOMAIN table : i <= top

-----------------------------------------------------------------------------
\* A later entry of a list overrides an earlier one with the same name.
Prevailing(list) ==
    {i \in DOMAIN list : \A j \in DOMAIN list : list[j].name = list[i].name => j <= i}

\* concern_adjustments: absolute weights, from the rows read and for them only.
Adjusted(list, base) ==
    {[id |-> list[i].name,
      weight |-> Clamp(base[list[i].name].weight + CoerceDelta(list[i].delta), 0, MaxWeight)]
        : i \in {k \in Prevailing(list) : list[k].name \in DOMAIN base}}

\* Mutant of Prunable: a row the pass has just adjusted goes all the same.
PrunableTouched(base, touched) == {i \in DOMAIN base : Decayed(base[i])}

\* Mutant of Prunable: a row at the threshold goes too.
PrunableAtThreshold(base, touched) ==
    {i \in DOMAIN base \ touched : base[i].weight <= FadesBelow[base[i].idle]}

\* concerns_prune: decayed when read, and not adjusted or resolved by this pass.
Prunable(base, touched) == {i \in DOMAIN base \ touched : Decayed(base[i])}

\* Mutant of ScoreRead: every adjustment starts from the baseline.
ScoreReset(scores, key) == Baseline

ScoreRead(scores, key) == IF key \in DOMAIN scores THEN scores[key] ELSE Baseline

\* trust_adjustments: absolute scores.
Scored(list, scores) ==
    {[key |-> list[i].name,
      value |-> Clamp(ScoreRead(scores, list[i].name) + CoerceDelta(list[i].delta),
                      0, MaxWeight)] : i \in Prevailing(list)}

IdsOf(updates) == {u.id : u \in updates}

\* The concerns a write changes or deletes by their ids, and the keys it scores.
IdsNamed(w) == IdsOf(w.update) \cup w.resolve \cup w.prune
KeysNamed(w) == {s.key : s \in w.score}

\* The deltas apply_reflection hands to apply_deltas.
Compose(answer, base, open, scores) ==
    LET update == Adjusted(answer.adjust, base)
        resolve == answer.resolve \cap DOMAIN base
    IN [add |-> [i \in DOMAIN answer.new |-> Clamp(answer.new[i], 0, MaxWeight)],
        update |-> update,
        resolve |-> resolve,
        prune |-> Prunable(base, IdsOf(update) \cup resolve),
        found |-> answer.found,
        settle |-> answer.settle \cap DOMAIN open,
        score |-> Scored(answer.trust, scores)]

\* The concerns after the statements of a write, in their order: additions,
\* adjustments, resolutions, prunes, cap.  An UPDATE or DELETE acts on whatever
\* row has the id by then.
ConcernsAfter(w, top) ==
    LET all == DOMAIN concerns \cup (top + 1)..(top + Len(w.add))
        row(i) == IF i > top THEN [weight |-> w.add[i - top], idle |-> 0] ELSE concerns[i]
        updated(i) == IF \E u \in w.update : u.id = i
                      THEN [weight |-> (CHOOSE u \in w.update : u.id = i).weight, idle |-> 0]
                      ELSE row(i)
        resolved(i) == IF i \in w.resolve THEN [updated(i) EXCEPT !.idle = 0] ELSE updated(i)
    IN [i \in Newest(all \ w.prune, ConcernCap) |-> resolved(i)]

\* Mutant of ContradictionsAfter: a settled contradiction is deleted.
ContradictionsWithoutSettled(w, top) ==
    LET all == (DOMAIN contradictions \cup (top + 1)..(top + w.found)) \ w.settle IN
    [i \in Newest(all, ContradictionCap) |-> i <= top /\ contradictions[i]]

ContradictionsAfter(w, top) ==
    LET all == DOMAIN contradictions \cup (top + 1)..(top + w.found) IN
    [i \in Newest(all, ContradictionCap) |->
        i \in w.settle \/ (i <= top /\ contradictions[i])]

\* The trust scores after a write.  The cap keeps the newest updated_at, a time
\* each commit takes before it waits for the database: which keys these are is
\* left open, even that they are the ones just written.
TrustAfter(w, kept) ==
    [k \in kept |-> IF \E s \in w.score : s.key = k
                    THEN (CHOOSE s \in w.score : s.key = k).value ELSE trust[k]]

KeptKeys(w) ==
    LET all == KeysNamed(w) \cup DOMAIN trust IN
    {kept \in SUBSET all :
        IF Cardinality(all) <= TrustCap THEN kept = all
                                        ELSE Cardinality(kept) = TrustCap}

-----------------------------------------------------------------------------
TypeOK ==
    /\ IsTable(concerns, Ids, Rows) /\ Cardinality(DOMAIN concerns) <= ConcernCap
    /\ IsTable(contradictions, Disputes, BOOLEAN)
    /\ Cardinality(DOMAIN contradictions) <= ContradictionCap
    /\ IsTable(trust, Keys, Weights) /\ Cardinality(DOMAIN trust) <= TrustCap
    /\ pc \in [Passes -> {"idle", "contradictions", "trust", "commit"}]
    /\ write \in [Passes -> Writes]
    /\ DOMAIN rows = Passes /\ DOMAIN disputes = Passes
    /\ \A p \in Passes : IsTable(rows[p], Ids, Rows) /\ IsTable(disputes[p], Disputes, BOOLEAN)
    /\ blind \in [Passes -> BOOLEAN]
    /\ staleIds \in [Passes -> SUBSET Ids]
    /\ staleKeys \in [Passes -> SUBSET Keys]
    /\ assigned \subseteq Disputes

Init ==
    /\ concerns = EmptyTable /\ contradictions = EmptyTable /\ trust = EmptyTable
    /\ pc = [p \in Passes |-> "idle"]
    /\ write = [p \in Passes |-> NoWrite]
    /\ rows = [p \in Passes |-> EmptyTable]
    /\ disputes = [p \in Passes |-> EmptyTable]
    /\ blind = [p \in Passes |-> FALSE]
    /\ staleIds = [p \in Passes |-> {}]
    /\ staleKeys = [p \in Passes |-> {}]
    /\ assigned = {}

\* The model has answered: read_snapshot reads the concerns.
ReadConcerns(p) ==
    /\ pc[p] = "idle"
    /\ rows' = [rows EXCEPT ![p] = concerns]
    /\ pc' = [pc EXCEPT ![p] = "contradictions"]
    /\ UNCHANGED <<db, write, disputes, blind, history>>

\* After looking up the momentum of every goal, it reads the contradictions.
ReadContradictions(p) ==
    /\ pc[p] = "contradictions"
    /\ disputes' = [disputes EXCEPT ![p] = contradictions]
    /\ pc' = [pc EXCEPT ![p] = "trust"]
    /\ UNCHANGED <<db, write, rows, blind, history>>

\* What was read is in the write, and forgotten.
Forget(p) ==
    /\ rows' = [rows EXCEPT ![p] = EmptyTable]
    /\ disputes' = [disputes EXCEPT ![p] = EmptyTable]

\* It reads the trust scores, the last table of the write, which is composed.
ReadTrust(p) ==
    /\ pc[p] = "trust"
    /\ \E a \in Answers :
        write' = [write EXCEPT ![p] = Compose(a, rows[p], disputes[p], trust)]
    /\ Forget(p)
    /\ pc' = [pc EXCEPT ![p] = "commit"]
    /\ staleIds' = [staleIds EXCEPT ![p] = @ \cap IdsNamed(write'[p])]
    /\ UNCHANGED <<db, blind, staleKeys, assigned>>

\* One of the reads fails, and all of them are lost: "or {}" goes on with an
\* empty state.
ReadFails(p) ==
    /\ ReadsMayFail
    /\ pc[p] \in {"idle", "contradictions", "trust"}
    /\ \E a \in Answers :
        write' = [write EXCEPT ![p] = Compose(a, EmptyTable, EmptyTable, EmptyTable)]
    /\ Forget(p)
    /\ blind' = [blind EXCEPT ![p] = TRUE]
    /\ pc' = [pc EXCEPT ![p] = "commit"]
    /\ staleIds' = [staleIds EXCEPT ![p] = {}]
    /\ UNCHANGED <<db, staleKeys, assigned>>

Return(p) ==
    /\ pc' = [pc EXCEPT ![p] = "idle"]
    /\ write' = [write EXCEPT ![p] = NoWrite]
    /\ blind' = [blind EXCEPT ![p] = FALSE]
    /\ UNCHANGED view

\* The keys whose rows differ between two states of a table.
Touched(before, after) ==
    {k \in DOMAIN before \cup DOMAIN after :
        ~(k \in DOMAIN before /\ k \in DOMAIN after /\ before[k] = after[k])}

\* What a commit of p touches of what another pass knows is stale for that one.
Outdate(p, stale, touched, Known(_)) ==
    [q \in Passes |-> IF q = p THEN {} ELSE stale[q] \cup (touched \cap Known(q))]

IdsKnown(q) == DOMAIN rows[q] \cup IdsNamed(write[q])
KeysKnown(q) == KeysNamed(write[q])

\* apply_deltas: one transaction.
Commit(p) ==
    /\ pc[p] = "commit"
    /\ \E top \in 0..MaxId :
        /\ IsTop(concerns, top) /\ top + Len(write[p].add) <= MaxId
        /\ concerns' = ConcernsAfter(write[p], top)
    /\ \E last \in 0..MaxDispute :
        /\ IsTop(contradictions, last) /\ last + write[p].found <= MaxDispute
        /\ contradictions' = ContradictionsAfter(write[p], last)
        /\ assigned' = assigned \cup (last + 1)..(last + write[p].found)
    /\ \E kept \in KeptKeys(write[p]) : trust' = TrustAfter(write[p], kept)
    /\ staleIds' = Outdate(p, staleIds, Touched(concerns, concerns'), IdsKnown)
    /\ staleKeys' = Outdate(p, staleKeys, Touched(trust, trust'), KeysKnown)
    /\ Return(p)

\* apply_deltas answers False: rolled back.
CommitFails(p) ==
    /\ pc[p] = "commit"
    /\ staleIds' = [staleIds EXCEPT ![p] = {}]
    /\ staleKeys' = [staleKeys EXCEPT ![p] = {}]
    /\ Return(p)
    /\ UNCHANGED <<db, assigned>>

\* Another half-life passes.
Idle ==
    /\ concerns' = [i \in DOMAIN concerns |->
         IF concerns[i].idle < MaxIdle THEN [concerns[i] EXCEPT !.idle = @ + 1] ELSE concerns[i]]
    /\ UNCHANGED <<contradictions, trust, pc, write, view, blind, history>>

Next ==
    \/ \E p \in Passes : \/ ReadConcerns(p) \/ ReadContradictions(p) \/ ReadTrust(p)
                         \/ ReadFails(p) \/ Commit(p) \/ CommitFails(p)
    \/ Idle

Spec == Init /\ [][Next]_vars

-----------------------------------------------------------------------------
\* A row that has been evicted: newer ones fill the table.
EvictedBy(table, i) == Cardinality({j \in DOMAIN table : j > i}) >= ConcernCap

\* However passes overlap, a commit deletes a concern only when it has decayed or
\* newer ones fill the cap ("rows whose lazily-decayed weight fell below the
\* threshold"), whatever time has passed since the read and whatever the answer
\* names, unless another pass has written that row since this one read it.
UntouchedLiveStays ==
    [][\A p \in Passes : Commit(p) =>
          \A i \in DOMAIN concerns \ DOMAIN concerns' :
              Decayed(concerns[i]) \/ EvictedBy(concerns', i) \/ i \in staleIds[p]]_vars

\* What a pass adjusts or resolves ("skipping rows this pass just
\* adjusted/resolved") is in the table after its commit, idle for no time, unless
\* newer rows fill it or another pass has written the row since.  What it adds is
\* there under the next id as it was asked for, unless that id is of a row the
\* pass has read and another has removed.
NothingNamedIsLost ==
    [][\A p \in Passes : Commit(p) =>
          /\ \A i \in (IdsOf(write[p].update) \cup write[p].resolve) \ staleIds[p] :
                IF i \in DOMAIN concerns' THEN concerns'[i].idle = 0 ELSE EvictedBy(concerns', i)
          /\ \A top \in 0..MaxId, n \in DOMAIN write[p].add :
                IsTop(concerns, top) /\ top + n \notin staleIds[p] =>
                    /\ top + n \in DOMAIN concerns'
                    /\ concerns'[top + n] = [weight |-> write[p].add[n], idle |-> 0]]_vars

\* However passes overlap, a commit moves the weight of a row no other pass has
\* written since by at most MAX_DELTA, whatever the answer repeats or exaggerates
\* and whether the read failed or not.
BoundedWeightStep ==
    [][\A p \in Passes : Commit(p) =>
          \A i \in (DOMAIN concerns \cap DOMAIN concerns') \ staleIds[p] :
              concerns'[i].weight - concerns[i].weight \in (-MaxDelta)..MaxDelta]_vars

\* So it moves a trust score no other pass has written since, counted from the
\* baseline for a new key, if the read succeeded.
BoundedTrustStep ==
    [][\A p \in Passes : Commit(p) /\ ~blind[p] =>
          \A k \in DOMAIN trust' \ staleKeys[p] :
              trust'[k] - (IF k \in DOMAIN trust THEN trust[k] ELSE Baseline)
                \in (-MaxDelta)..MaxDelta]_vars

\* However passes overlap, a contradiction's id is never assigned again, so the
\* contradiction a pass resolves is the one the model was shown: only the cap
\* deletes, and it keeps the highest id.
ContradictionIdsUnique ==
    [][(DOMAIN contradictions' \ DOMAIN contradictions) \cap assigned = {}]_vars
=============================================================================
