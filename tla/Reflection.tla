----------------------------- MODULE Reflection -----------------------------
(***************************************************************************)
(* Reflection passes (anansi/reflection.py maybe_reflect) over the turn    *)
(* log and the watermark the store keeps (anansi/store.py).  A pass reads  *)
(* its inputs in separate read-only connections, asks the shared worker of *)
(* Admission for one LLM call, then composes one write from a fresh read.  *)
(* Turns are captured meanwhile.  Any read can come back empty and any     *)
(* commit can fail: the store degrades and never raises.                   *)
(***************************************************************************)
EXTENDS Admission, Integers, FiniteSets

CONSTANTS Passes,       \* calls of maybe_reflect; the other requests are appraisals
          Sessions, NoSession,
          MaxTurns,     \* bound: turns captured in a behaviour
          TurnCap,      \* store.CAPS["turn_log"]
          SpanLimit,    \* read_turns_since's limit
          EveryN,       \* reflect_every_n_turns
          MaxDelta,     \* reflection.MAX_DELTA
          Bound,        \* the scalar's range is -Bound..Bound
          RawDeltas,    \* what the model may answer, in and out of range
          ReadsMayFail, \* whether a read can hit a locked or unreadable file
          Sequential    \* whether passes come one at a time

ASSUME ReflectionAssumption ==
    /\ Passes \subseteq Requests
    /\ NoSession \notin Sessions
    /\ MaxTurns \in Nat /\ TurnCap \in Nat \ {0} /\ SpanLimit \in Nat \ {0}
    /\ EveryN \in Nat /\ MaxDelta \in Nat /\ Bound \in Nat
    /\ RawDeltas \subseteq Int
    /\ ReadsMayFail \in BOOLEAN /\ Sequential \in BOOLEAN

VARIABLES turns,      \* ids of the turn_log rows
          lastId,     \* the highest id the table has assigned
          watermark,  \* meta last_reflected_turn_log_id, 0 when absent
          lastSeen,   \* meta last_seen_session_id
          affect,     \* one scalar of affect_summary, 0 when absent
          pc, session, wm, seen, span, upto, delta, base,  \* each pass's locals
          reflected,  \* history: turns covered by one commit or more
          again,      \* history: turns covered by two commits or more
          ledger      \* history: every committed delta applied in commit order

db == <<turns, lastId, watermark, lastSeen, affect>>
locals == <<session, wm, seen, span, upto, delta, base>>
history == <<reflected, again, ledger>>
vars == <<db, pc, locals, history, admissionVars>>

Ids == 1..MaxTurns

TypeOK ==
    /\ AdmissionTypeOK
    /\ turns \subseteq Ids
    /\ lastId \in 0..MaxTurns
    /\ watermark \in 0..MaxTurns
    /\ lastSeen \in Sessions \cup {NoSession}
    /\ affect \in (-Bound)..Bound
    /\ pc \in [Passes -> {"idle", "watermark", "seen", "turns", "mark", "llm",
                          "waiting", "base", "commit", "returned"}]
    /\ session \in [Passes -> Sessions \cup {NoSession}]
    /\ wm \in [Passes -> 0..MaxTurns]
    /\ seen \in [Passes -> Sessions \cup {NoSession}]
    /\ span \in [Passes -> SUBSET Ids]
    /\ upto \in [Passes -> 0..MaxTurns]
    /\ delta \in [Passes -> (-MaxDelta)..MaxDelta]
    /\ base \in [Passes -> (-Bound)..Bound]
    /\ reflected \subseteq Ids
    /\ again \subseteq Ids
    /\ ledger \in (-Bound)..Bound

Init ==
    /\ AdmissionInit
    /\ turns = {} /\ lastId = 0
    /\ watermark = 0 /\ lastSeen = NoSession /\ affect = 0
    /\ pc = [p \in Passes |-> "idle"]
    /\ session = [p \in Passes |-> NoSession]
    /\ wm = [p \in Passes |-> 0]
    /\ seen = [p \in Passes |-> NoSession]
    /\ span = [p \in Passes |-> {}]
    /\ upto = [p \in Passes |-> 0]
    /\ delta = [p \in Passes |-> 0]
    /\ base = [p \in Passes |-> 0]
    /\ reflected = {} /\ again = {} /\ ledger = 0

-----------------------------------------------------------------------------
\* Mutant of Clamp: values are stored as computed.
Unclamped(value, low, high) == value

Clamp(value, low, high) ==
    IF value < low THEN low ELSE IF value > high THEN high ELSE value

\* Mutant of CoerceDelta: the model's own delta is applied.
TrustDelta(raw) == raw

CoerceDelta(raw) == Clamp(raw, -MaxDelta, MaxDelta)

InHook(p) == pc[p] \notin {"idle", "returned"}

\* Sequential passes: the host starts one only when no other is under way.
MayStartPass == Sequential => \A p \in Passes : ~InHook(p)

\* post_llm_call: record_turn appends the row and the cap evicts the oldest in
\* the same transaction, whatever passes are under way.  Ids are contiguous: only
\* the oldest rows are deleted.
RecordTurn ==
    /\ lastId < MaxTurns
    /\ lastId' = lastId + 1
    /\ turns' = {t \in turns \cup {lastId + 1} : t > lastId + 1 - TurnCap}
    /\ UNCHANGED <<watermark, lastSeen, affect, pc, locals, history, admissionVars>>

\* on_session_start or on_session_end of some session.
Enter(p) ==
    /\ MayStartPass
    /\ pc[p] = "idle"
    /\ \E s \in Sessions : session' = [session EXCEPT ![p] = s]
    /\ pc' = [pc EXCEPT ![p] = "watermark"]
    /\ UNCHANGED <<db, wm, seen, span, upto, delta, base, history, admissionVars>>

\* Reflection disabled, or no LLM: the pass ends before it reads anything.
SkipDisabled(p) ==
    /\ pc[p] = "watermark"
    /\ pc' = [pc EXCEPT ![p] = "returned"]
    /\ UNCHANGED <<db, locals, history, admissionVars>>

\* get_meta answers None for an absent key and for any error.
ReadWatermark(p) ==
    /\ pc[p] = "watermark"
    /\ \/ wm' = [wm EXCEPT ![p] = watermark]
       \/ ReadsMayFail /\ wm' = [wm EXCEPT ![p] = 0]
    /\ pc' = [pc EXCEPT ![p] = "seen"]
    /\ UNCHANGED <<db, session, seen, span, upto, delta, base, history, admissionVars>>

ReadLastSeen(p) ==
    /\ pc[p] = "seen"
    /\ \/ seen' = [seen EXCEPT ![p] = lastSeen]
       \/ ReadsMayFail /\ seen' = [seen EXCEPT ![p] = NoSession]
    /\ pc' = [pc EXCEPT ![p] = "turns"]
    /\ UNCHANGED <<db, session, wm, span, upto, delta, base, history, admissionVars>>

\* Mutant of ReadTurns: the limit keeps the newest rows.
ReadNewestTurns(p) ==
    LET new == {t \in turns : t > wm[p]} IN
    /\ pc[p] = "turns"
    /\ \/ new = {} /\ UNCHANGED <<span, upto>>
       \/ \E first \in new :
            LET rows == {t \in new : t >= first} IN
            /\ Cardinality(rows) <= SpanLimit
            /\ Cardinality(rows) = SpanLimit \/ rows = new
            /\ span' = [span EXCEPT ![p] = rows]
            /\ upto' = [upto EXCEPT ![p] = lastId]
    /\ pc' = [pc EXCEPT ![p] = "mark"]
    /\ UNCHANGED <<db, session, wm, seen, delta, base, history, admissionVars>>

\* Mutant of ReadTurns: the row at the watermark is read again.
ReadFromWatermark(p) ==
    LET new == {t \in turns : t >= wm[p]} IN
    /\ pc[p] = "turns"
    /\ \/ new = {} /\ UNCHANGED <<span, upto>>
       \/ \E last \in new :
            LET rows == {t \in new : t <= last} IN
            /\ Cardinality(rows) <= SpanLimit
            /\ Cardinality(rows) = SpanLimit \/ rows = new
            /\ span' = [span EXCEPT ![p] = rows]
            /\ upto' = [upto EXCEPT ![p] = last]
    /\ pc' = [pc EXCEPT ![p] = "mark"]
    /\ UNCHANGED <<db, session, wm, seen, delta, base, history, admissionVars>>

\* The rows above the watermark, oldest first, at most SpanLimit; upto is the
\* last one's id.  No rows, or a failed read: an empty span.
ReadTurns(p) ==
    LET new == {t \in turns : t > wm[p]} IN
    /\ pc[p] = "turns"
    /\ \/ /\ new = {} \/ ReadsMayFail
          /\ UNCHANGED <<span, upto>>
       \/ \E last \in new :
            LET rows == {t \in new : t <= last} IN
            /\ Cardinality(rows) <= SpanLimit
            /\ Cardinality(rows) = SpanLimit \/ rows = new
            /\ span' = [span EXCEPT ![p] = rows]
            /\ upto' = [upto EXCEPT ![p] = last]
    /\ pc' = [pc EXCEPT ![p] = "mark"]
    /\ UNCHANGED <<db, session, wm, seen, delta, base, history, admissionVars>>

\* seen is None on the first firing, and counts as a change.
SessionChanged(p) == seen[p] # session[p]

\* The session-change trigger is consumed before the LLM call, and whether or
\* not that commit succeeds the pass goes on to its debounce decision.
MarkSeen(p) ==
    /\ pc[p] = "mark"
    /\ \/ lastSeen' = session[p]
       \/ UNCHANGED lastSeen
    /\ pc' = [pc EXCEPT ![p] =
                IF span[p] = {} \/ (~SessionChanged(p) /\ Cardinality(span[p]) < EveryN)
                THEN "returned" ELSE "llm"]
    /\ UNCHANGED <<turns, lastId, watermark, affect, locals, history, admissionVars>>

\* run_reflection asks for the shared worker.
Ask(p) ==
    /\ pc[p] = "llm"
    /\ \/ Admit(p) /\ pc' = [pc EXCEPT ![p] = "waiting"]
       \/ (Refuse(p) \/ Fail(p)) /\ pc' = [pc EXCEPT ![p] = "returned"]
    /\ UNCHANGED <<db, locals, history>>

\* The caller stops waiting; the work keeps the slot until it ends by itself.
TimeOut(p) ==
    /\ pc[p] = "waiting"
    /\ holder = p
    /\ pc' = [pc EXCEPT ![p] = "returned"]
    /\ UNCHANGED <<db, locals, history, admissionVars>>

\* The work has ended: error or wrong shape, no state is touched.
LlmFails(p) ==
    /\ pc[p] = "waiting"
    /\ holder # p
    /\ pc' = [pc EXCEPT ![p] = "returned"]
    /\ UNCHANGED <<db, locals, history, admissionVars>>

\* parse_reflection bounds what the model asked for.
LlmAnswers(p) ==
    /\ pc[p] = "waiting"
    /\ holder # p
    /\ \E raw \in RawDeltas : delta' = [delta EXCEPT ![p] = CoerceDelta(raw)]
    /\ pc' = [pc EXCEPT ![p] = "base"]
    /\ UNCHANGED <<db, session, wm, seen, span, upto, base, history, admissionVars>>

\* apply_reflection reads the current values; "or {}" turns a failed read into
\* an empty state, whose scalars are 0.
ReadBase(p) ==
    /\ pc[p] = "base"
    /\ \/ base' = [base EXCEPT ![p] = affect]
       \/ ReadsMayFail /\ base' = [base EXCEPT ![p] = 0]
    /\ pc' = [pc EXCEPT ![p] = "commit"]
    /\ UNCHANGED <<db, session, wm, seen, span, upto, delta, history, admissionVars>>

\* Mutant of Commit: the signed scalar is clamped like the unsigned ones.
CommitUnsigned(p) ==
    /\ pc[p] = "commit"
    /\ affect' = Clamp(base[p] + delta[p], 0, Bound)
    /\ watermark' = upto[p]
    /\ reflected' = reflected \cup span[p]
    /\ again' = again \cup (reflected \cap span[p])
    /\ ledger' = Clamp(ledger + delta[p], -Bound, Bound)
    /\ pc' = [pc EXCEPT ![p] = "returned"]
    /\ UNCHANGED <<turns, lastId, lastSeen, locals, admissionVars>>

\* One transaction: the absolute scalar and the watermark, both from the pass's
\* own reads.
Commit(p) ==
    /\ pc[p] = "commit"
    /\ affect' = Clamp(base[p] + delta[p], -Bound, Bound)
    /\ watermark' = upto[p]
    /\ reflected' = reflected \cup span[p]
    /\ again' = again \cup (reflected \cap span[p])
    /\ ledger' = Clamp(ledger + delta[p], -Bound, Bound)
    /\ pc' = [pc EXCEPT ![p] = "returned"]
    /\ UNCHANGED <<turns, lastId, lastSeen, locals, admissionVars>>

\* apply_deltas answered False: rolled back, the span stays unreflected.
CommitFails(p) ==
    /\ pc[p] = "commit"
    /\ pc' = [pc EXCEPT ![p] = "returned"]
    /\ UNCHANGED <<db, locals, history, admissionVars>>

\* An appraisal competes for the worker.
Appraise ==
    /\ \E r \in Requests \ Passes : Admit(r) \/ Refuse(r)
    /\ UNCHANGED <<db, pc, locals, history>>

WorkEnds ==
    /\ Release
    /\ UNCHANGED <<db, pc, locals, history>>

PassStep(p) ==
    \/ Enter(p) \/ SkipDisabled(p) \/ ReadWatermark(p) \/ ReadLastSeen(p) \/ ReadTurns(p)
    \/ MarkSeen(p) \/ Ask(p) \/ TimeOut(p) \/ LlmFails(p) \/ LlmAnswers(p)
    \/ ReadBase(p) \/ Commit(p) \/ CommitFails(p)

Next ==
    \/ RecordTurn
    \/ \E p \in Passes : PassStep(p)
    \/ Appraise
    \/ WorkEnds

Spec == Init /\ [][Next]_vars

-----------------------------------------------------------------------------
\* No captured turn falls between two passes: every turn at or below the
\* watermark was in the span of a pass that committed, or was evicted by the
\* turn_log cap, whatever reads failed and however passes interleave
\* (maybe_reflect: "on failure the watermark does not advance").
NoTurnSkipped ==
    \A t \in 1..watermark : t \in reflected \/ t \notin turns

\* The watermark makes the passes idempotent: no turn is consolidated twice
\* (apply_reflection calls it "the idempotence core").
ReflectedAtMostOnce == again = {}

\* Nobody's committed adjustment is lost: the persisted scalar is what the
\* committed deltas add up to, clamped pass by pass (apply_reflection writes
\* absolute values computed from an earlier read).
NoLostDelta == affect = ledger

\* "+-0.15 max delta per scalar per reflection pass" (MAX_DELTA).
BoundedPassDelta ==
    [][affect' - affect \in (-MaxDelta)..MaxDelta]_vars

Log == INSTANCE Consolidation WITH
           log <- turns, mark <- watermark, once <- reflected \ again, value <- affect

\* However many reads and how long a wait lie between a pass's first read and its
\* commit, the pass is one step: forward, over every turn it passes and no other,
\* with one bounded delta (apply_reflection: "rides in the SAME transaction").
ImplementsConsolidation == Log!ConsolidationSpec
=============================================================================
