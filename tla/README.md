# Anansi plugin: specifications, model checking and proofs

This directory specifies the parts of the Anansi plugin (`src/anansi`) that keep
state, run concurrently or fail in parts.  Line numbers refer to `src/anansi`.
`PROJECT.json` maps every definition that models code to its lines and lists
runs, mutants, hazards, findings and theorems.

## 1. The system

The host loads the plugin and calls four hooks (`__init__.py`).  Everything the
plugin remembers is in one SQLite file, `state.db`; everything it asks of a
language model goes through one worker thread.

| Component | State | Operations | Hard behaviour | What makes it correct |
|---|---|---|---|---|
| Shared worker (`appraisal.py`, `reflection.py`) | `_executor` (one thread), `_active_future`, `_submission_lock` | `_submit_if_idle`, `_before_deadline`, `run_appraisal`, `run_reflection` | several host threads; deadlines; a cancel that races the thread; a provider that never returns; a `submit()` that raises half-way | one reservation, decided at once; outcomes that say what happened; every caller answered; the slot comes back |
| Reflection pass (`reflection.py`) | locals of a pass; `meta.last_reflected_turn_log_id`, `meta.last_seen_session_id`; `affect_summary` | `maybe_reflect`, `parse_reflection`, `apply_reflection` | reads on separate connections before a slow call, a commit after it; overlapping passes; failing reads and commits | no captured turn skipped, none consolidated twice, no committed delta lost, at most `MAX_DELTA` per pass |
| Turn log (`store.py`) | `turn_log` | `record_turn`, `read_turns_since`, cap eviction | the cap evicts what a pass has not read; the limit cuts a span short | as above |
| Store lifecycle (`store.py`) | `state.db`, its structure and version, `state.db.quarantined-*` | `ensure_db`, `_verify_structure`, `_try_upgrade_v4_to_v5`, `_quarantine`, `_create_fresh` | several processes on one path; locks; statement-by-statement commits; death between any two | sound files stay; `True` means complete; version 5 implies its columns; the store recovers |
| Drive (`render.py`, `goals.py`, `store.py`, `__init__.py`) | `goals` | `goals_add/update/status`, `_enforce_goal_cap`, whitelist, enrichment, order, `render_block` | the table changes while a turn waits; overlapping texts; whitelist, budget, pressure and size limit compete with priorities | flagged goals are voiced and kept; measured ages outrank claimed ones; echoes contained; loudest first; no quiet line for an authorized stall |
| Store writes and caps | every table | `apply_deltas` (the only write funnel) | several tables in one transaction, evictions inside it | all or nothing; caps bound what they should |
| Store reads, decay, momentum | none of its own | `read_snapshot`, `get_meta`, momentum from reflogs and file times | a failed read looks like an empty state | what a caller does with an empty answer |
| Concerns, contradictions, trust (`reflection.py`, `store.py`) | `concerns`, `contradictions`, `trust_scores` | `apply_reflection`, decay in `read_snapshot`, prune, caps | a write composed from an earlier read; rows that fade meanwhile; ids assigned again; a failed read | live concerns stay; what a pass names stays; small steps; an id means one contradiction |
| Hooks and session state | `_session_state`, one dictionary for all sessions | `pre_llm_call`, `post_llm_call`, `on_session_start`, `on_session_end` | shared by every session and thread | the kill switch comes first; a session is compared with its own messages |
| Configuration cache | `config._cache`, `config._last_degradations` | `get_cfg`, `reset_cache`, `get_degradations` | test and use on two threads; loads that straddle a reset; edits of the file | the cached configuration is recent; reports match it; `None` only if disturbed |
| Telemetry | `telemetry` table | `record_telemetry`, `telemetry_summary` | appended to, capped, never read by the plugin | never disturbs its caller |
| Prompts, parsing, sanitizing | none | pure functions | string clean-up | unit tests |
| Scripts, tests, planning | not part of the running plugin | | | |

How they interact: `on_session_start` runs `ensure_db`, then `maybe_reflect`;
`on_session_end` runs `maybe_reflect`; `post_llm_call` captures the turn with
`record_turn`; `pre_llm_call` reads configuration and snapshot, filters the
goals, calls `run_appraisal`, enriches and renders its answer.  Appraisals and
reflections compete for the one worker; passes and captured turns meet in
`turn_log`, `meta` and `affect_summary`; several processes meet in the file.

## 2. Modules

| Module | Models | Extends |
|---|---|---|
| `Admission` | abstract: what the worker's slot promises | |
| `Worker` | the gate, the executor, its queue, callers, provider | instantiates `Admission` |
| `Consolidation` | abstract: what reflection promises of the turn log and its scalar | |
| `Reflection` | passes over the turn log, using the slot of `Admission` | `Admission`; instantiates `Consolidation` |
| `StoreLifecycle` | `ensure_db` and everything under it | |
| `Drive` | the goals table, and a turn from its snapshot to its block | |
| `Concerns` | what passes do to concerns, contradictions and trust scores | |
| `Hooks` | the hooks of several sessions over the configuration cache and the throttle | |
| `MC*` | values of the constants for TLC | the module of that name |
| `*Proofs` | theorems and proofs | the module of that name |

A mutant (`... Mutant of X`) is a version of the definition below it with a
plausible bug, used to see that the properties notice it; it is part of no
specification.

### Worker

A request is one call of `run_appraisal` or `run_reflection`.  `pc` is its
caller's position: `gate` (waiting for `_submission_lock`), `check` and `submit`
(inside `_submit_if_idle`, lock held), `wait` (`future.result(timeout)`),
`cancel` (the timeout handler).  `future`, `result` are its `Future`; `active` is
`_active_future`; `queue`, `item`, `phase` are the executor's queue and thread,
modelled as external from the way `concurrent.futures` is used: an item is
queued before a thread is started, a cancelled item stays in the queue and is
discarded when popped, `cancel()` has no effect once it runs.  `expired` says
that the monotonic clock has passed the request's `expires_at`.  `SubmitStrands`
is a `submit()` that raises between queueing and starting the thread; it can
only happen before a thread exists.  `ProviderAnswers` chooses an answer, one of
the wrong shape, a timeout of the provider's own, or an exception; `TrustDenied`
is the host's refusal of the configured model, after which the worker calls once
more with the host's own.  The provider may do neither.

`ImplementsAdmission` states the refinement: the abstract holder is
`_active_future` while unfinished, and the abstract decision is read from the
outcome and the future.

### Reflection

One action per read, because each read of `maybe_reflect` opens its own
connection: watermark, last seen session, turns, and later the base of the
deltas.  `MarkSeen` consumes the session trigger and decides the debounce;
`Ask` uses `Admit`, `Refuse` and `Fail` of `Admission` (justified by the
refinement proved for `Worker`); `TimeOut` leaves the slot occupied.  `Commit` is
one transaction (scalar and watermark), `CommitFails` its rollback.
`RecordTurn` inserts and evicts in one transaction.  `affect` stands for one
signed scalar; `MaxDelta`, `Bound` and `RawDeltas` are integers in place of the
code's decimals, so rounding is not modelled.  `reflected`, `again` and `ledger`
are history variables.

Two constants say what the environment does.  `Sequential`: a pass
starts only when no other is under way; turns are captured at any moment all the
same.  `ReadsMayFail`: any read can come back empty, which is what
the store's readers answer for a locked or unreadable file.  (Readers of a WAL
database are not held up by an ordinary writer; what fails a read is an exclusive
lock, as during recovery or a checkpoint that truncates, or a file that cannot be
opened.)

`ImplementsConsolidation` states what `apply_reflection` calls the idempotence
core: a whole pass, from its first read over the wait for the model to its commit,
is one atomic step of `Consolidation`, which moves the watermark forward,
consolidates every kept turn it passes and none a second time, and adds one bounded
delta.  `log`, `mark` and `value` are `turns`, `watermark` and `affect`; `once` is
`reflected \ again`.

### StoreLifecycle

A file is `empty`, `partial` (schema half created), `v4`, `v5` or `broken`;
`path` is the file the name `state.db` leads to, `handle` the one a process has
open, so that a rename or a removal separates them.  Every function opens a
connection of its own: `OpenPath` opens what the path names by then (a path that
was moved away becomes a new, empty file), and what follows acts on `handle`.
The statements of one inspection (`quick_check`, tables, version) are one step:
what they look for is only ever gained, so the last of them stands for all, and
damage after `quick_check` is later damage.  `ReadColumns` is a step of its own,
since another process may add columns between the version and it.  Each `ALTER
TABLE` and the version are steps too, since none of them runs inside a
transaction.  `columns` counts the upgrade's columns a file has; `next` is the one
a process adds next, computed from the columns it saw and forgotten when its
function ends.  `Lock` toggles another connection's lock at any time; a locked
file is answered by `False` in a verification and in a creation, which it leaves
half done, and by `None` in an upgrade.  `Corrupt` damages the file, `Crash` ends
a process inside `ensure_db`, and `QuarantineFails` is a rename that fails.

### Drive

A text is the set of its words: all that matching (`_goal_text_matches`) looks
at.  `goals` maps ids to rows.  Each write runs the goal cap in the same step, as
`apply_deltas` does.  `days` is the momentum of a row: a positive number of idle
days, 0 for a moving goal, `NoDays` for an unknown one; `Age` changes it.  A
signal's confidence may be 0, which a threshold of 0.0 admits; there a stalled
signal and a moving one of full confidence are equally salient (`Tied`), and the
model's order decides.
`BeginTurn` reads configuration and snapshot and applies the whitelist;
`Answer` chooses the model's signals, keeps those the whitelist allows, enriches
them from the goals and renders; `AppraisalFails` renders nothing.  In between
the table goes on changing.  The block is its drive lines: `wants` (protected),
`notes` (indices of the ordinary signals that surface).  The size limit depends
on the wording of all lines and leaves any number of notes, chosen in
`RenderBlock`; wording and lengths are not modelled.  A `BeginTurn` whose
snapshot cannot be read goes on without goals, as the code does.

### Concerns

`concerns`, `contradictions` and `trust` are functions from the ids or keys
present.  A concern has a `weight` and the half-lives it has been `idle` since
`updated_at`; `Idle` is the clock.  `FadesBelow[i]` is the weight that `i`
half-lives bring under `DECAY_PRUNE_THRESHOLD`, so that the arithmetic of decay
is one monotone table; weights and scores are integers in place of the code's
decimals.  A concern's text and status are left out: the only effect of resolving
a concern that any later step sees is that it is idle for no time again.

`read_snapshot` reads one table after the other, each `SELECT` a transaction of
its own, with the momentum of every goal (git, file times) looked up in between:
`ReadConcerns`, `ReadContradictions` and `ReadTrust`, with `rows` and `disputes`
what a pass has read so far.  The last of them composes the write (`Compose`:
which ids are known, absolute weights and scores, what to prune); `Commit` applies
it in the order of `apply_deltas`' statements, to whatever rows have those ids by
then, caps last.  `ReadFails` is any of the reads failing, which loses all three
(`or {}`); `CommitFails` rolls back.  An answer is any
document of `Answers`, which may name absent rows, repeat itself and exaggerate:
no digest is modelled, because nothing makes a model name what it was shown.  New
ids are one above the highest present, as `INTEGER PRIMARY KEY` without
`AUTOINCREMENT` assigns them.  `KeptKeys` leaves open which trust keys the cap
evicts: the cap keeps the newest `updated_at`, but that time is taken before the
write waits for the database (`store.py:759`), so a commit that overlaps another
can carry the later one, and even a key just written can go.

`staleIds`, `staleKeys` and `assigned` (contradiction ids ever used) are history.
A concern is in `staleIds[p]` if `p` has read it or its write names it, and another
pass's commit has changed, removed or added it since that read; likewise the keys of
`staleKeys`, from the moment the write is composed.  The properties of concerns and
scores speak of every commit, however many passes have overtaken it, and leave out
just those rows, because there the code makes no promise: a pass can prune a
concern another has just resolved or adjusted, or, when the newest concern was
pruned meanwhile, the one it has itself just added under the reused id.
`ContradictionIdsUnique` needs no such premise.

### Hooks

One action per read or write of a shared global, because hooks of two sessions
run on two threads: `Test`, `Load`, `Store`, `Describe`, `Publish` and `Answer` are
the statements of `get_cfg`, `ClearCache` and `ClearDegradations` those of
`reset_cache`, `Rollover` to `Remember` those of `pre_llm_call`'s throttle.  `pc`
and `stage` are a session's position and the hook (or part of one) it is in.
`on_session_start` assigns `_session_state` (`StartSession`, `ClearLast`), resets the
cache, loads it, reports degradations, and enters `maybe_reflect`, which reads the
configuration again.  `Edit` is the user saving the host's file at any moment;
`Load` may also find it unreadable, which counts as an entry that sets nothing.
An entry is the three switches (on, off, malformed) and whether some number in
it makes `float()` overflow, in which case the load raises (`Raise`): the hook
returns, except that `on_session_start`'s diagnostics swallow the exception and
go on to `maybe_reflect`.  What a permitted turn or reflection does then is in
`Drive`, `Reflection` and `Worker`; here it is one step.  Messages are normalized,
and `Trivial` holds those the empty and social-close gates skip.

The history variables say whom a property is about: `seen` holds the entries on
disk or loaded since the cache was last cleared, `straddled` that a load that was
in flight over that clearing may still store its entry, `quiet` that no other
session has written the cache during a hook, `own` each session's own last
message, `torn` that two hooks have overlapped between the rollover test and the
throttle's last write, `permitted` that some entry since the clearing allowed the
turn.  Each premise excludes a behaviour the model has: a load that straddles a
reset does leave a stale configuration in the cache (`config.py:324`), a reset
between two reads of `_cache` does make `get_cfg` answer `None` and its hook fail
open (`config.py:314`), and two overlapping turns can make a skip as duplicate
unjustified (`__init__.py:215`).

## 3. Runs

| Run | Shows | Bounds, and why they suffice |
|---|---|---|
| `worker` | types; one reservation; truthful outcomes; no late entry; the refinement; every caller answered; the slot recovers | two appraisals (with and without a configured model) and a reflection with one: one request holds, one competes, one finds what the first left behind, and each kind meets the fallback; 0.77 million states |
| `worker_late_fallback` | finding 1 | the same |
| `reflection_sequential` | passes one at a time, captures at any time, readable files: no turn reflected twice, no delta lost, the per-pass bound, the refinement of `Consolidation`, with every outcome of worker, model and commit | three passes, two sessions, an appraisal; five turns over a cap of three and a limit of two, so that eviction, a full span and a remainder all occur; the scalar reaches both ends; 5.9 million states |
| `reflection_concurrent` | passes that overlap and reads that fail never skip a turn | as above with one session and a zero delta, since the property is about turns |
| `reflection_twice` | finding 2 | four turns |
| `store_solo` | one process, three faults: sound files stay, `True` means complete, the store recovers | three columns to add, so that a half-done upgrade has two shapes; the third fault hits the repair of the repair; every initial content |
| `store_shared` | two processes, locks, a fault: version 5 implies every column | two processes suffice for each pair of statements to interleave; 2.5 million states |
| `store_locked` | finding 3 | no faults at all; one process |
| `drive` | types and cap; priorities voiced and kept; echoes contained; ages measured; the loudest surface | two words, so that one text contains another; a listed and an unlisted domain; ages on both sides of the threshold; signals of no and of full confidence, which tie; a cap of one; six configurations that cover drive off, each pressure, a zero budget and the whitelist; answers of at most two signals; 1.6 million states |
| `drive_complacent` | finding 4 | three writes |
| `concerns` | types and caps; rows no other pass has written since the read: live concerns stay, what a pass names stays, weights and scores move by at most `MaxDelta`; contradiction ids are unique | two passes, so that one overtakes the other between any two of its reads and before its commit; caps of two, one and one, so that each evicts; three concern ids, so that one is pruned and assigned again; one half-life, which fades the lowest positive weight, so that live and faded rows meet in one pass; answers that add, adjust twice, exaggerate, resolve and name absent rows; reads and commits fail; 0.63 million states, about a minute |
| `hooks` | the cache is recent, the kill switch obeyed, reports match, `None` only if disturbed, the throttle is the session's own | two sessions, since each premise speaks of one session and the others; a message and a closer; three entries: defaults, off with a malformed switch, and one that makes the load raise; every order of each session's hooks, without end; 58 s |

Bounds in guards are `MaxTurns`, `MaxGoals`, `MaxWrites`, `MaxFaults`,
`MaxId`, `MaxDispute` and the number of files (`MaxFiles`); `MaxSignals` bounds an
answer, `MaxIdle` the idle time that makes a difference.  Symmetry is used
among the passes, among the sessions and between the two processes, in runs
without liveness.  Deadlock is
not checked for `Worker` and `Reflection`, whose one-shot calls and passes all end; the other systems
never stop, and there it is checked (in `Concerns` the clock always can go on).

Fairness.  `Worker`: weak fairness for each caller, for the clock and for the
executor thread, as runnable threads of one process have it; none for the
provider, whose calls may last forever, and none for the host, which need not
call.  `SlotRecovers` therefore assumes in its own statement that no provider call
lasts forever.  `StoreLifecycle`: weak fairness for entering `ensure_db`, which
every session start does, and for its steps; faults are finite.  `Drive`,
`Reflection`, `Concerns` and `Hooks` claim no liveness and assume no fairness.

## 4. Findings

1. **Late fallback** (`appraisal.py:377`, `reflection.py:314`).  The deadline is
   looked at once, at worker entry.  A trust denial after it starts a second
   provider call, possibly for a caller that has already been answered.
2. **A failed watermark read restarts the log** (`reflection.py:698`).
   `get_meta(...) or 0` does not tell an absent key from a failed read.  Turns are
   consolidated again.
3. **A lock can quarantine a sound database** (`store.py:269`).  The verification
   answers `False` for a lock; if the lock has gone when the upgrade looks, a
   version-5 file is not version 4 and is moved away.
4. **A complacent line** (`render.py:436`).  Enrichment lends a signal the
   settings of the first goal its words contain; the flagged goal it also matches
   is then rendered with those, and loses its support clause.

Behaviours that the models show when a constant or a premise is changed, and that
have no run of their own:

- A failed read counts as zero (`reflection.py:549`): with `ReadsMayFail = TRUE` in
  `MCReflectionSequential.cfg`, `BoundedPassDelta` fails, because `read_snapshot(...)
  or {}` makes the commit write 0 plus the delta over what was there.  The same
  happens to trust scores: without `~blind[p]`, `BoundedTrustStep` fails.  With
  `Sequential = FALSE` an outdated read does what a failed one does.
- Two upgrades at once (`store.py:275`): with two processes and no fault,
  `SoundNeverQuarantined` fails; the second process meets "duplicate column name",
  or version 5 where it expects 4, and quarantines the file the first has just
  upgraded.
- A pass can prune a concern another pass has just touched, or the one it has just
  added (`store.py:806`), and writes weights and scores over those another pass
  has written since: without `staleIds` and `staleKeys`, `UntouchedLiveStays`,
  `NothingNamedIsLost`, `BoundedWeightStep` and `BoundedTrustStep` each fail.
- "[A] stalled goal renders BEFORE a moving one" (`render.py:538`) and "rank
  dominates" (`render.py:191`) stop at confidence 0.0, which `confidence_threshold:
  0.0` admits (`config.py:326`, `appraisal.py:582`): rank 2 and confidence 0.0 equal
  rank 1 and confidence 1.0, and the stable sort keeps whichever signal the model
  named first.  Without `Tied`, `LoudestSurface` fails.
- `get_cfg` "never raises" (`config.py:312`), but `_coerce_float` (`config.py:150`)
  lets the `OverflowError` of a huge integer through; the `Raise` steps of `Hooks`.
- A stale configuration in the cache, `None` from `get_cfg`, a wrong duplicate:
  see Hooks above.

## 5. Proofs

Checked by TLAPS for every value of the constants that satisfies the named
assumptions (`NoRequestAssumption`, `RequestsAssumption`,
`ReflectionAssumption`, `LifecycleAssumption`, `DriveAssumption`,
`ConcernsAssumption`, `AnswersAssumption`, `HooksAssumption`).  These say that
the bounds are numbers, that sets are subsets of what they should be, and that the
"nobody" values lie outside.  `AnswersAssumption` says what `parse_reflection`
guarantees of a document: five new concerns at most, within the table's cap of 20.

The hypotheses of six theorems go beyond these, and say the same as the run of their
property: `Sequential` and `~ReadsMayFail` (passes come one at a time,
and the store can be read) for `NothingReflectedTwice`, `NothingLost`,
`PassMovesWithinMax` and `ReflectionProofs.Refinement`; `Alone` (one process, no
other connection holds a lock) for `SoundIsKept` and `TrueIsTrue`.  They are not
there for the prover: findings 2 and 3 and the behaviours listed under section 4 are
what happens without them.

- `WorkerProofs`: `TypeCorrect`, `SingleReservation`, `NoLateEntry`, `Refinement`.
  One invariant carries them all.  `OneReservation` alone is not inductive: it
  needs that a caller between check and submission holds the gate, that nobody has
  taken the slot since it looked, that the running item is the one whose future is
  RUNNING, and that a request that has not submitted has no future and is in no
  queue.  `NoLateEntry` needs besides that a caller that gave up has expired,
  which is what the thread's own check tests.  `Refinement` maps each step to a
  step of `Admission` or to a stutter.
  `OutcomesAreTruthful` adds (`OutcomeInv`) that the calls made so far fit the
  thread's phase and every finished future's result, and that only an expired
  caller, or one that read a timeout, gives up and cancels.  `LateCallIsFallback`
  delimits finding 1: a call that starts past its deadline is the second call of
  a request with a configured model.  `SlotNeverLeaks` is the safety half of
  `SlotRecovers`: a pending future is in the queue and a running one in the thread,
  so what occupies the slot is always work that the executor still has.
- `ReflectionProofs`: `TypeCorrect`, `NothingSkipped`.  `NoTurnSkipped` is not
  inductive because of the passes in flight: every turn up to a pass's `upto` must
  be in its span, reflected or evicted, and every turn up to the watermark it read
  reflected or evicted.  Reflection and eviction are final and ids only grow, so
  these facts survive whatever other passes do.
  `NothingReflectedTwice`, `NothingLost` and `PassMovesWithinMax` rest on
  `SequentialInv`: at most one pass is in its hook (`AloneInHook`), what it read is
  still what the store holds (`LocalsCurrent`), and nothing above the watermark was
  reflected (`StoreConsistent`).  Captures go on while a pass waits; they add turns
  above its `upto` and evict old ones, and disturb none of this.  `Refinement`
  combines that invariant, which makes the batch new, with the one of
  `NothingSkipped`, which makes it complete, and maps `Commit` to `Consolidate`,
  `RecordTurn` to `Capture` and every other step to a stutter.
  `ContractMeansExactlyOnce` is about the abstract specification alone: whatever
  implements it has consolidated every kept turn up to the watermark exactly
  once and none above.
- `StoreLifecycleProofs`: `TypeCorrect`, `VersionIsTrue`.  The file an upgrading
  process has open has every column before the one it adds next
  (`UpgradeInOrder`), whoever else adds some; that is what makes the version true
  when it is set.
  `SoundIsKept` and `TrueIsTrue` rest on `FindingHolds`: what the process found is
  still at the path, or damage has broken it since.  It goes to the upgrade only
  when the file is not version 5, adds columns to the file at the path, in order,
  and goes to the quarantine only when that file is not sound.  A crash empties
  the hands of the process, and the next call looks again.  `VerifiedIsTrue` needs
  neither hypothesis: for any number of processes and locks, a `True` from a
  verification or an upgrade is about a complete version-5 file, the one the
  process has open.  The path may name another by then, if a second process has
  quarantined that file in between, and then nobody promises what the path holds.
- `DriveProofs`: `TypeCorrect`, `FlaggedSurface`, `PrioritiesKept`,
  `EchoStaysOut`, `AgesMeasured`.  `FlaggedSurface` rests on `OwedIsKept`: every
  row the turn owes a line to is in the slice the whitelist kept.  The writes that
  happen during the call do not touch the slice.  `EchoStaysOut` rests on
  `SliceEligible`.  `CapKeeps` and `CapBounds` state what the goal cap keeps and
  how much; `MinOfIds` that the first match exists and matches.
  `LoudestShown` is about the order: under each pressure `Before` is a total order of
  the ordinary signals (`LouderOrder`, `BeforeOrder`), so the notes, which are those with fewer than the limit before them, are closed
  upwards (`NotesLoudest`) and no more than the limit (`NotesBounded`).  Salience
  and momentum agree but for the tie at confidence 0, which the theorem states.
  `ComplacencyNeedsConfusion` delimits finding 4: as long as no rendered signal's words
  contain the texts of two goals of the slice, `NeverComplacent` holds.
- `ConcernsProofs`: `TypeCorrect`, `KeepsLive`, `NamedNotLost`,
  `WeightsMoveSlowly`, `TrustMovesSlowly`, `IdsUnique`.  The action properties need
  an invariant about passes in flight: of every row that is not stale, what a pass
  has read still holds, if perhaps faded further (`ViewHolds`), and its write still
  says what it would say now (`WriteHolds`): its updates are within `MaxDelta` of
  their rows, its prunes are decayed rows it does not touch, its scores are within
  `MaxDelta` of the score.  Time does not disturb that, since fading is monotone;
  another commit does, and makes stale whatever it changes.  A blind write names no
  row at all.  `IdsUnique` rests on `IdsHeld`: the table holds an id at least as
  high as any ever assigned, because the cap keeps the newest and nothing else deletes.
- `HooksProofs`: `TypeCorrect`, `CacheFresh`, `KillSwitchObeyed`,
  `ReportsExactly`, `AnswersUndisturbed`, `ThrottlePerSession`.  Of each session
  between load and store the entry is in `seen`, or `straddled` says why not; each
  configuration in use permits the turn it is used for; along a quiet
  `on_session_start` cache and degradations are those of one entry, step by step.
  `ThrottlePerSession` needs that a session past the rollover test owns the throttle
  (`Owns`), unless another is in it too.

Only model-checked: liveness (`EveryCallerAnswered`, `SlotRecovers`,
`RecoversForGood`), which is out of the prover's reach, though `SlotNeverLeaks`
proves the safety that `SlotRecovers` rests on.  Every safety invariant, action property
and refinement that a passing run checks is a theorem.  What the violation runs refute
(`NoExpiredProviderCall`, `NeverComplacent`, and `ReflectedAtMostOnce` and
`SoundNeverQuarantined` without their hypotheses) is bounded from the other side:
`LateCallIsFallback`, `ComplacencyNeedsConfusion`, `NothingReflectedTwice` and
`SoundIsKept` say what each of them needs to go wrong.

## 6. Not modelled

- Text and status of concerns, the other columns of contradictions.
- The digest's limit of 12000 characters (`reflection.py:267`): the watermark
  covers turns the digest dropped.  The plugin's README names it as a limit.
- A pass in flight while the database is quarantined and created anew: planned as
  a composition.
- Telemetry: a table that is appended to and capped; nothing in the plugin reads
  it, and a row that cannot be recorded changes nothing.  `telemetry_summary` is a
  read for tests and scripts (its three queries may see different rows).
- The coercion of the configuration's numbers, lists and choices: pure functions.
- Two quarantines within a second (`store.py:153`).  The clock's order of trust
  keys (`store.py:945`): `KeptKeys` allows every order.
- The sidecars `-wal` and `-shm`, which `_quarantine` moves after the main file, in
  steps of their own (`store.py:168`-177): a file is moved with all that belongs to
  it.  A crash in between would leave a sidecar beside the next file.
- Momentum's measurement (git reflogs, file times) and the arithmetic of dates:
  input and output; the result enters `Drive` as `days`.
- Prompts, JSON schemas, regular expressions, sanitizing, wording of lines: no
  state.  What parsing bounds (deltas) or drops (goal signals) is in the models.
- `_reset_executor_for_tests`, scripts, tests and planning documents.

## 7. Plan

In order of importance; the first six are done.

1. `Admission`, `Worker`: every LLM call depends on them.
2. `Reflection` over the abstract slot.
3. `StoreLifecycle`.
4. `Drive`.
5. `Concerns`: writes composed from an earlier read, over rows that fade.
6. `Hooks`: configuration cache and throttle shared by sessions.
7. `Recreation`: `Reflection` composed with the loss of the database while a pass
   is in flight.  Property: `NoTurnSkipped` over the new file.
8. The digest's truncation, as a refinement of `ReadTurns`.

Theorems to add: with `Recreation`, `NoTurnSkipped` for the new file as far as it
holds; that `Concerns` implements an abstract store whose passes are atomic
when nobody overtakes them.
