------------------------------- MODULE Drive -------------------------------
(***************************************************************************)
(* Goals and accountability: the goals table with its cap (anansi/store.py *)
(* apply_deltas), the per-turn path of a goal from the snapshot through    *)
(* the domain whitelist (anansi/__init__.py pre_llm_call) and the momentum *)
(* enrichment to the rendered block (anansi/render.py).  A text is the set *)
(* of its words, which is all that matching looks at.  The table changes   *)
(* while a turn waits for its appraisal.                                   *)
(***************************************************************************)
EXTENDS Integers, FiniteSets, FiniteSetsExt, Functions

CONSTANTS Words, Domains, NoDomain,
          Ages,           \* days a goal may have been idle, 0 for a moving one
          NewGoals,       \* the rows a caller may add
          UpdateFields,   \* the fields a caller may update
          SignalChoices,  \* the goal signals the model may answer
          MaxSignals,     \* bound: goal signals per answer
          Configs,        \* the drive configurations
          GoalCap,        \* store.CAPS["goals"]
          Unit,           \* a confidence of 1.0; one step of momentum rank
          MaxGoals,       \* bound: goal ids
          MaxWrites       \* bound: changes of the table

NoDays == -1    \* no measured or claimed age

Rows == [text : SUBSET Words, status : {"active", "candidate", "queued", "backburner"},
         flagged : BOOLEAN, domain : Domains \cup {NoDomain}, push : BOOLEAN,
         threshold : Nat, days : Ages \cup {NoDays}]

\* What parse_signals lets through.  A configured confidence_threshold of 0.0 keeps
\* even a signal of no confidence.
Signals == [relates : SUBSET Words, conf : 0..Unit, days : Nat \cup {NoDays}]

ASSUME DriveAssumption ==
    /\ Ages \subseteq Nat
    /\ NewGoals \subseteq Rows
    /\ \A row \in NewGoals : row.text # {}
    /\ UpdateFields \subseteq {"text", "flagged", "domain", "push", "threshold"}
    /\ SignalChoices \subseteq Signals
    /\ Configs \subseteq [drive : BOOLEAN, domains : SUBSET Domains, budget : Nat,
                          pressure : {"quiet", "standard", "firm"}]
    /\ MaxSignals \in Nat /\ GoalCap \in Nat \ {0} /\ Unit \in Nat \ {0}
    /\ MaxGoals \in Nat /\ MaxWrites \in Nat

VARIABLES goals,   \* the rows of the goals table by id
          writes,  \* bound: changes of the table so far
          pc,      \* where the turn is
          cfg,     \* the configuration it read
          slice,   \* the goals it kept of its snapshot, by id
          due,     \* history: the active flagged rows of that snapshot
          block    \* the drive lines of the block it rendered

turnVars == <<pc, cfg, slice, due, block>>
vars == <<goals, writes, turnVars>>

EmptyTable == [g \in {} |-> {}]

-----------------------------------------------------------------------------
(* Matching, pressure and order (anansi/render.py).  An item is a goal row   *)
(* or an enriched signal: both carry days, push and threshold.               *)

Matches(text, relates) == text # {} /\ text \subseteq relates

\* The persisted pressure setting is authorized and its threshold reached.
Authorized(item) ==
    /\ item.push
    /\ item.days > 0
    /\ item.threshold > 0 => item.days >= item.threshold

\* 2 stalled, 1 moving, 0 unknown.
MomentumRank(item) == IF item.days > 0 THEN 2 ELSE IF item.days = 0 THEN 1 ELSE 0

Bonus(pressure) ==
    CASE pressure = "quiet" -> 5 [] pressure = "standard" -> 10 [] OTHER -> 15

Salience(item, pressure) ==
    Unit * (MomentumRank(item) + (IF Authorized(item) THEN Bonus(pressure) ELSE 0))
        + item.conf

\* Firm puts authorized stalled goals first, the longest idle ahead.
FirmLouder(x, y) ==
    \/ Authorized(x) /\ ~Authorized(y)
    \/ Authorized(x) /\ Authorized(y) /\ x.days > y.days
    \/ /\ Authorized(x) = Authorized(y)
       /\ Authorized(x) => x.days = y.days
       /\ Salience(x, "standard") > Salience(y, "standard")

Louder(x, y, pressure) ==
    IF pressure = "firm" THEN FirmLouder(x, y)
    ELSE Salience(x, pressure) > Salience(y, pressure)

\* Mutant of Before: the sort puts the quietest first.
BeforeReversed(signals, pressure, i, j) ==
    \/ Louder(signals[j], signals[i], pressure)
    \/ ~Louder(signals[i], signals[j], pressure) /\ i < j

\* The stable descending sort of the notes.
Before(signals, pressure, i, j) ==
    \/ Louder(signals[i], signals[j], pressure)
    \/ ~Louder(signals[j], signals[i], pressure) /\ i < j

NoteLimit(c) ==
    LET ceiling == IF c.pressure = "quiet" THEN 1 ELSE 3 IN
    IF c.budget < ceiling THEN c.budget ELSE ceiling

-----------------------------------------------------------------------------
(* The whitelist (anansi/__init__.py) and the enrichment.                    *)

FilterGoals(table, allowed) ==
    Restrict(table, {g \in DOMAIN table :
        /\ table[g].status = "active"
        /\ allowed = {} \/ table[g].flagged \/ table[g].domain \in allowed})

\* Mutant of FilterSignals: whatever the model echoes is kept.
FilterSignalsNone(signals, kept, allowed) == signals

FilterSignals(signals, kept, allowed) ==
    IF allowed = {} THEN signals
    ELSE Restrict(signals, {i \in DOMAIN signals :
            \E g \in DOMAIN kept : Matches(kept[g].text, signals[i].relates)})

\* Mutant of Enrich: the model's own age outranks the measured one.
EnrichModelFirst(signal, kept) ==
    LET matching == {g \in DOMAIN kept : Matches(kept[g].text, signal.relates)}
        source == kept[Min(matching)]
    IN [relates |-> signal.relates, conf |-> signal.conf,
        days |-> IF signal.days # NoDays \/ matching = {} THEN signal.days ELSE source.days,
        push |-> matching # {} /\ source.push,
        threshold |-> IF matching = {} THEN 0 ELSE source.threshold]

\* The first goal that matches lends its measured age and pressure settings; a
\* matched signal never keeps the age the model claimed.
Enrich(signal, kept) ==
    LET matching == {g \in DOMAIN kept : Matches(kept[g].text, signal.relates)}
        source == kept[Min(matching)]
    IN [relates |-> signal.relates, conf |-> signal.conf,
        days |-> IF matching = {} THEN signal.days ELSE source.days,
        push |-> matching # {} /\ source.push,
        threshold |-> IF matching = {} THEN 0 ELSE source.threshold]

-----------------------------------------------------------------------------
(* Rendering.                                                                *)

Flagged(kept) == {g \in DOMAIN kept : kept[g].flagged}

\* A flagged goal's line takes text, age and pressure from the first signal
\* that matches the goal, or else from the goal.
WantLine(goal, signals) ==
    LET voices == {i \in DOMAIN signals : Matches(goal.text, signals[i].relates)}
        voice == signals[Min(voices)]
    IN IF voices = {}
         THEN [text |-> goal.text, days |-> goal.days, support |-> Authorized(goal)]
         ELSE [text |-> voice.relates, days |-> voice.days, support |-> Authorized(voice)]

\* Of several flagged goals with one text the first is voiced.
WantLines(kept, signals) ==
    {WantLine(kept[g], signals) : g \in
        {g \in Flagged(kept) : \A h \in Flagged(kept) : kept[h].text = kept[g].text => g <= h}}

\* Signals not already voiced by a flagged goal's line.
Ordinary(kept, signals) ==
    {i \in DOMAIN signals :
        ~\E g \in Flagged(kept) : Matches(kept[g].text, signals[i].relates)}

\* The loudest ordinary signals, as many as asked for.
Notes(kept, signals, pressure, count) ==
    LET ordinary == Ordinary(kept, signals) IN
    {i \in ordinary :
        Cardinality({j \in ordinary : Before(signals, pressure, j, i)}) < count}

\* No block, or one without drive lines.
NoLines == [wants |-> {}, signals |-> [i \in {} |-> {}], notes |-> {}]

\* Mutant of RenderBlock: an empty answer is suppressed, whoever waits for it.
RenderBlockSuppressed(kept, signals, c, others) ==
    IF DOMAIN signals = {} /\ ~others THEN {NoLines}
    ELSE {[wants |-> WantLines(kept, signals), signals |-> signals,
           notes |-> Notes(kept, signals, c.pressure, count)] : count \in 0..NoteLimit(c)}

\* The blocks that may come out; others tells of signals that are not about
\* goals.  Want lines are protected, and the size cap, which depends on the
\* lengths of all lines, leaves any number of the notes.
RenderBlock(kept, signals, c, others) ==
    IF DOMAIN signals = {} /\ Flagged(kept) = {} /\ ~others THEN {NoLines}
    ELSE {[wants |-> WantLines(kept, signals), signals |-> signals,
           notes |-> Notes(kept, signals, c.pressure, count)] : count \in 0..NoteLimit(c)}

-----------------------------------------------------------------------------
(* The goals table (anansi/store.py).                                        *)

\* Mutant of EnforceGoalCap: flagged goals count and can be evicted.
EnforceGoalCapAll(table) ==
    Restrict(table, {g \in DOMAIN table :
        Cardinality({h \in DOMAIN table : h > g}) < GoalCap})

\* Mutant of EnforceGoalCap: one ordinary goal too many stays.
EnforceGoalCapLoose(table) ==
    LET ordinary == {g \in DOMAIN table : ~table[g].flagged} IN
    Restrict(table, {g \in DOMAIN table :
        g \in ordinary => Cardinality({h \in ordinary : h > g}) <= GoalCap})

\* Only ordinary goals are capped: the newest stay.
EnforceGoalCap(table) ==
    LET ordinary == {g \in DOMAIN table : ~table[g].flagged} IN
    Restrict(table, {g \in DOMAIN table :
        g \in ordinary => Cardinality({h \in ordinary : h > g}) < GoalCap})

Write(table) ==
    /\ writes < MaxWrites
    /\ writes' = writes + 1
    /\ goals' = EnforceGoalCap(table)
    /\ UNCHANGED turnVars

\* An INTEGER PRIMARY KEY: one above the highest id in the table.
NextId == Max(DOMAIN goals \cup {0}) + 1

AddGoal ==
    /\ NextId <= MaxGoals
    /\ \E row \in NewGoals :
          Write([g \in DOMAIN goals \cup {NextId} |->
                    IF g = NextId THEN row ELSE goals[g]])

\* goals_update: the fields present in the item change, the omitted ones stay.
Merged(old, item, present) ==
    [text |-> IF "text" \in present THEN item.text ELSE old.text,
     status |-> old.status,
     flagged |-> IF "flagged" \in present THEN item.flagged ELSE old.flagged,
     domain |-> IF "domain" \in present THEN item.domain ELSE old.domain,
     push |-> IF "push" \in present THEN item.push ELSE old.push,
     threshold |-> IF "threshold" \in present THEN item.threshold ELSE old.threshold,
     days |-> old.days]

UpdateGoal(g) ==
    \E item \in NewGoals, present \in SUBSET UpdateFields :
        Write([goals EXCEPT ![g] = Merged(goals[g], item, present)])

\* goals_status: promotion from candidate and back.
SetStatus(g) ==
    \E status \in {"active", "candidate"} :
        Write([goals EXCEPT ![g].status = status])

\* Days pass, or a commit or a touched file makes the goal move.
Age(g) ==
    /\ writes < MaxWrites
    /\ writes' = writes + 1
    /\ \E days \in Ages \cup {NoDays} : goals' = [goals EXCEPT ![g].days = days]
    /\ UNCHANGED turnVars

-----------------------------------------------------------------------------
(* One turn (anansi/__init__.py pre_llm_call).                               *)

Init ==
    /\ goals = EmptyTable
    /\ writes = 0
    /\ pc = "idle"
    /\ cfg \in Configs
    /\ slice = EmptyTable
    /\ due = {}
    /\ block = NoLines

\* The configuration and the snapshot are read, the whitelist is applied.  With
\* the drive off, or a snapshot that cannot be read, no goal takes part.
BeginTurn ==
    /\ pc # "asked"
    /\ \E c \in Configs :
          /\ cfg' = c
          /\ \/ /\ c.drive
                /\ slice' = FilterGoals(goals, c.domains)
                /\ due' = {goals[g] : g \in {g \in DOMAIN goals :
                              goals[g].status = "active" /\ goals[g].flagged}}
             \/ slice' = EmptyTable /\ due' = {}
    /\ pc' = "asked"
    /\ block' = NoLines
    /\ UNCHANGED <<goals, writes>>

\* Timeout, busy worker, error or unparseable answer: no block at all.
AppraisalFails ==
    /\ pc = "asked"
    /\ pc' = "idle"
    /\ UNCHANGED <<goals, writes, cfg, slice, due, block>>

Answer ==
    /\ pc = "asked"
    /\ \E n \in 0..MaxSignals, others \in BOOLEAN :
       \E answered \in [1..n -> SignalChoices] :
          LET kept == FilterSignals(answered, slice, cfg.domains)
              signals == IF cfg.drive
                         THEN [i \in DOMAIN kept |-> Enrich(kept[i], slice)]
                         ELSE [i \in {} |-> {}]
          IN block' \in RenderBlock(slice, signals, cfg, others)
    /\ pc' = "done"
    /\ UNCHANGED <<goals, writes, cfg, slice, due>>

Next ==
    \/ AddGoal
    \/ \E g \in DOMAIN goals : UpdateGoal(g) \/ SetStatus(g) \/ Age(g)
    \/ BeginTurn
    \/ AppraisalFails
    \/ Answer

Spec == Init /\ [][Next]_vars

-----------------------------------------------------------------------------
\* Types, with the cap of the goals table: at most GoalCap ordinary goals.
TypeOK ==
    /\ DOMAIN goals \subseteq 1..MaxGoals
    /\ \A g \in DOMAIN goals : goals[g] \in Rows
    /\ Cardinality({g \in DOMAIN goals : ~goals[g].flagged}) <= GoalCap
    /\ writes \in 0..MaxWrites
    /\ pc \in {"idle", "asked", "done"}
    /\ cfg \in Configs
    /\ \A g \in DOMAIN slice : g \in 1..MaxGoals /\ slice[g] \in Rows
    /\ due \subseteq Rows

\* "A user-flagged priority is NEVER silently omitted" (render_block): once an
\* appraisal has succeeded, every goal that was active and flagged in the turn's
\* snapshot has a want line that names it, whatever the whitelist, the budget,
\* the pressure, the size cap and the model's answer.
NeverOmitted ==
    pc = "done" => \A row \in due :
        \E line \in block.wants : row.text \subseteq line.text

\* A flagged goal leaves the table only by losing its flag in the same write;
\* another goal's addition or update never costs a priority (_enforce_goal_cap).
FlaggedKept ==
    [][\A g \in DOMAIN goals \ DOMAIN goals' : goals[g].flagged => UpdateGoal(g)]_vars

\* With a whitelist no note surfaces that does not name an active goal that was
\* flagged or in a listed domain: neither an inert nor an off-domain goal leaks
\* back through the model's echo (_filter_signals_by_goals).
EchoContained ==
    pc = "done" /\ cfg.domains # {} =>
        \A i \in block.notes : \E g \in DOMAIN slice :
            /\ Matches(slice[g].text, block.signals[i].relates)
            /\ slice[g].status = "active"
            /\ slice[g].flagged \/ slice[g].domain \in cfg.domains

\* The age in a line that names a goal of the snapshot was measured for a goal
\* of the snapshot, never claimed by the model (README: "persisted timing
\* overrides conflicting model timing").
MeasuredAges ==
    pc = "done" =>
        LET measured == {slice[g].days : g \in DOMAIN slice} IN
        /\ \A line \in block.wants : line.days \in measured
        /\ \A i \in block.notes :
              (\E g \in DOMAIN slice : Matches(slice[g].text, block.signals[i].relates))
                  => block.signals[i].days \in measured

\* The one tie between ranks: a moving signal of confidence 1.0 and a stalled one of
\* confidence 0.0 without authorized support have the same salience, and the
\* stable sort keeps whichever the model named first (_drive_salience: "rank
\* dominates" only short of that).
Tied(moving, stalled) ==
    /\ moving.days = 0 /\ moving.conf = Unit
    /\ stalled.conf = 0 /\ ~Authorized(stalled)

\* No ordinary signal that was left out was more pressing than one shown: a
\* stalled goal is never dropped for an unknown one, nor for a moving one that is
\* not tied with it ("a stalled goal renders BEFORE a moving one"), nor, under firm
\* pressure, an authorized stalled goal for any other (_order_goal_signals), and
\* the budget and the ceiling of the pressure hold however many are offered.
LoudestSurface ==
    pc = "done" =>
        /\ Cardinality(block.notes) <= cfg.budget
        /\ cfg.pressure = "quiet" => Cardinality(block.notes) <= 1
        /\ \A i \in block.notes, j \in Ordinary(slice, block.signals) \ block.notes :
              LET shown == block.signals[i]
                  dropped == block.signals[j]
              IN /\ dropped.days > 0 => shown.days > 0 \/ Tied(shown, dropped)
                 /\ cfg.pressure = "firm" /\ Authorized(dropped) => Authorized(shown)

\* "A stalled user-authorized push goal must never be quietly rendered as low
\* pressure" (_render_drive_want): the line of a flagged goal that is stalled
\* past its threshold with support authorized carries the support clause.
\* Goals that share one text share one line and are left out.
NeverComplacent ==
    pc = "done" => \A row \in due :
        Authorized(row) /\ (\A other \in due : other.text = row.text => other = row)
            => \E line \in block.wants : row.text \subseteq line.text /\ line.support
=============================================================================
