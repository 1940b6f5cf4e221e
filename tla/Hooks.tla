-------------------------------- MODULE Hooks --------------------------------
(***************************************************************************)
(* The lifecycle hooks of anansi/__init__.py and the two pieces of module  *)
(* state all sessions of a process share: the cached configuration         *)
(* (anansi/config.py get_cfg, get_degradations, reset_cache) and the       *)
(* throttle's _session_state.  A host runs the hooks of one session one    *)
(* after the other, but sessions on different threads interleave at every  *)
(* read and write of those globals, and the user may edit the host's       *)
(* configuration at any time.                                              *)
(***************************************************************************)
EXTENDS FiniteSets, Naturals

CONSTANTS Sessions,   \* sessions of one host process, each on its thread
          Messages,   \* normalized user messages
          Trivial,    \* those the gates skip: empty ones and social closers
          Entries,    \* what plugins.entries.anansi may hold
          Default,    \* the entry that sets nothing
          NoConfig, NoSession, NoMessage      \* None

Switches == {"enabled", "reflection_enabled", "drive_enabled"}

\* A switch that is not set reads like one that is on.
Settings == {"on", "off", "malformed"}

\* overflow: a float key holds an integer too large for float(), whose
\* OverflowError _coerce_float does not catch.
ASSUME HooksAssumption ==
    /\ Trivial \subseteq Messages
    /\ Entries \subseteq [switch : [Switches -> Settings], overflow : BOOLEAN]
    /\ Default = [switch |-> [k \in Switches |-> "on"], overflow |-> FALSE]
    /\ NoConfig \notin [Switches -> BOOLEAN]
    /\ NoSession \notin Sessions
    /\ NoMessage \notin Messages

VARIABLES disk,                    \* the entry in the host's configuration file
          cache, degradations,     \* config._cache, config._last_degradations
          session, last,           \* _session_state
          pc, stage,               \* each session's hook: position, and what for
          message,                 \* the turn's message
          entry, described, cfg    \* locals of get_cfg and its caller

\* History, for the properties only.
VARIABLES seen,        \* entries on disk or in use since the cache was last cleared
          straddled,   \* a load was in flight over that clearing
          quiet,       \* no other session has written the cache during the hook
          own,         \* the last message each session's throttle let through,
                       \* since it was cleared for that session
          torn,        \* hooks have overlapped since then
          permitted    \* the turn may be appraised, by what its user could know

config == <<disk, cache, degradations>>
throttle == <<session, last>>
locals == <<message, entry, described, cfg>>
history == <<seen, straddled, quiet, own, torn, permitted>>
vars == <<config, throttle, pc, stage, locals, history>>

-----------------------------------------------------------------------------
Configs == [Switches -> BOOLEAN]

AllEntries == Entries \cup {Default}

\* _coerce_bool with a default of True.
Effective(e) == [k \in Switches |-> e.switch[k] # "off"]

\* _config_degradations.
Degraded(e) == {k \in Switches : e.switch[k] = "malformed"}

Positions == {"idle", "clear", "reset_cache", "reset_degradations", "test", "load", "store",
              "describe", "publish", "answer", "report", "kill_switch", "rollover",
              "set_session", "gate", "remember", "appraise", "reflect"}

\* Between the rollover test, or the start of a session, and the last write of
\* the throttle.
InThrottle == {"clear", "rollover", "set_session", "gate", "remember"}

Overlap(position) ==
    \E s, t \in Sessions : s # t /\ position[s] \in InThrottle /\ position[t] \in InThrottle

Goto(s, position) ==
    /\ pc' = [pc EXCEPT ![s] = position]
    /\ torn' = (torn \/ Overlap(pc'))

TypeOK ==
    /\ disk \in AllEntries
    /\ cache \in Configs \cup {NoConfig}
    /\ degradations \subseteq Switches
    /\ session \in Sessions \cup {NoSession}
    /\ last \in Messages \cup {NoMessage}
    /\ pc \in [Sessions -> Positions]
    /\ stage \in [Sessions -> {"start", "turn", "reflect"}]
    /\ message \in [Sessions -> Messages \cup {NoMessage}]
    /\ entry \in [Sessions -> AllEntries]
    /\ described \in [Sessions -> SUBSET Switches]
    /\ cfg \in [Sessions -> Configs]
    /\ seen \subseteq AllEntries
    /\ straddled \in BOOLEAN
    /\ quiet \in [Sessions -> BOOLEAN]
    /\ own \in [Sessions -> Messages \cup {NoMessage}]
    /\ torn \in BOOLEAN
    /\ permitted \in [Sessions -> BOOLEAN]

Init ==
    /\ disk \in Entries
    /\ cache = NoConfig /\ degradations = {}
    /\ session = NoSession /\ last = NoMessage
    /\ pc = [s \in Sessions |-> "idle"]
    /\ stage = [s \in Sessions |-> "turn"]
    /\ message = [s \in Sessions |-> NoMessage]
    /\ entry = [s \in Sessions |-> Default]
    /\ described = [s \in Sessions |-> {}]
    /\ cfg = [s \in Sessions |-> Effective(Default)]
    /\ seen = {disk} /\ straddled = FALSE
    /\ quiet = [s \in Sessions |-> TRUE]
    /\ own = [s \in Sessions |-> NoMessage]
    /\ torn = FALSE
    /\ permitted = [s \in Sessions |-> FALSE]

-----------------------------------------------------------------------------
\* The host calls a hook.  A turn may be appraised if the kill switch was on in
\* some entry since the last clearing, or the cache cannot be trusted.
Enter(s, hook) ==
    /\ pc[s] = "idle"
    /\ stage' = [stage EXCEPT ![s] = hook]
    /\ quiet' = [quiet EXCEPT ![s] = TRUE]
    /\ permitted' = [permitted EXCEPT ![s] =
                        straddled \/ \E e \in seen : Effective(e)["enabled"]]
    /\ UNCHANGED <<config, last, entry, described, cfg, seen, straddled, own>>

\* on_session_start.
StartSession(s) ==
    /\ Enter(s, "start")
    /\ session' = s
    /\ Goto(s, "clear")
    /\ UNCHANGED message

\* pre_llm_call.
StartTurn(s) ==
    /\ Enter(s, "turn")
    /\ \E m \in Messages : message' = [message EXCEPT ![s] = m]
    /\ Goto(s, "test")
    /\ UNCHANGED session

\* on_session_end: maybe_reflect.
EndRun(s) ==
    /\ Enter(s, "reflect")
    /\ Goto(s, "test")
    /\ UNCHANGED <<session, message>>

\* A hook returns; its locals are gone.
Return(s) ==
    /\ Goto(s, "idle")
    /\ message' = [message EXCEPT ![s] = NoMessage]
    /\ entry' = [entry EXCEPT ![s] = Default]
    /\ described' = [described EXCEPT ![s] = {}]
    /\ cfg' = [cfg EXCEPT ![s] = Effective(Default)]

-----------------------------------------------------------------------------
\* Another session's hook has written the cache.
Disturb(s) == quiet' = [t \in Sessions |-> quiet[t] /\ t = s]

\* Mutant of ClearCache: the cache outlives the session.
KeepCache(s) ==
    /\ pc[s] = "reset_cache"
    /\ quiet' = [t \in Sessions |-> t = s]
    /\ seen' = {disk}
    /\ straddled' = \E t \in Sessions : pc[t] = "store"
    /\ permitted' = permitted
    /\ Goto(s, "reset_degradations")
    /\ UNCHANGED <<config, throttle, stage, locals, own>>

\* reset_cache, its first assignment.
ClearCache(s) ==
    /\ pc[s] = "reset_cache"
    /\ cache' = NoConfig
    /\ quiet' = [t \in Sessions |-> t = s]
    /\ seen' = {disk}
    /\ straddled' = \E t \in Sessions : pc[t] = "store"
    /\ permitted' = [t \in Sessions |-> permitted[t] \/ straddled']
    /\ Goto(s, "reset_degradations")
    /\ UNCHANGED <<disk, degradations, throttle, stage, locals, own>>

\* reset_cache, its second.
ClearDegradations(s) ==
    /\ pc[s] = "reset_degradations"
    /\ degradations' = {}
    /\ Disturb(s)
    /\ Goto(s, "test")
    /\ UNCHANGED <<disk, cache, throttle, stage, locals, seen, straddled, own, permitted>>

\* get_cfg: "if _cache is not None".
Test(s) ==
    /\ pc[s] = "test"
    /\ Goto(s, IF cache # NoConfig THEN "answer" ELSE "load")
    /\ UNCHANGED <<config, throttle, stage, locals, seen, straddled, quiet, own, permitted>>

\* _fail_open and maybe_reflect record the exception and return; the diagnostics
\* of on_session_start swallow it and go on to maybe_reflect.
Raise(s) ==
    IF stage[s] = "start"
    THEN /\ stage' = [stage EXCEPT ![s] = "reflect"]
         /\ Goto(s, "test")
         /\ UNCHANGED locals
    ELSE Return(s) /\ UNCHANGED stage

\* _load_host_entry: a file that cannot be read counts as one that sets nothing.
Load(s) ==
    /\ pc[s] = "load"
    /\ \E e \in {disk, Default} :
        /\ seen' = seen \cup {e}
        /\ permitted' = [t \in Sessions |-> permitted[t] \/ Effective(e)["enabled"]]
        /\ IF e.overflow
           THEN Raise(s)
           ELSE /\ entry' = [entry EXCEPT ![s] = e]
                /\ Goto(s, "store")
                /\ UNCHANGED <<stage, message, described, cfg>>
    /\ UNCHANGED <<config, throttle, straddled, quiet, own>>

\* Mutant of Store: the defaults are not worth caching.
StoreUnlessDefault(s) ==
    /\ pc[s] = "store"
    /\ cache' = IF entry[s] = Default THEN cache ELSE Effective(entry[s])
    /\ Disturb(s)
    /\ Goto(s, "describe")
    /\ UNCHANGED <<disk, degradations, throttle, stage, locals, seen, straddled, own, permitted>>

Store(s) ==
    /\ pc[s] = "store"
    /\ cache' = Effective(entry[s])
    /\ Disturb(s)
    /\ Goto(s, "describe")
    /\ UNCHANGED <<disk, degradations, throttle, stage, locals, seen, straddled, own, permitted>>

\* _config_degradations reads _cache again; without one its first lookup fails.
Describe(s) ==
    /\ pc[s] = "describe"
    /\ described' = [described EXCEPT ![s] = IF cache = NoConfig THEN {} ELSE Degraded(entry[s])]
    /\ Goto(s, "publish")
    /\ UNCHANGED <<config, throttle, stage, message, entry, cfg, seen, straddled, quiet, own,
                   permitted>>

Publish(s) ==
    /\ pc[s] = "publish"
    /\ degradations' = described[s]
    /\ Disturb(s)
    /\ Goto(s, "answer")
    /\ UNCHANGED <<disk, cache, throttle, stage, locals, seen, straddled, own, permitted>>

\* What the caller of get_cfg does next.
Continue(s) ==
    Goto(s, CASE stage[s] = "start" -> "report"
              [] stage[s] = "turn" -> "kill_switch"
              [] stage[s] = "reflect" -> "reflect")

\* Mutant of Answer: None reaches the caller, which takes it for a configuration.
AnswerAnything(s) ==
    /\ pc[s] = "answer"
    /\ cfg' = [cfg EXCEPT ![s] = cache]
    /\ Continue(s)
    /\ UNCHANGED <<config, throttle, stage, message, entry, described, seen, straddled, quiet,
                   own, permitted>>

\* "return _cache" reads it once more; on None, cfg.get raises in the caller.
Answer(s) ==
    /\ pc[s] = "answer"
    /\ IF cache # NoConfig
       THEN cfg' = [cfg EXCEPT ![s] = cache] /\ Continue(s) /\ UNCHANGED <<stage, message, entry, described>>
       ELSE IF stage[s] = "start"
            THEN Continue(s) /\ UNCHANGED <<stage, locals>>
            ELSE Raise(s)
    /\ UNCHANGED <<config, throttle, seen, straddled, quiet, own, permitted>>

\* get_degradations: one config_degraded row each, then maybe_reflect.
Report(s) ==
    /\ pc[s] = "report"
    /\ stage' = [stage EXCEPT ![s] = "reflect"]
    /\ Goto(s, "test")
    /\ UNCHANGED <<config, throttle, locals, seen, straddled, quiet, own, permitted>>

\* The rest of maybe_reflect, with this configuration.
Reflect(s) ==
    /\ pc[s] = "reflect"
    /\ Return(s)
    /\ UNCHANGED <<config, throttle, stage, seen, straddled, quiet, own, permitted>>

-----------------------------------------------------------------------------
KillSwitch(s) ==
    /\ pc[s] = "kill_switch"
    /\ IF cfg[s]["enabled"] THEN Goto(s, "rollover") /\ UNCHANGED locals ELSE Return(s)
    /\ UNCHANGED <<config, throttle, stage, seen, straddled, quiet, own, permitted>>

Rollover(s) ==
    /\ pc[s] = "rollover"
    /\ Goto(s, IF session # s THEN "set_session" ELSE "gate")
    /\ UNCHANGED <<config, throttle, stage, locals, seen, straddled, quiet, own, permitted>>

SetSession(s) ==
    /\ pc[s] = "set_session"
    /\ session' = s
    /\ Goto(s, "clear")
    /\ UNCHANGED <<config, last, stage, locals, seen, straddled, quiet, own, permitted>>

\* Mutant of Cleared: a rollover keeps the other session's message.
ClearedAtStartOnly(s) == IF stage[s] = "start" THEN NoMessage ELSE last

Cleared(s) == NoMessage

\* _session_state["last_msg_norm"] = None, at a session's start and at rollover.
ClearLast(s) ==
    /\ pc[s] = "clear"
    /\ last' = Cleared(s)
    /\ own' = [own EXCEPT ![s] = NoMessage]
    /\ pc' = [pc EXCEPT ![s] = IF stage[s] = "start" THEN "reset_cache" ELSE "gate"]
    /\ torn' = ((torn /\ session # s) \/ \E t \in Sessions \ {s} : pc[t] \in InThrottle)
    /\ UNCHANGED <<config, session, stage, locals, seen, straddled, quiet, permitted>>

Skips(s) == message[s] \in Trivial \/ message[s] = last

\* should_skip: a skipped turn leaves the throttle as it is.
Gate(s) ==
    /\ pc[s] = "gate"
    /\ IF Skips(s) THEN Return(s) ELSE Goto(s, "remember") /\ UNCHANGED locals
    /\ UNCHANGED <<config, throttle, stage, seen, straddled, quiet, own, permitted>>

Remember(s) ==
    /\ pc[s] = "remember"
    /\ last' = message[s]
    /\ own' = [own EXCEPT ![s] = message[s]]
    /\ Goto(s, "appraise")
    /\ UNCHANGED <<config, session, stage, locals, seen, straddled, quiet, permitted>>

\* Snapshot, appraisal, outcome row, rendering: with no LLM, its row and nothing
\* else.
Appraise(s) ==
    /\ pc[s] = "appraise"
    /\ Return(s)
    /\ UNCHANGED <<config, throttle, stage, seen, straddled, quiet, own, permitted>>

\* The user saves another configuration.
Edit ==
    /\ disk' \in Entries
    /\ seen' = seen \cup {disk'}
    /\ permitted' = [s \in Sessions |-> permitted[s] \/ Effective(disk')["enabled"]]
    /\ UNCHANGED <<cache, degradations, throttle, pc, stage, locals, straddled, quiet, own, torn>>

Hook(s) ==
    \/ StartSession(s) \/ StartTurn(s) \/ EndRun(s)
    \/ ClearCache(s) \/ ClearDegradations(s)
    \/ Test(s) \/ Load(s) \/ Store(s) \/ Describe(s) \/ Publish(s) \/ Answer(s)
    \/ Report(s) \/ Reflect(s)
    \/ KillSwitch(s) \/ Rollover(s) \/ SetSession(s) \/ ClearLast(s)
    \/ Gate(s) \/ Remember(s) \/ Appraise(s)

Next == Edit \/ \E s \in Sessions : Hook(s)

Spec == Init /\ [][Next]_vars

-----------------------------------------------------------------------------
\* The cached configuration is one the file has held since a session start last
\* cleared the cache, or the default for a file that could not be read; unless a
\* load that began before the clearing ends after it.
ConfigFresh ==
    ~straddled => cache = NoConfig \/ \E e \in seen : cache = Effective(e)

\* A turn is appraised only if the kill switch was on at some moment since the
\* last session start before the turn ("kill switch FIRST"), whichever sessions
\* share the cache, with the same exception.
KillSwitchHonoured == [][\A s \in Sessions : Appraise(s) => permitted[s]]_vars

\* The degraded keys a session start reports are those of the configuration its
\* turns will use, each of them and no other, if no other session has written the
\* cache since it cleared it.
ReportsItsConfig ==
    [][\A s \in Sessions : Report(s) /\ quiet[s] =>
          \E e \in seen : cache = Effective(e) /\ degradations = Degraded(e)]_vars

\* get_cfg answers None, and so makes its caller raise, only when another session
\* has written the cache during the hook ("return the effective config dict").
AnswersConfig ==
    [][\A s \in Sessions : Answer(s) /\ quiet[s] => cache # NoConfig]_vars

\* The one _session_state serves each session as a throttle of its own, as long
\* as no two hooks overlap between the rollover test and the last write: what a
\* turn is compared with is the last message this session let through since its
\* last clearing, and never another session's.
ThrottleIsOwn ==
    \A s \in Sessions : ~torn /\ session = s /\ pc[s] # "clear" => last = own[s]
=============================================================================
