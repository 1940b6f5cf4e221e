----------------------------- MODULE HooksProofs -----------------------------
(***************************************************************************)
(* For any sessions, messages and configurations: what the shared cache    *)
(* and the shared throttle promise each session, and under which           *)
(* interleavings.                                                          *)
(***************************************************************************)
EXTENDS Hooks, TLAPS

-----------------------------------------------------------------------------
\* The configuration of an entry.
LEMMA EffectiveType ==
    ASSUME NEW e
    PROVE  Effective(e) \in Configs
  BY DEF Effective, Configs

\* The entries are entries, and the default is one.
LEMMA EntryTypes == Default \in AllEntries /\ Entries \subseteq AllEntries
  BY DEF AllEntries

\* A step to another position keeps the positions and the flag in their types.
LEMMA GotoType ==
    ASSUME TypeOK, NEW s \in Sessions, NEW position \in Positions, Goto(s, position)
    PROVE  pc' \in [Sessions -> Positions] /\ torn' \in BOOLEAN
  BY DEF TypeOK, Goto, Overlap

\* So does a return, with its locals.
LEMMA ReturnType ==
    ASSUME TypeOK, NEW s \in Sessions, Return(s)
    PROVE  /\ pc' \in [Sessions -> Positions] /\ torn' \in BOOLEAN
           /\ message' \in [Sessions -> Messages \cup {NoMessage}]
           /\ entry' \in [Sessions -> AllEntries]
           /\ described' \in [Sessions -> SUBSET Switches]
           /\ cfg' \in [Sessions -> Configs]
  BY EffectiveType, EntryTypes, GotoType DEF TypeOK, Return, Positions

\* And a raise.
LEMMA RaiseType ==
    ASSUME TypeOK, NEW s \in Sessions, Raise(s)
    PROVE  /\ pc' \in [Sessions -> Positions] /\ torn' \in BOOLEAN
           /\ stage' \in [Sessions -> {"start", "turn", "reflect"}]
           /\ message' \in [Sessions -> Messages \cup {NoMessage}]
           /\ entry' \in [Sessions -> AllEntries]
           /\ described' \in [Sessions -> SUBSET Switches]
           /\ cfg' \in [Sessions -> Configs]
<1>1. CASE stage[s] = "start"
  BY <1>1, GotoType DEF TypeOK, Raise, Positions, locals
<1>2. CASE stage[s] # "start"
  BY <1>2, ReturnType DEF TypeOK, Raise
<1>3. QED
  BY <1>1, <1>2

\* The next position after get_cfg is one.
LEMMA ContinueType ==
    ASSUME TypeOK, NEW s \in Sessions, Continue(s)
    PROVE  pc' \in [Sessions -> Positions] /\ torn' \in BOOLEAN
<1>1. stage[s] \in {"start", "turn", "reflect"}
  BY DEF TypeOK
<1>2. CASE stage[s] = "start"
  BY <1>2, GotoType DEF Continue, Positions
<1>3. CASE stage[s] = "turn"
  BY <1>3, GotoType DEF Continue, Positions
<1>4. CASE stage[s] = "reflect"
  BY <1>4, GotoType DEF Continue, Positions
<1>5. QED
  BY <1>1, <1>2, <1>3, <1>4

-----------------------------------------------------------------------------
\* Every step of a hook keeps every variable in its type.
LEMMA TypeHook ==
    ASSUME TypeOK, NEW s \in Sessions, Hook(s)
    PROVE  TypeOK'
<1> USE DEF config, throttle, locals
<1>0. /\ Sessions \cup {NoSession} # {}
      /\ "clear" \in Positions /\ "test" \in Positions /\ "answer" \in Positions
      /\ "load" \in Positions /\ "store" \in Positions /\ "describe" \in Positions
      /\ "publish" \in Positions /\ "reset_degradations" \in Positions
      /\ "rollover" \in Positions /\ "set_session" \in Positions /\ "gate" \in Positions
      /\ "remember" \in Positions /\ "appraise" \in Positions /\ "reset_cache" \in Positions
  BY DEF Positions
<1>1. CASE StartSession(s)
  BY <1>0, <1>1, GotoType DEF StartSession, Enter, TypeOK
<1>2. CASE StartTurn(s)
  BY <1>0, <1>2, GotoType DEF StartTurn, Enter, TypeOK
<1>3. CASE EndRun(s)
  BY <1>0, <1>3, GotoType DEF EndRun, Enter, TypeOK
<1>4. CASE ClearCache(s)
  BY <1>0, <1>4, GotoType DEF ClearCache, TypeOK
<1>5. CASE ClearDegradations(s)
  BY <1>0, <1>5, GotoType DEF ClearDegradations, Disturb, TypeOK
<1>6. CASE Test(s)
  <2>1. (IF cache # NoConfig THEN "answer" ELSE "load") \in Positions
    BY <1>0
  <2>2. QED
    BY <1>6, <2>1, GotoType DEF Test, TypeOK
<1>7. CASE Load(s)
  <2>1. PICK e \in {disk, Default} :
          /\ seen' = seen \cup {e}
          /\ permitted' = [t \in Sessions |-> permitted[t] \/ Effective(e)["enabled"]]
          /\ IF e.overflow
             THEN Raise(s)
             ELSE /\ entry' = [entry EXCEPT ![s] = e]
                  /\ Goto(s, "store")
                  /\ UNCHANGED <<stage, message, described, cfg>>
    BY <1>7 DEF Load
  <2>2. e \in AllEntries
    BY <2>1, EntryTypes DEF TypeOK
  <2>3. /\ pc' \in [Sessions -> Positions] /\ torn' \in BOOLEAN
        /\ stage' \in [Sessions -> {"start", "turn", "reflect"}]
        /\ message' \in [Sessions -> Messages \cup {NoMessage}]
        /\ entry' \in [Sessions -> AllEntries]
        /\ described' \in [Sessions -> SUBSET Switches]
        /\ cfg' \in [Sessions -> Configs]
    <3>1. CASE e.overflow
      BY <2>1, <3>1, RaiseType
    <3>2. CASE ~e.overflow
      BY <1>0, <2>1, <2>2, <3>2, GotoType DEF TypeOK
    <3>3. QED
      BY <3>1, <3>2
  <2>4. UNCHANGED <<config, throttle, straddled, quiet, own>>
    BY <1>7 DEF Load
  <2>5. permitted' \in [Sessions -> BOOLEAN] /\ seen' \subseteq AllEntries
    BY <2>1, <2>2 DEF TypeOK
  <2>6. QED
    BY <2>3, <2>4, <2>5 DEF TypeOK
<1>8. CASE Store(s)
  BY <1>0, <1>8, GotoType, EffectiveType DEF Store, Disturb, TypeOK
<1>9. CASE Describe(s)
  <2>1. (IF cache = NoConfig THEN {} ELSE Degraded(entry[s])) \in SUBSET Switches
    BY DEF Degraded
  <2>2. QED
    BY <1>0, <1>9, <2>1, GotoType DEF Describe, TypeOK
<1>10. CASE Publish(s)
  BY <1>0, <1>10, GotoType DEF Publish, Disturb, TypeOK
<1>11. CASE Answer(s)
  <2>1. CASE cache # NoConfig
    BY <1>11, <2>1, ContinueType DEF Answer, TypeOK
  <2>2. CASE cache = NoConfig /\ stage[s] = "start"
    BY <1>11, <2>2, ContinueType DEF Answer, TypeOK
  <2>3. CASE cache = NoConfig /\ stage[s] # "start"
    BY <1>11, <2>3, RaiseType DEF Answer, TypeOK
  <2>4. QED
    BY <2>1, <2>2, <2>3
<1>12. CASE Report(s)
  BY <1>0, <1>12, GotoType DEF Report, TypeOK
<1>13. CASE Reflect(s)
  BY <1>13, ReturnType DEF Reflect, TypeOK
<1>14. CASE KillSwitch(s)
  BY <1>0, <1>14, GotoType, ReturnType DEF KillSwitch, TypeOK
<1>15. CASE Rollover(s)
  <2>1. (IF session # s THEN "set_session" ELSE "gate") \in Positions
    BY <1>0
  <2>2. QED
    BY <1>15, <2>1, GotoType DEF Rollover, TypeOK
<1>16. CASE SetSession(s)
  BY <1>0, <1>16, GotoType DEF SetSession, TypeOK
<1>17. CASE ClearLast(s)
  BY <1>0, <1>17 DEF ClearLast, Cleared, Overlap, TypeOK
<1>18. CASE Gate(s)
  BY <1>0, <1>18, GotoType, ReturnType DEF Gate, TypeOK
<1>19. CASE Remember(s)
  BY <1>0, <1>19, GotoType DEF Remember, TypeOK
<1>20. CASE Appraise(s)
  BY <1>20, ReturnType DEF Appraise, TypeOK
<1>21. QED
  BY <1>1, <1>2, <1>3, <1>4, <1>5, <1>6, <1>7, <1>8, <1>9, <1>10, <1>11, <1>12, <1>13,
     <1>14, <1>15, <1>16, <1>17, <1>18, <1>19, <1>20 DEF Hook

\* Every variable keeps its type.
THEOREM TypeCorrect == Spec => []TypeOK
<1>1. Init => TypeOK
  <2>1. SUFFICES ASSUME Init PROVE TypeOK
    OBVIOUS
  <2>2. /\ disk \in AllEntries /\ seen \subseteq AllEntries
        /\ entry \in [Sessions -> AllEntries]
        /\ cfg \in [Sessions -> Configs]
    BY <2>1, EffectiveType, EntryTypes DEF Init
  <2>3. QED
    BY <2>1, <2>2 DEF Init, TypeOK, Positions
<1>2. TypeOK /\ Edit => TypeOK'
  BY EntryTypes DEF TypeOK, Edit, throttle, locals
<1>3. TypeOK /\ UNCHANGED vars => TypeOK'
  BY DEF TypeOK, vars, config, throttle, locals, history
<1>4. TypeOK /\ [Next]_vars => TypeOK'
  BY <1>2, <1>3, TypeHook DEF Next
<1>5. QED
  BY <1>1, <1>4, PTL DEF Spec

-----------------------------------------------------------------------------
\* A hook moves no other session's position and none of its locals.
LEMMA Frame ==
    ASSUME TypeOK, NEW s \in Sessions, Hook(s), NEW t \in Sessions, t # s
    PROVE  /\ pc'[t] = pc[t] /\ stage'[t] = stage[t] /\ message'[t] = message[t]
           /\ entry'[t] = entry[t] /\ described'[t] = described[t] /\ cfg'[t] = cfg[t]
           /\ own'[t] = own[t]
<1> DEFINE Same == /\ pc'[t] = pc[t] /\ stage'[t] = stage[t] /\ message'[t] = message[t]
                   /\ entry'[t] = entry[t] /\ described'[t] = described[t] /\ cfg'[t] = cfg[t]
                   /\ own'[t] = own[t]
<1> USE DEF TypeOK, Goto, locals
<1>1. Return(s) => /\ pc'[t] = pc[t] /\ message'[t] = message[t] /\ entry'[t] = entry[t]
                   /\ described'[t] = described[t] /\ cfg'[t] = cfg[t]
  BY DEF Return
<1>2. Raise(s) => /\ pc'[t] = pc[t] /\ message'[t] = message[t] /\ entry'[t] = entry[t]
                  /\ described'[t] = described[t] /\ cfg'[t] = cfg[t] /\ stage'[t] = stage[t]
  BY <1>1 DEF Raise
<1>3. StartSession(s) \/ StartTurn(s) \/ EndRun(s) => Same
  BY DEF StartSession, StartTurn, EndRun, Enter
<1>4. ClearCache(s) \/ ClearDegradations(s) \/ Test(s) \/ Store(s) \/ Describe(s) \/ Publish(s) => Same
  BY DEF ClearCache, ClearDegradations, Test, Store, Describe, Publish
<1>5. Load(s) => Same
  BY <1>2 DEF Load
<1>6. Answer(s) => Same
  BY <1>2 DEF Answer, Continue
<1>7. Report(s) \/ Rollover(s) \/ SetSession(s) \/ ClearLast(s) \/ Remember(s) => Same
  BY DEF Report, Rollover, SetSession, ClearLast, Remember
<1>8. Reflect(s) \/ KillSwitch(s) \/ Gate(s) \/ Appraise(s) => Same
  BY <1>1 DEF Reflect, KillSwitch, Gate, Appraise
<1>9. QED
  BY <1>3, <1>4, <1>5, <1>6, <1>7, <1>8 DEF Hook

\* The actions that write neither the cache nor its history.
Other(s) ==
    \/ StartSession(s) \/ StartTurn(s) \/ EndRun(s) \/ ClearDegradations(s) \/ Test(s)
    \/ Describe(s) \/ Publish(s) \/ Answer(s) \/ Report(s) \/ Reflect(s)
    \/ KillSwitch(s) \/ Rollover(s) \/ SetSession(s) \/ ClearLast(s)
    \/ Gate(s) \/ Remember(s) \/ Appraise(s)

\* What they leave alone, and that none of them begins to store a load.
LEMMA OtherFrame ==
    ASSUME TypeOK, NEW s \in Sessions, Other(s)
    PROVE  /\ UNCHANGED <<disk, cache, seen, straddled>>
           /\ pc'[s] # "store"
<1> USE DEF TypeOK, Goto, config
<1>1. Return(s) \/ Raise(s) => pc'[s] # "store"
  BY DEF Return, Raise
<1>2. Continue(s) => pc'[s] # "store"
  <2>1. stage[s] \in {"start", "turn", "reflect"}
    OBVIOUS
  <2>2. QED
    BY <2>1 DEF Continue
<1>3. CASE StartSession(s) \/ StartTurn(s) \/ EndRun(s)
  BY <1>3 DEF StartSession, StartTurn, EndRun, Enter
<1>4. CASE ClearDegradations(s) \/ Test(s) \/ Describe(s) \/ Publish(s) \/ Report(s)
  BY <1>4 DEF ClearDegradations, Test, Describe, Publish, Report
<1>5. CASE Answer(s)
  BY <1>1, <1>2, <1>5 DEF Answer
<1>6. CASE Rollover(s) \/ SetSession(s) \/ ClearLast(s) \/ Remember(s)
  BY <1>6 DEF Rollover, SetSession, ClearLast, Remember
<1>7. CASE Reflect(s) \/ KillSwitch(s) \/ Gate(s) \/ Appraise(s)
  BY <1>1, <1>7 DEF Reflect, KillSwitch, Gate, Appraise
<1>8. QED
  BY <1>3, <1>4, <1>5, <1>6, <1>7 DEF Other

-----------------------------------------------------------------------------
\* The cache holds a configuration seen since its last clearing, and so will it
\* after every load in flight, unless one is from before that clearing.
Loaded(s) == pc[s] = "store" /\ ~straddled => entry[s] \in seen

CacheInv == disk \in seen /\ ConfigFresh /\ \A s \in Sessions : Loaded(s)

\* Every step of a hook keeps this.
LEMMA CacheHook ==
    ASSUME TypeOK, CacheInv, NEW s \in Sessions, Hook(s)
    PROVE  CacheInv'
<1>1. CASE Other(s)
  <2>1. UNCHANGED <<disk, cache, seen, straddled>> /\ pc'[s] # "store"
    BY <1>1, OtherFrame
  <2>2. ASSUME NEW t \in Sessions PROVE Loaded(t)'
    BY <2>1, Frame DEF CacheInv, Loaded
  <2>3. QED
    BY <2>1, <2>2 DEF CacheInv, ConfigFresh
<1>2. CASE ClearCache(s)
  <2>1. /\ cache' = NoConfig /\ seen' = {disk} /\ disk' = disk /\ pc'[s] # "store"
        /\ straddled' = \E t \in Sessions : pc[t] = "store"
    BY <1>2 DEF ClearCache, Goto, TypeOK
  <2>2. ASSUME NEW t \in Sessions PROVE Loaded(t)'
    BY <2>1, Frame DEF Loaded
  <2>3. QED
    BY <2>1, <2>2 DEF CacheInv, ConfigFresh
<1>3. CASE Load(s)
  <2>1. PICK e \in {disk, Default} :
          /\ seen' = seen \cup {e}
          /\ IF e.overflow
             THEN Raise(s)
             ELSE entry' = [entry EXCEPT ![s] = e] /\ Goto(s, "store")
    BY <1>3 DEF Load
  <2>2. UNCHANGED <<disk, cache, straddled>>
    BY <1>3 DEF Load, config
  <2>3. Loaded(s)'
    <3>1. CASE e.overflow
      <4>1. pc'[s] # "store"
        BY <2>1, <3>1 DEF Raise, Return, Goto, TypeOK
      <4>2. QED
        BY <4>1 DEF Loaded
    <3>2. CASE ~e.overflow
      BY <2>1, <3>2 DEF Loaded, TypeOK
    <3>3. QED
      BY <3>1, <3>2
  <2>4. ASSUME NEW t \in Sessions, t # s PROVE Loaded(t)'
    BY <2>1, <2>2, <2>4, Frame DEF CacheInv, Loaded
  <2>5. QED
    BY <2>1, <2>2, <2>3, <2>4 DEF CacheInv, ConfigFresh
<1>4. CASE Store(s)
  <2>1. /\ cache' = Effective(entry[s]) /\ pc[s] = "store" /\ pc'[s] # "store"
        /\ UNCHANGED <<disk, seen, straddled>>
    BY <1>4 DEF Store, Goto, TypeOK
  <2>2. ASSUME NEW t \in Sessions PROVE Loaded(t)'
    BY <2>1, Frame DEF CacheInv, Loaded
  <2>3. QED
    BY <2>1, <2>2 DEF CacheInv, ConfigFresh, Loaded
<1>5. QED
  BY <1>1, <1>2, <1>3, <1>4 DEF Hook, Other

\* So it stays.
LEMMA CacheStays == Spec => []CacheInv
<1>1. Init => CacheInv
  BY DEF Init, CacheInv, ConfigFresh, Loaded
<1>2. TypeOK /\ CacheInv /\ Edit => CacheInv'
  BY DEF CacheInv, ConfigFresh, Loaded, Edit, locals
<1>3. CacheInv /\ UNCHANGED vars => CacheInv'
  BY DEF CacheInv, ConfigFresh, Loaded, vars, config, locals, history
<1>4. TypeOK /\ CacheInv /\ [Next]_vars => CacheInv'
  BY <1>2, <1>3, CacheHook DEF Next
<1>5. QED
  BY <1>1, <1>4, TypeCorrect, PTL DEF Spec

\* The cache is never older than the last clearing that no load straddled.
THEOREM CacheFresh == Spec => []ConfigFresh
<1>1. CacheInv => ConfigFresh
  BY DEF CacheInv
<1>2. QED
  BY <1>1, CacheStays, PTL

-----------------------------------------------------------------------------
\* While hooks do not overlap, whoever is past the rollover test owns the
\* throttle.
Owns(s) == pc[s] \in {"clear", "gate", "remember"} => session = s

ThrottleInv ==
    /\ ThrottleIsOwn
    /\ ~torn => ~Overlap(pc) /\ \A s \in Sessions : Owns(s)

\* The actions that write neither the throttle nor its history.
Beside(s) ==
    \/ StartTurn(s) \/ EndRun(s) \/ ClearCache(s) \/ ClearDegradations(s) \/ Test(s)
    \/ Load(s) \/ Store(s) \/ Describe(s) \/ Publish(s) \/ Answer(s) \/ Report(s) \/ Reflect(s)
    \/ KillSwitch(s) \/ Appraise(s)

\* What these steps leave alone, and where they do not lead.
LEMMA BesideFrame ==
    ASSUME TypeOK, NEW s \in Sessions, Beside(s)
    PROVE  /\ UNCHANGED <<session, last, own>>
           /\ torn' = (torn \/ Overlap(pc'))
           /\ pc[s] # "clear" /\ pc'[s] \notin {"clear", "gate", "remember"}
<1> USE DEF TypeOK, Goto, throttle
<1>1. Return(s) => torn' = (torn \/ Overlap(pc')) /\ pc'[s] = "idle"
  BY DEF Return
<1>2. Raise(s) => torn' = (torn \/ Overlap(pc')) /\ pc'[s] \in {"idle", "test"}
  BY <1>1 DEF Raise
<1>3. Continue(s) => /\ torn' = (torn \/ Overlap(pc'))
                     /\ pc'[s] \in {"report", "kill_switch", "reflect"}
  <2>1. stage[s] \in {"start", "turn", "reflect"}
    OBVIOUS
  <2>2. QED
    BY <2>1 DEF Continue
<1>4. CASE StartTurn(s) \/ EndRun(s)
  BY <1>4 DEF StartTurn, EndRun, Enter
<1>5. CASE ClearCache(s) \/ ClearDegradations(s) \/ Test(s) \/ Store(s) \/ Describe(s)
            \/ Publish(s) \/ Report(s)
  BY <1>5 DEF ClearCache, ClearDegradations, Test, Store, Describe, Publish, Report
<1>6. CASE Load(s)
  BY <1>2, <1>6 DEF Load
<1>7. CASE Answer(s)
  BY <1>2, <1>3, <1>7 DEF Answer
<1>8. CASE Reflect(s) \/ KillSwitch(s) \/ Appraise(s)
  BY <1>1, <1>8 DEF Reflect, KillSwitch, Appraise
<1>9. QED
  BY <1>4, <1>5, <1>6, <1>7, <1>8 DEF Beside

\* Taking the session, at a start or at a rollover, from within the throttle
\* overlaps with whoever else is there.
LEMMA TakeThrottle ==
    ASSUME TypeOK, ThrottleInv, NEW s \in Sessions, Hook(s),
           session' = s, last' = last, pc'[s] = "clear", torn' = (torn \/ Overlap(pc'))
    PROVE  ThrottleInv'
<1>1. SUFFICES ASSUME ~torn' PROVE ThrottleInv'
  BY DEF ThrottleInv, ThrottleIsOwn
<1>2. \A t \in Sessions \ {s} : pc'[t] \notin InThrottle
  BY <1>1 DEF Overlap, InThrottle
<1>3. ~Overlap(pc')
  BY <1>2 DEF Overlap
<1>4. \A t \in Sessions : Owns(t)'
  BY <1>2 DEF Owns, InThrottle
<1>5. ThrottleIsOwn'
  BY DEF ThrottleIsOwn
<1>6. QED
  BY <1>3, <1>4, <1>5 DEF ThrottleInv, Overlap

\* Every step of a hook keeps this.
LEMMA ThrottleHook ==
    ASSUME TypeOK, ThrottleInv, NEW s \in Sessions, Hook(s)
    PROVE  ThrottleInv'
<1> USE DEF Overlap
<1>1. CASE Beside(s)
  <2>1. /\ UNCHANGED <<session, last, own>>
        /\ torn' = (torn \/ Overlap(pc'))
        /\ pc[s] # "clear" /\ pc'[s] \notin {"clear", "gate", "remember"}
    BY <1>1, BesideFrame
  <2>2. ASSUME NEW t \in Sessions, ~torn'
        PROVE  Owns(t)' /\ (session' = t /\ pc'[t] # "clear" => last' = own'[t])
    BY <2>1, <2>2, Frame DEF ThrottleInv, ThrottleIsOwn, Owns
  <2>3. QED
    BY <2>1, <2>2 DEF ThrottleInv, ThrottleIsOwn
<1>2. CASE StartSession(s)
  BY <1>2, TakeThrottle DEF StartSession, Enter, Goto, TypeOK
<1>3. CASE SetSession(s)
  BY <1>3, TakeThrottle DEF SetSession, Goto, TypeOK
<1>4. CASE Rollover(s)
  <2>1. /\ UNCHANGED <<session, last, own>>
        /\ torn' = (torn \/ Overlap(pc'))
        /\ pc[s] = "rollover" /\ pc'[s] = IF session # s THEN "set_session" ELSE "gate"
    BY <1>4 DEF Rollover, Goto, throttle, TypeOK
  <2>2. ASSUME NEW t \in Sessions, ~torn'
        PROVE  Owns(t)' /\ (session' = t /\ pc'[t] # "clear" => last' = own'[t])
    BY <2>1, <2>2, Frame DEF ThrottleInv, ThrottleIsOwn, Owns
  <2>3. QED
    BY <2>1, <2>2 DEF ThrottleInv, ThrottleIsOwn
<1>5. CASE ClearLast(s)
  <2>1. /\ last' = NoMessage /\ own'[s] = NoMessage /\ session' = session
        /\ torn' = ((torn /\ session # s) \/ \E t \in Sessions \ {s} : pc[t] \in InThrottle)
        /\ pc[s] = "clear" /\ pc'[s] \in {"reset_cache", "gate"}
    BY <1>5 DEF ClearLast, Cleared, TypeOK
  <2>2. SUFFICES ASSUME ~torn' PROVE ThrottleInv'
    BY DEF ThrottleInv, ThrottleIsOwn
  <2>3. session = s
    BY <2>1, <2>2 DEF ThrottleInv, Owns
  <2>4. \A t \in Sessions \ {s} : pc'[t] \notin InThrottle
    BY <2>1, <2>2, Frame
  <2>5. ~Overlap(pc') /\ \A t \in Sessions : Owns(t)'
    BY <2>1, <2>3, <2>4 DEF Owns, InThrottle
  <2>6. ThrottleIsOwn'
    BY <2>1, <2>3 DEF ThrottleIsOwn
  <2>7. QED
    BY <2>5, <2>6 DEF ThrottleInv
<1>6. CASE Gate(s)
  <2>1. /\ UNCHANGED <<session, last, own>>
        /\ torn' = (torn \/ Overlap(pc'))
        /\ pc[s] = "gate" /\ pc'[s] \in {"idle", "remember"}
    BY <1>6 DEF Gate, Return, Goto, throttle, TypeOK
  <2>2. ASSUME NEW t \in Sessions, ~torn'
        PROVE  Owns(t)' /\ (session' = t /\ pc'[t] # "clear" => last' = own'[t])
    BY <2>1, <2>2, Frame DEF ThrottleInv, ThrottleIsOwn, Owns
  <2>3. QED
    BY <2>1, <2>2 DEF ThrottleInv, ThrottleIsOwn
<1>7. CASE Remember(s)
  <2>1. /\ last' = message[s] /\ own'[s] = message[s] /\ session' = session
        /\ torn' = (torn \/ Overlap(pc'))
        /\ pc[s] = "remember" /\ pc'[s] = "appraise"
    BY <1>7 DEF Remember, Goto, TypeOK
  <2>2. SUFFICES ASSUME ~torn' PROVE ThrottleInv'
    BY DEF ThrottleInv, ThrottleIsOwn
  <2>3. session = s
    BY <2>1, <2>2 DEF ThrottleInv, Owns
  <2>4. \A t \in Sessions : Owns(t)'
    BY <2>1, <2>2, Frame DEF ThrottleInv, Owns
  <2>5. ThrottleIsOwn'
    BY <2>1, <2>3 DEF ThrottleIsOwn
  <2>6. QED
    BY <2>1, <2>2, <2>4, <2>5 DEF ThrottleInv
<1>8. QED
  BY <1>1, <1>2, <1>3, <1>4, <1>5, <1>6, <1>7 DEF Hook, Beside

\* Hooks that do not overlap find in _session_state a throttle of their own.
THEOREM ThrottlePerSession == Spec => []ThrottleIsOwn
<1>1. Init => ThrottleInv
  BY DEF Init, ThrottleInv, ThrottleIsOwn, Owns, Overlap, InThrottle
<1>2. TypeOK /\ ThrottleInv /\ Edit => ThrottleInv'
  BY DEF ThrottleInv, ThrottleIsOwn, Owns, Overlap, Edit, throttle
<1>3. ThrottleInv /\ UNCHANGED vars => ThrottleInv'
  BY DEF ThrottleInv, ThrottleIsOwn, Owns, Overlap, vars, throttle, history
<1>4. TypeOK /\ ThrottleInv /\ [Next]_vars => ThrottleInv'
  BY <1>2, <1>3, ThrottleHook DEF Next
<1>5. ThrottleInv => ThrottleIsOwn
  BY DEF ThrottleInv
<1>6. QED
  BY <1>1, <1>4, <1>5, TypeCorrect, PTL DEF Spec

-----------------------------------------------------------------------------
\* A turn past the kill switch was permitted, and before it, permission covers
\* whatever the cache may answer.
PastSwitch == {"rollover", "set_session", "gate", "remember", "appraise"}

Permission == straddled \/ \E e \in seen : Effective(e)["enabled"]

Permits(s) ==
    /\ pc[s] # "idle" /\ Permission => permitted[s]
    /\ pc[s] = "kill_switch" /\ cfg[s]["enabled"] => permitted[s]
    /\ pc[s] \in PastSwitch \/ (pc[s] = "clear" /\ stage[s] # "start") => permitted[s]

PermitInv == \A s \in Sessions : Permits(s)

\* No step takes a permission back, other than a hook's first, and every step
\* that creates one grants it.
LEMMA PermissionGrows ==
    ASSUME TypeOK, CacheInv, NEW s \in Sessions, Hook(s), NEW t \in Sessions
    PROVE  /\ Permission' => Permission \/ permitted'[t]
           /\ permitted[t] => permitted'[t] \/ (t = s /\ pc[s] = "idle")
<1> USE DEF TypeOK, Permission
<1>1. CASE StartSession(s) \/ StartTurn(s) \/ EndRun(s)
  BY <1>1 DEF StartSession, StartTurn, EndRun, Enter
<1>2. CASE ClearCache(s)
  BY <1>2 DEF ClearCache, CacheInv
<1>3. CASE Load(s)
  BY <1>3 DEF Load
<1>4. CASE ClearDegradations(s) \/ Test(s) \/ Store(s) \/ Describe(s) \/ Publish(s) \/ Answer(s)
            \/ Report(s) \/ Reflect(s)
  BY <1>4 DEF ClearDegradations, Test, Store, Describe, Publish, Answer, Report, Reflect
<1>5. CASE KillSwitch(s) \/ Rollover(s) \/ SetSession(s) \/ ClearLast(s) \/ Gate(s)
            \/ Remember(s) \/ Appraise(s)
  BY <1>5 DEF KillSwitch, Rollover, SetSession, ClearLast, Gate, Remember, Appraise
<1>6. QED
  BY <1>1, <1>2, <1>3, <1>4, <1>5 DEF Hook

\* The hook's own position moves past the switch only by passing it.
LEMMA PermitsOwn ==
    ASSUME TypeOK, CacheInv, NEW s \in Sessions, Permits(s), Hook(s)
    PROVE  Permits(s)'
<1> USE DEF TypeOK, Goto, PastSwitch
<1>0. /\ Permission' => Permission \/ permitted'[s]
      /\ permitted[s] => permitted'[s] \/ pc[s] = "idle"
  BY PermissionGrows
<1>1. Return(s) => pc'[s] = "idle"
  BY DEF Return
<1>2. Raise(s) => pc'[s] \in {"idle", "test"}
  BY <1>1 DEF Raise
<1>3. CASE StartSession(s) \/ StartTurn(s) \/ EndRun(s)
  <2>1. /\ Permission' => permitted'[s]
        /\ pc'[s] = "test" \/ (pc'[s] = "clear" /\ stage'[s] = "start")
    <3>1. \A hook : Enter(s, hook) => /\ UNCHANGED <<straddled, seen>>
                                      /\ permitted'[s] = Permission /\ stage'[s] = hook
      BY DEF Enter, Permission
    <3>2. CASE StartSession(s)
      BY <3>1, <3>2 DEF StartSession, Permission
    <3>3. CASE StartTurn(s) \/ EndRun(s)
      BY <3>1, <3>3 DEF StartTurn, EndRun, Permission
    <3>4. QED
      BY <1>3, <3>2, <3>3
  <2>2. QED
    BY <2>1 DEF Permits
<1>4. ASSUME pc[s] # "idle",
             pc'[s] \notin PastSwitch /\ pc'[s] # "kill_switch" /\ pc'[s] # "clear"
      PROVE  Permits(s)'
  BY <1>0, <1>4 DEF Permits
<1>5. ASSUME pc[s] \in PastSwitch \/ (pc[s] = "clear" /\ stage[s] # "start"),
             pc'[s] # "kill_switch"
      PROVE  Permits(s)'
  BY <1>0, <1>5 DEF Permits
<1>6. CASE ClearCache(s) \/ ClearDegradations(s) \/ Test(s) \/ Load(s) \/ Store(s) \/ Describe(s)
            \/ Publish(s) \/ Report(s) \/ Reflect(s)
  <2>1. pc[s] # "idle" /\ pc'[s] \notin PastSwitch \cup {"kill_switch", "clear"}
    BY <1>1, <1>2, <1>6 DEF ClearCache, ClearDegradations, Test, Load, Store, Describe, Publish,
       Report, Reflect
  <2>2. QED
    BY <1>4, <2>1
<1>7. CASE Answer(s)
  <2>1. CASE cache # NoConfig
    <3>1. /\ cfg'[s] = cache /\ pc[s] = "answer" /\ permitted' = permitted
          /\ UNCHANGED <<straddled, seen>>
      BY <1>7, <2>1 DEF Answer
    <3>2. pc'[s] \in {"report", "kill_switch", "reflect"}
      <4>1. stage[s] \in {"start", "turn", "reflect"}
        OBVIOUS
      <4>2. QED
        BY <1>7, <2>1, <4>1 DEF Answer, Continue
    <3>3. cache["enabled"] => Permission
      BY <2>1 DEF CacheInv, ConfigFresh, Permission
    <3>4. QED
      BY <3>1, <3>2, <3>3 DEF Permits, Permission
  <2>2. CASE cache = NoConfig
    <3>1. pc[s] # "idle" /\ pc'[s] \in {"report", "idle", "test"}
      BY <1>2, <1>7, <2>2 DEF Answer, Continue
    <3>2. QED
      BY <1>4, <3>1
  <2>3. QED
    BY <2>1, <2>2
<1>8. CASE KillSwitch(s)
  <2>1. /\ pc[s] = "kill_switch" /\ permitted' = permitted
        /\ pc'[s] = "idle" \/ (pc'[s] = "rollover" /\ cfg[s]["enabled"])
    BY <1>1, <1>8 DEF KillSwitch
  <2>2. CASE pc'[s] = "idle"
    BY <1>4, <2>1, <2>2
  <2>3. CASE pc'[s] = "rollover" /\ cfg[s]["enabled"]
    BY <2>1, <2>3 DEF Permits
  <2>4. QED
    BY <2>1, <2>2, <2>3
<1>9. CASE ClearLast(s)
  <2>1. CASE stage[s] = "start"
    BY <1>4, <1>9, <2>1 DEF ClearLast
  <2>2. CASE stage[s] # "start"
    BY <1>5, <1>9, <2>2 DEF ClearLast
  <2>3. QED
    BY <2>1, <2>2
<1>10. CASE Rollover(s) \/ SetSession(s) \/ Gate(s) \/ Remember(s) \/ Appraise(s)
  <2>1. pc[s] \in PastSwitch /\ pc'[s] # "kill_switch"
    BY <1>1, <1>10 DEF Rollover, SetSession, Gate, Remember, Appraise
  <2>2. QED
    BY <1>5, <2>1
<1>11. QED
  BY <1>3, <1>6, <1>7, <1>8, <1>9, <1>10 DEF Hook

\* Nor does a hook take another session's permission.
LEMMA PermitHook ==
    ASSUME TypeOK, CacheInv, PermitInv, NEW s \in Sessions, Hook(s)
    PROVE  PermitInv'
<1>1. Permits(s)'
  BY PermitsOwn DEF PermitInv
<1>2. ASSUME NEW t \in Sessions, t # s PROVE Permits(t)'
  <2>1. /\ Permission' => Permission \/ permitted'[t]
        /\ permitted[t] => permitted'[t]
    BY <1>2, PermissionGrows
  <2>2. QED
    BY <1>2, <2>1, Frame DEF PermitInv, Permits
<1>3. QED
  BY <1>1, <1>2 DEF PermitInv

\* A turn is appraised only if the kill switch was on at some moment since the
\* cache was last cleared before it, whichever sessions share the cache, or a load
\* that began before that clearing ended after it.
THEOREM KillSwitchObeyed == Spec => KillSwitchHonoured
<1>1. Init => PermitInv
  BY DEF Init, PermitInv, Permits, PastSwitch
<1>2. TypeOK /\ PermitInv /\ Edit => PermitInv'
  <2>1. SUFFICES ASSUME TypeOK, PermitInv, Edit, NEW s \in Sessions PROVE Permits(s)'
    BY DEF PermitInv
  <2>2. /\ UNCHANGED <<pc, stage, cfg, straddled>> /\ seen' = seen \cup {disk'}
        /\ permitted'[s] = (permitted[s] \/ Effective(disk')["enabled"])
    BY <2>1 DEF Edit, locals
  <2>3. (Permission' => Permission \/ permitted'[s]) /\ (permitted[s] => permitted'[s])
    BY <2>2 DEF Permission
  <2>4. QED
    BY <2>1, <2>2, <2>3 DEF PermitInv, Permits
<1>3. PermitInv /\ UNCHANGED vars => PermitInv'
  BY DEF PermitInv, Permits, Permission, vars, locals, history
<1>4. TypeOK /\ CacheInv /\ PermitInv /\ [Next]_vars => PermitInv'
  BY <1>2, <1>3, PermitHook DEF Next
<1>5. PermitInv /\ [Next]_vars => [\A s \in Sessions : Appraise(s) => permitted[s]]_vars
  BY DEF PermitInv, Permits, PastSwitch, Appraise
<1>6. QED
  BY <1>1, <1>4, <1>5, TypeCorrect, CacheStays, PTL DEF Spec, KillSwitchHonoured

-----------------------------------------------------------------------------
\* The degradations are those of the cached configuration.
InStep == \E e \in seen : cache = Effective(e) /\ degradations = Degraded(e)

\* What a hook finds in the cache at each point of get_cfg, and a session start
\* also in the degradations, while no other session has written them.
Undisturbed(s) ==
    /\ pc[s] = "answer" => cache # NoConfig
    /\ pc[s] \in {"store", "describe", "publish"} => entry[s] \in seen
    /\ pc[s] \in {"describe", "publish"} => cache = Effective(entry[s])
    /\ pc[s] = "publish" => described[s] = Degraded(entry[s])
    /\ stage[s] = "start" =>
        /\ pc[s] \in {"reset_degradations", "test"} => cache = NoConfig
        /\ pc[s] = "answer" => InStep
    /\ pc[s] = "report" => InStep

QuietInv == \A s \in Sessions : quiet[s] => Undisturbed(s)

\* A hook that writes neither the cache nor the degradations leaves the others
\* as they are; one that does disturbs them.
LEMMA QuietOthers ==
    ASSUME TypeOK, QuietInv, NEW s \in Sessions, Hook(s), NEW t \in Sessions, t # s
    PROVE  quiet'[t] => Undisturbed(t)'
<1> USE DEF TypeOK, config
<1>1. ASSUME UNCHANGED <<cache, degradations>>, seen \subseteq seen', quiet'[t] = quiet[t]
      PROVE  quiet'[t] => Undisturbed(t)'
  <2>1. SUFFICES ASSUME quiet[t] PROVE Undisturbed(t)'
    BY <1>1
  <2>2. Undisturbed(t)
    BY <2>1 DEF QuietInv
  <2>3. /\ pc'[t] = pc[t] /\ stage'[t] = stage[t] /\ entry'[t] = entry[t]
        /\ described'[t] = described[t]
    BY Frame
  <2>4. InStep => InStep'
    BY <1>1 DEF InStep
  <2>5. QED
    BY <1>1, <2>2, <2>3, <2>4 DEF Undisturbed
<1>2. CASE ClearCache(s) \/ ClearDegradations(s) \/ Store(s) \/ Publish(s)
  <2>1. ~quiet'[t]
    BY <1>2 DEF ClearCache, ClearDegradations, Store, Publish, Disturb
  <2>2. QED
    BY <2>1
<1>3. CASE StartSession(s) \/ StartTurn(s) \/ EndRun(s)
  BY <1>1, <1>3 DEF StartSession, StartTurn, EndRun, Enter
<1>4. CASE Load(s)
  BY <1>1, <1>4 DEF Load
<1>5. CASE Test(s) \/ Describe(s) \/ Answer(s) \/ Report(s) \/ Reflect(s)
  BY <1>1, <1>5 DEF Test, Describe, Answer, Report, Reflect
<1>6. CASE KillSwitch(s) \/ Rollover(s) \/ SetSession(s) \/ ClearLast(s) \/ Gate(s)
            \/ Remember(s) \/ Appraise(s)
  BY <1>1, <1>6 DEF KillSwitch, Rollover, SetSession, ClearLast, Gate, Remember, Appraise
<1>7. QED
  BY <1>2, <1>3, <1>4, <1>5, <1>6 DEF Hook

\* And its own reads follow its own writes.
LEMMA QuietOwn ==
    ASSUME TypeOK, QuietInv, NEW s \in Sessions, Hook(s)
    PROVE  quiet'[s] => Undisturbed(s)'
<1> USE DEF TypeOK, config, Goto
<1>1. Return(s) => pc'[s] = "idle"
  BY DEF Return
<1>2. Raise(s) => pc'[s] = "idle" \/ (pc'[s] = "test" /\ stage'[s] = "reflect")
  BY <1>1 DEF Raise
<1>3. ASSUME pc'[s] \notin {"answer", "store", "describe", "publish", "report",
                            "reset_degradations", "test"}
             \/ (pc'[s] = "test" /\ stage'[s] # "start")
      PROVE  Undisturbed(s)'
  BY <1>3 DEF Undisturbed, InStep
<1>4. CASE StartSession(s) \/ StartTurn(s) \/ EndRun(s)
  <2>1. StartSession(s) => pc'[s] = "clear"
    BY DEF StartSession, Enter
  <2>2. StartTurn(s) \/ EndRun(s) => pc'[s] = "test" /\ stage'[s] # "start"
    BY DEF StartTurn, EndRun, Enter
  <2>3. QED
    BY <1>3, <1>4, <2>1, <2>2
<1>5. CASE ClearCache(s)
  BY <1>5 DEF ClearCache, Undisturbed, InStep
<1>6. CASE ClearDegradations(s)
  <2>1. /\ pc[s] = "reset_degradations" /\ pc'[s] = "test" /\ cache' = cache /\ stage' = stage
        /\ quiet'[s] => quiet[s]
    BY <1>6 DEF ClearDegradations, Disturb
  <2>2. QED
    BY <2>1 DEF QuietInv, Undisturbed, InStep
<1>7. CASE Test(s)
  <2>1. /\ pc[s] = "test" /\ pc'[s] = IF cache # NoConfig THEN "answer" ELSE "load"
        /\ UNCHANGED <<cache, stage, quiet>>
    BY <1>7 DEF Test
  <2>2. QED
    BY <2>1 DEF QuietInv, Undisturbed, InStep
<1>8. CASE Load(s)
  <2>1. PICK e \in {disk, Default} :
          /\ seen' = seen \cup {e}
          /\ IF e.overflow
             THEN Raise(s)
             ELSE entry' = [entry EXCEPT ![s] = e] /\ Goto(s, "store")
    BY <1>8 DEF Load
  <2>2. CASE e.overflow
    BY <1>2, <1>3, <2>1, <2>2
  <2>3. CASE ~e.overflow
    <3>1. pc'[s] = "store" /\ entry'[s] = e /\ e \in seen'
      BY <2>1, <2>3
    <3>2. QED
      BY <3>1 DEF Undisturbed, InStep
  <2>4. QED
    BY <2>2, <2>3
<1>9. CASE Store(s)
  <2>1. /\ pc[s] = "store" /\ pc'[s] = "describe" /\ cache' = Effective(entry[s])
        /\ UNCHANGED <<entry, seen>>
        /\ quiet'[s] => quiet[s]
    BY <1>9 DEF Store, Disturb, locals
  <2>2. QED
    BY <2>1 DEF QuietInv, Undisturbed, InStep
<1>10. CASE Describe(s)
  <2>1. /\ pc[s] = "describe" /\ pc'[s] = "publish"
        /\ described'[s] = IF cache = NoConfig THEN {} ELSE Degraded(entry[s])
        /\ UNCHANGED <<cache, entry, seen, quiet>>
    BY <1>10 DEF Describe
  <2>2. Effective(entry[s]) # NoConfig
    BY EffectiveType, HooksAssumption DEF Configs
  <2>3. QED
    BY <2>1, <2>2 DEF QuietInv, Undisturbed, InStep
<1>11. CASE Publish(s)
  <2>1. /\ pc[s] = "publish" /\ pc'[s] = "answer" /\ degradations' = described[s]
        /\ UNCHANGED <<cache, entry, seen>>
        /\ quiet'[s] => quiet[s]
    BY <1>11 DEF Publish, Disturb, locals
  <2>2. Effective(entry[s]) # NoConfig
    BY EffectiveType, HooksAssumption DEF Configs
  <2>3. QED
    BY <2>1, <2>2 DEF QuietInv, Undisturbed, InStep
<1>12. CASE Answer(s)
  <2>1. CASE cache # NoConfig
    <3>1. pc'[s] \in {"report", "kill_switch", "reflect"} /\ stage' = stage /\ pc[s] = "answer"
      <4>1. stage[s] \in {"start", "turn", "reflect"}
        OBVIOUS
      <4>2. QED
        BY <1>12, <2>1, <4>1 DEF Answer, Continue
    <3>2. UNCHANGED <<cache, degradations, seen, quiet>>
      BY <1>12 DEF Answer
    <3>3. pc'[s] = "report" => stage[s] = "start"
      BY <1>12, <2>1, <3>1 DEF Answer, Continue
    <3>4. QED
      BY <3>1, <3>2, <3>3 DEF QuietInv, Undisturbed, InStep
  <2>2. CASE cache = NoConfig
    <3>1. ~quiet[s] /\ quiet' = quiet
      BY <1>12, <2>2 DEF Answer, QuietInv, Undisturbed, InStep
    <3>2. QED
      BY <3>1
  <2>3. QED
    BY <2>1, <2>2
<1>13. CASE Report(s)
  BY <1>3, <1>13 DEF Report
<1>14. CASE Reflect(s) \/ KillSwitch(s) \/ Appraise(s)
  BY <1>1, <1>3, <1>14 DEF Reflect, KillSwitch, Appraise
<1>15. CASE Rollover(s) \/ SetSession(s) \/ ClearLast(s)
  BY <1>3, <1>15 DEF Rollover, SetSession, ClearLast
<1>16. CASE Gate(s) \/ Remember(s)
  BY <1>1, <1>3, <1>16 DEF Gate, Remember
<1>17. QED
  BY <1>4, <1>5, <1>6, <1>7, <1>8, <1>9, <1>10, <1>11, <1>12, <1>13, <1>14, <1>15, <1>16
     DEF Hook

\* So hooks that nobody disturbs find what they left.
LEMMA QuietStays == Spec => []QuietInv
<1>1. Init => QuietInv
  BY DEF Init, QuietInv, Undisturbed, InStep
<1>2. TypeOK /\ QuietInv /\ Edit => QuietInv'
  BY DEF QuietInv, Undisturbed, InStep, Edit, locals
<1>3. QuietInv /\ UNCHANGED vars => QuietInv'
  BY DEF QuietInv, Undisturbed, InStep, vars, config, locals, history
<1>4. TypeOK /\ QuietInv /\ [Next]_vars => QuietInv'
  <2>1. ASSUME TypeOK, QuietInv, NEW s \in Sessions, Hook(s) PROVE QuietInv'
    BY <2>1, QuietOthers, QuietOwn DEF QuietInv
  <2>2. QED
    BY <1>2, <1>3, <2>1 DEF Next
<1>5. QED
  BY <1>1, <1>4, TypeCorrect, PTL DEF Spec

\* get_cfg answers a configuration unless another session writes the cache
\* meanwhile.
THEOREM AnswersUndisturbed == Spec => AnswersConfig
<1>1. QuietInv /\ [Next]_vars => [\A s \in Sessions : Answer(s) /\ quiet[s] => cache # NoConfig]_vars
  BY DEF QuietInv, Undisturbed, Answer
<1>2. QED
  BY <1>1, QuietStays, PTL DEF Spec, AnswersConfig

\* An undisturbed session start reports exactly what is degraded in the
\* configuration it has cached.
THEOREM ReportsExactly == Spec => ReportsItsConfig
<1>1. TypeOK /\ QuietInv /\ [Next]_vars
        => [\A s \in Sessions : Report(s) /\ quiet[s] =>
              \E e \in seen : cache = Effective(e) /\ degradations = Degraded(e)]_vars
  BY DEF QuietInv, Undisturbed, InStep, Report
<1>2. QED
  BY <1>1, QuietStays, TypeCorrect, PTL DEF Spec, ReportsItsConfig
==============================================================================
