--------------------------- MODULE HotReloadProofs ---------------------------
(***************************************************************************)
(* Proofs about HotReload, for any directories, tasks and bounds: no       *)
(* notified change is lost, and the tasks follow VersionFeed.              *)
(***************************************************************************)
EXTENDS HotReload, TLAPS

-----------------------------------------------------------------------------
(***************************************************************************)
(* Types                                                                   *)
(***************************************************************************)
LEMMA InitTypeOK == Init => TypeOK
<1> SUFFICES ASSUME Init PROVE TypeOK
  OBVIOUS
<1>1. file \in [conf : Config, ok : BOOLEAN]
  BY HotReloadAssumption DEF Init, Config
<1>2. file.conf \in Config /\ file.conf.rules_path \in Dir
  BY <1>1 DEF Config
<1> QED
  BY <1>1, <1>2, HotReloadAssumption DEF Init, TypeOK, Object

\* A notification leaves the types of what it changes alone.
LEMMA NotifyType ==
  ASSUME TypeOK, NEW x \in Object, NEW v \in Nat, Notify(x, v)
  PROVE  inbox' \in Nat /\ noticed' \in [Object -> Nat]
BY DEF TypeOK, Notify

LEMMA FileStepType ==
  ASSUME TypeOK,
         \/ Truncate
         \/ \E d \in Dir, ok \in BOOLEAN : Write(d, ok)
         \/ \E d \in Dir : Replace(d) \/ EditRules(d)
  PROVE  TypeOK'
<1>1. /\ file.conf.ver \in Nat /\ file.conf.ver + 1 \in Nat
      /\ ConfigFile \in Object /\ Dir \subseteq Object
  BY DEF TypeOK, Config, Object
<1>2. CASE Truncate
  <2>1. inbox' \in Nat /\ noticed' \in [Object -> Nat]
    BY <1>1, <1>2, NotifyType DEF Truncate
  <2> QED
    BY <1>2, <2>1 DEF Truncate, TypeOK, watchVars, taskVars
<1>3. ASSUME NEW d \in Dir, NEW ok \in BOOLEAN, Write(d, ok) PROVE TypeOK'
  <2>1. inbox' \in Nat /\ noticed' \in [Object -> Nat]
    BY <1>1, <1>3, NotifyType DEF Write
  <2>2. file' \in [conf : Config, ok : BOOLEAN] /\ valid' \subseteq Nat
    BY <1>1, <1>3 DEF Write, Config, TypeOK
  <2> QED
    BY <1>3, <2>1, <2>2 DEF Write, TypeOK, watchVars, taskVars
<1>4. ASSUME NEW d \in Dir, Replace(d) PROVE TypeOK'
  <2>1. inbox' \in Nat /\ noticed' \in [Object -> Nat]
    BY <1>1, <1>4, NotifyType DEF Replace
  <2>2. file' \in [conf : Config, ok : BOOLEAN] /\ valid' \subseteq Nat
    BY <1>1, <1>4 DEF Replace, Config, TypeOK
  <2> QED
    BY <1>4, <2>1, <2>2 DEF Replace, TypeOK, watchVars, taskVars
<1>5. ASSUME NEW d \in Dir, EditRules(d) PROVE TypeOK'
  <2>1. newestRules' \in Nat /\ d \in Object
    BY <1>1, <1>5 DEF EditRules, TypeOK
  <2>2. inbox' \in Nat /\ noticed' \in [Object -> Nat]
    BY <1>5, <2>1, NotifyType DEF EditRules
  <2> QED
    BY <1>5, <2>1, <2>2 DEF EditRules, TypeOK, watchVars, taskVars
<1> QED
  BY <1>2, <1>3, <1>4, <1>5

LEMMA WatchStepType ==
  ASSUME TypeOK, Deliver \/ WatchStep \/ WatchFails
  PROVE  TypeOK'
<1>1. CASE Deliver
  BY <1>1, HotReloadAssumption DEF Deliver, TypeOK, envVars, watchVars, taskVars
<1>2. CASE WatchConfig
  BY <1>2 DEF WatchConfig, TypeOK, envVars, taskVars, Object
<1>3. CASE WatchRules
  BY <1>3 DEF WatchRules, TypeOK, envVars, taskVars, Object, Config
<1>4. CASE Recv
  <2>1. chan' \in 0..ChanCap
    BY <1>4, HotReloadAssumption DEF Recv, TypeOK
  <2> QED
    BY <1>4, <2>1 DEF Recv, TypeOK, envVars, taskVars
<1>5. CASE Drain
  <2>1. chan' \in 0..ChanCap
    BY <1>5, HotReloadAssumption DEF Drain, TypeOK
  <2> QED
    BY <1>5, <2>1 DEF Drain, TypeOK, envVars, taskVars
<1>6. CASE Load
  BY <1>6 DEF Load, TypeOK, envVars, taskVars
<1>7. CASE Publish
  BY <1>7 DEF Publish, TypeOK, envVars, taskVars
<1>8. CASE WatchFails
  BY <1>8, HotReloadAssumption DEF WatchFails, TypeOK, envVars, taskVars
<1> QED
  BY <1>1, <1>2, <1>3, <1>4, <1>5, <1>6, <1>7, <1>8 DEF WatchStep

LEMMA TaskStepType ==
  ASSUME TypeOK, BuildFastPath \/ SpawnTasks \/ (\E t \in Task : TaskStep(t))
  PROVE  TypeOK'
<1>1. CASE BuildFastPath
  BY <1>1 DEF BuildFastPath, TypeOK, envVars, watchVars
<1>2. CASE SpawnTasks
  BY <1>2 DEF SpawnTasks, TypeOK, envVars, watchVars
<1>3. ASSUME NEW t \in Task, TakeReload(t) PROVE TypeOK'
  BY <1>3 DEF TakeReload, TypeOK, envVars, watchVars
<1>4. ASSUME NEW t \in Task, Borrow(t) PROVE TypeOK'
  BY <1>4 DEF Borrow, TypeOK, envVars, watchVars
<1>5. ASSUME NEW t \in Task, Rebuild(t) PROVE TypeOK'
  <2>1. cfg[t].rules_path \in Dir
    BY DEF TypeOK, Config
  <2> QED
    BY <1>5, <2>1 DEF Rebuild, TypeOK, envVars, watchVars
<1> QED
  BY <1>1, <1>2, <1>3, <1>4, <1>5 DEF TaskStep

LEMMA StepTypeOK == TypeOK /\ [Next]_vars => TypeOK'
<1> SUFFICES ASSUME TypeOK, [Next]_vars PROVE TypeOK'
  OBVIOUS
<1>1. CASE UNCHANGED vars
  BY <1>1 DEF TypeOK, vars, envVars, watchVars, taskVars
<1> QED
  BY <1>1, FileStepType, WatchStepType, TaskStepType DEF Next

\* Through every interleaving of saves, notifications and tasks the state keeps
\* its types: in particular the channel holds no more than its capacity.
THEOREM TypeCorrect == Spec => []TypeOK
BY InitTypeOK, StepTypeOK, PTL DEF Spec

-----------------------------------------------------------------------------
(***************************************************************************)
(* What has been notified is no newer than what there is.                  *)
(***************************************************************************)
NoticedPast ==
  /\ noticed[ConfigFile] <= file.conf.ver
  /\ \A d \in Dir : noticed[d] <= newestRules

LEMMA InitNoticedPast == Init => NoticedPast
BY HotReloadAssumption DEF Init, NoticedPast, Object

LEMMA StepNoticedPast == TypeOK /\ NoticedPast /\ [Next]_vars => NoticedPast'
<1> SUFFICES ASSUME TypeOK, NoticedPast, [Next]_vars PROVE NoticedPast'
  OBVIOUS
<1>1. /\ file.conf.ver \in Nat /\ newestRules \in Nat
      /\ ConfigFile \in Object /\ Dir \subseteq Object /\ ConfigFile \notin Dir
      /\ \A x \in Object : noticed[x] \in Nat
  BY HotReloadAssumption DEF TypeOK, Config, Object
<1>2. CASE Truncate
  BY <1>1, <1>2 DEF Truncate, Notify, NoticedPast, TypeOK
<1>3. ASSUME NEW d \in Dir, NEW ok \in BOOLEAN, Write(d, ok) PROVE NoticedPast'
  BY <1>1, <1>3 DEF Write, Notify, NoticedPast, TypeOK
<1>4. ASSUME NEW d \in Dir, Replace(d) PROVE NoticedPast'
  BY <1>1, <1>4 DEF Replace, Notify, NoticedPast, TypeOK
<1>5. ASSUME NEW d \in Dir, EditRules(d) PROVE NoticedPast'
  BY <1>1, <1>5 DEF EditRules, Notify, NoticedPast, TypeOK
<1>6. CASE UNCHANGED <<file, newestRules, noticed>>
  BY <1>6 DEF NoticedPast
<1>7. Deliver \/ WatchStep \/ WatchFails \/ BuildFastPath \/ SpawnTasks
        \/ (\E t \in Task : TaskStep(t)) \/ UNCHANGED vars
      => UNCHANGED <<file, newestRules, noticed>>
  BY DEF Deliver, WatchStep, WatchConfig, WatchRules, Recv, Drain, Load, Publish, WatchFails,
         BuildFastPath, SpawnTasks, TaskStep, TakeReload, Borrow, Rebuild, vars, envVars
<1> QED
  BY <1>2, <1>3, <1>4, <1>5, <1>6, <1>7 DEF Next

-----------------------------------------------------------------------------
(***************************************************************************)
(* The configuration.  NoChangeIsLost by itself is not inductive: a task   *)
(* may run with the last version while an older one is about to be         *)
(* published.  ConfigOnTheWay says where that version is.                  *)
(***************************************************************************)
ConfigOnTheWay ==
  ConfigNoticed =>
    \/ LookPending
    \/ wpc = "publish" /\ parsed = file
    \/ /\ wpc # "publish" /\ latest = file.conf
       /\ \A t \in Task : cfg[t] = file.conf \/ changed[t] \/ tpc[t] = "borrow"

LEMMA InitConfigOnTheWay == Init => ConfigOnTheWay
BY DEF Init, ConfigOnTheWay

LEMMA StepConfigOnTheWay ==
  TypeOK /\ NoticedPast /\ ConfigOnTheWay /\ [Next]_vars => ConfigOnTheWay'
<1> SUFFICES ASSUME TypeOK, NoticedPast, ConfigOnTheWay, [Next]_vars, ConfigNoticed'
             PROVE  \/ LookPending'
                    \/ wpc' = "publish" /\ parsed' = file'
                    \/ /\ wpc' # "publish" /\ latest' = file'.conf
                       /\ \A t \in Task : \/ cfg'[t] = file'.conf \/ changed'[t]
                                          \/ tpc'[t] = "borrow"
  BY DEF ConfigOnTheWay
<1>1. /\ file.conf.ver \in Nat /\ inbox \in Nat /\ chan \in Nat
      /\ ConfigFile \in Object /\ ConfigFile \notin Dir
      /\ noticed[ConfigFile] \in Nat
  BY HotReloadAssumption DEF TypeOK, Config, Object
<1>2. CASE Truncate
  BY <1>2 DEF Truncate, ConfigNoticed
<1>3. ASSUME NEW d \in Dir,
             (\E ok \in BOOLEAN : Write(d, ok)) \/ Replace(d)
      PROVE  LookPending'
  <2>1. Notify(ConfigFile, file.conf.ver + 1) /\ file'.conf.ver = file.conf.ver + 1
    BY <1>3 DEF Write, Replace
  <2>2. ConfigFile \in watched
    BY <1>1, <2>1 DEF Notify, ConfigNoticed, NoticedPast
  <2> QED
    BY <1>1, <2>1, <2>2 DEF Notify, LookPending
<1>4. ASSUME NEW d \in Dir, EditRules(d) PROVE ConfigOnTheWay'
  <2>1. inbox' \in {inbox, inbox + 1} /\ noticed'[ConfigFile] = noticed[ConfigFile]
    BY <1>1, <1>4 DEF EditRules, Notify, TypeOK
  <2> QED
    BY <1>1, <1>4, <2>1
    DEF EditRules, ConfigOnTheWay, ConfigNoticed, LookPending, watchVars, taskVars
<1>5. CASE Deliver \/ Recv \/ Drain
  BY <1>1, <1>5, HotReloadAssumption DEF Deliver, Recv, Drain, LookPending
<1>6. CASE Load
  BY <1>6 DEF Load, envVars
<1>7. CASE Publish
  <2>1. ConfigNoticed /\ file' = file /\ file.ok
    BY <1>7 DEF Publish, ConfigNoticed, envVars
  <2>2. CASE LookPending
    BY <1>7, <2>2 DEF Publish, LookPending
  <2>3. CASE parsed = file
    BY <1>7, <2>1, <2>3 DEF Publish
  <2> QED
    BY <1>7, <2>1, <2>2, <2>3 DEF Publish, ConfigOnTheWay
<1>8. CASE WatchConfig \/ WatchRules \/ BuildFastPath \/ SpawnTasks
  BY <1>8
  DEF WatchConfig, WatchRules, BuildFastPath, SpawnTasks, ConfigOnTheWay, ConfigNoticed,
      LookPending, envVars, watchVars, taskVars, TypeOK
<1>9. CASE WatchFails
  BY <1>9 DEF WatchFails, ConfigNoticed
<1>10. ASSUME NEW t \in Task, TaskStep(t) PROVE ConfigOnTheWay'
  BY <1>10
  DEF TaskStep, TakeReload, Borrow, Rebuild, ConfigOnTheWay, ConfigNoticed, LookPending,
      envVars, watchVars, taskVars, TypeOK
<1>11. CASE UNCHANGED vars
  BY <1>11
  DEF ConfigOnTheWay, ConfigNoticed, LookPending, vars, envVars, watchVars, taskVars
<1> QED
  BY <1>2, <1>3, <1>4, <1>5, <1>6, <1>7, <1>8, <1>9, <1>10, <1>11
  DEF Next, WatchStep, ConfigOnTheWay

LEMMA ConfigOnTheWaySuffices == ConfigOnTheWay => NoChangeIsLost
BY DEF ConfigOnTheWay, NoChangeIsLost

\* For any number of tasks, directories and saves, and any capacity of the
\* channel: a notified valid configuration that a task does not run with yet is
\* on the way to it (hotreload.rs:51-69).
THEOREM ConfigIsNotLost == Spec => []NoChangeIsLost
<1>1. Init => TypeOK /\ NoticedPast /\ ConfigOnTheWay
  BY InitTypeOK, InitNoticedPast, InitConfigOnTheWay
<1>2. TypeOK /\ NoticedPast /\ ConfigOnTheWay /\ [Next]_vars
        => TypeOK' /\ NoticedPast' /\ ConfigOnTheWay'
  BY StepTypeOK, StepNoticedPast, StepConfigOnTheWay
<1> QED
  BY <1>1, <1>2, ConfigOnTheWaySuffices, PTL DEF Spec

-----------------------------------------------------------------------------
(***************************************************************************)
(* The rules                                                               *)
(***************************************************************************)
LEMMA InitRules == Init => RulesChangeIsOnTheWay
BY HotReloadAssumption DEF Init, RulesChangeIsOnTheWay

LEMMA StepRules ==
  TypeOK /\ NoticedPast /\ RulesChangeIsOnTheWay /\ [Next]_vars => RulesChangeIsOnTheWay'
<1> SUFFICES ASSUME TypeOK, NoticedPast, RulesChangeIsOnTheWay, [Next]_vars
             PROVE  RulesChangeIsOnTheWay'
  OBVIOUS
<1>1. /\ inbox \in Nat /\ chan \in Nat /\ newestRules \in Nat
      /\ ConfigFile \in Object /\ Dir \subseteq Object /\ ConfigFile \notin Dir
      /\ "pipeline" \in Task /\ loaded.dir \in Dir
      /\ \A d \in Dir : rules[d] \in Nat /\ noticed[d] \in Nat
  BY HotReloadAssumption DEF TypeOK, Config, Object
<1>2. CASE \/ Truncate
           \/ \E d \in Dir, ok \in BOOLEAN : Write(d, ok)
           \/ \E d \in Dir : Replace(d)
  <2>1. /\ UNCHANGED <<rules, loaded, wpc, chan, changed, tpc>>
        /\ \E v \in Nat : Notify(ConfigFile, v)
    <3>1. file.conf.ver \in Nat /\ file.conf.ver + 1 \in Nat
      BY DEF TypeOK, Config
    <3>2. CASE Truncate
      BY <3>1, <3>2 DEF Truncate, watchVars, taskVars
    <3>3. ASSUME NEW d \in Dir, NEW ok \in BOOLEAN, Write(d, ok)
          PROVE  /\ UNCHANGED <<rules, loaded, wpc, chan, changed, tpc>>
                 /\ \E v \in Nat : Notify(ConfigFile, v)
      BY <3>1, <3>3 DEF Write, watchVars, taskVars
    <3>4. ASSUME NEW d \in Dir, Replace(d)
          PROVE  /\ UNCHANGED <<rules, loaded, wpc, chan, changed, tpc>>
                 /\ \E v \in Nat : Notify(ConfigFile, v)
      BY <3>1, <3>4 DEF Replace, watchVars, taskVars
    <3> QED
      BY <1>2, <3>2, <3>3, <3>4
  <2>2. inbox' \in {inbox, inbox + 1} /\ \A d \in Dir : noticed'[d] = noticed[d]
    BY <1>1, <2>1 DEF Notify, TypeOK
  <2> QED
    BY <1>1, <2>1, <2>2 DEF RulesChangeIsOnTheWay, RulesNoticed, LookPending
<1>3. ASSUME NEW d \in Dir, EditRules(d) PROVE RulesChangeIsOnTheWay'
  <2>1. UNCHANGED <<loaded, wpc, chan, changed, tpc>>
    BY <1>3 DEF EditRules, watchVars, taskVars
  <2>2. CASE d \in watched
    BY <1>1, <1>3, <2>1, <2>2 DEF EditRules, Notify, RulesChangeIsOnTheWay, LookPending
  <2>3. CASE d \notin watched
    <3>1. UNCHANGED <<inbox, noticed>>
      BY <1>3, <2>3 DEF EditRules, Notify
    <3>2. CASE loaded.dir = d
      BY <1>1, <1>3, <2>1, <3>1, <3>2
      DEF EditRules, NoticedPast, RulesChangeIsOnTheWay, RulesNoticed, TypeOK
    <3>3. CASE loaded.dir # d
      BY <1>1, <1>3, <2>1, <3>1, <3>3
      DEF EditRules, RulesChangeIsOnTheWay, RulesNoticed, LookPending, TypeOK
    <3> QED
      BY <3>2, <3>3
  <2> QED
    BY <2>2, <2>3
<1>4. CASE Deliver \/ Recv \/ Drain \/ Load
  BY <1>1, <1>4, HotReloadAssumption
  DEF Deliver, Recv, Drain, Load, RulesChangeIsOnTheWay, LookPending
<1>5. CASE Publish
  BY <1>1, <1>5 DEF Publish, RulesChangeIsOnTheWay
<1>6. CASE WatchConfig \/ WatchRules \/ SpawnTasks
  BY <1>1, <1>6
  DEF WatchConfig, WatchRules, SpawnTasks, RulesChangeIsOnTheWay, RulesNoticed, LookPending,
      envVars, watchVars, taskVars, TypeOK
<1>7. CASE WatchFails
  BY <1>7 DEF WatchFails, RulesChangeIsOnTheWay, RulesNoticed
<1>8. CASE BuildFastPath
  BY <1>8 DEF BuildFastPath, RulesChangeIsOnTheWay, RulesNoticed, TypeOK, envVars
<1>9. ASSUME NEW t \in Task, TakeReload(t) \/ Borrow(t) PROVE RulesChangeIsOnTheWay'
  BY <1>1, <1>9
  DEF TakeReload, Borrow, RulesChangeIsOnTheWay, RulesNoticed, LookPending, envVars, watchVars,
      TypeOK
<1>10. ASSUME NEW t \in Task, Rebuild(t) PROVE RulesChangeIsOnTheWay'
  <2>1. CASE t = "pipeline"
    <3>1. loaded'.ver = rules'[loaded'.dir]
      BY <1>10, <2>1 DEF Rebuild, envVars
    <3> QED
      BY <3>1 DEF RulesChangeIsOnTheWay, RulesNoticed
  <2>2. CASE t # "pipeline"
    BY <1>1, <1>10, <2>2
    DEF Rebuild, RulesChangeIsOnTheWay, RulesNoticed, LookPending, envVars, watchVars, TypeOK
  <2> QED
    BY <2>1, <2>2
<1>11. CASE UNCHANGED vars
  BY <1>11
  DEF RulesChangeIsOnTheWay, RulesNoticed, LookPending, vars, envVars, watchVars, taskVars
<1> QED
  BY <1>2, <1>3, <1>4, <1>5, <1>6, <1>7, <1>8, <1>9, <1>10, <1>11 DEF Next, WatchStep, TaskStep

\* A notified change of the rules in use is read or on the way, whatever happens
\* to config.toml meanwhile (hotreload.rs:61-66).
THEOREM RulesAreNotLost == Spec => []RulesChangeIsOnTheWay
<1>1. Init => TypeOK /\ NoticedPast /\ RulesChangeIsOnTheWay
  BY InitTypeOK, InitNoticedPast, InitRules
<1>2. TypeOK /\ NoticedPast /\ RulesChangeIsOnTheWay /\ [Next]_vars
        => TypeOK' /\ NoticedPast' /\ RulesChangeIsOnTheWay'
  BY StepTypeOK, StepNoticedPast, StepRules
<1> QED
  BY <1>1, <1>2, PTL DEF Spec

-----------------------------------------------------------------------------
(***************************************************************************)
(* The refinement of VersionFeed: versions only grow on their way from the *)
(* file to the tasks, and none but valid ones leave the watch task.        *)
(***************************************************************************)
Ordered ==
  /\ file.ok => file.conf.ver \in valid
  /\ shared = latest /\ latest.ver \in valid /\ latest.ver <= file.conf.ver
  /\ wpc = "publish" =>
       /\ latest.ver <= parsed.conf.ver /\ parsed.conf.ver <= file.conf.ver
       /\ parsed.ok => parsed.conf.ver \in valid
  /\ \A t \in Task : cfg[t].ver <= latest.ver

LEMMA InitOrdered == Init => Ordered
BY DEF Init, Ordered

LEMMA StepOrdered == TypeOK /\ Ordered /\ [Next]_vars => Ordered'
<1> SUFFICES ASSUME TypeOK, Ordered, [Next]_vars PROVE Ordered'
  OBVIOUS
<1>1. /\ file.conf.ver \in Nat /\ parsed.conf.ver \in Nat /\ latest.ver \in Nat
      /\ \A t \in Task : cfg[t] \in Config /\ cfg[t].ver \in Nat
  BY DEF TypeOK, Config
<1>2. CASE Truncate
  BY <1>2 DEF Truncate, Ordered, TypeOK, watchVars, taskVars
<1>3. ASSUME NEW d \in Dir, NEW ok \in BOOLEAN, Write(d, ok) PROVE Ordered'
  BY <1>1, <1>3 DEF Write, Ordered, watchVars, taskVars
<1>4. ASSUME NEW d \in Dir, Replace(d) PROVE Ordered'
  BY <1>1, <1>4 DEF Replace, Ordered, watchVars, taskVars
<1>5. CASE Load
  BY <1>1, <1>5 DEF Load, Ordered, envVars, taskVars
<1>6. CASE Publish
  BY <1>1, <1>6 DEF Publish, Ordered, envVars, taskVars
<1>7. ASSUME NEW t \in Task, Borrow(t) PROVE Ordered'
  BY <1>1, <1>7 DEF Borrow, Ordered, envVars, watchVars, TypeOK
<1>8. CASE /\ UNCHANGED <<file, valid, shared, latest, cfg, parsed>>
           /\ wpc' = "publish" => wpc = "publish"
  BY <1>8 DEF Ordered
<1>9. (\E d \in Dir : EditRules(d)) \/ Deliver \/ WatchConfig \/ WatchRules \/ Recv \/ Drain
        \/ WatchFails \/ BuildFastPath \/ SpawnTasks
        \/ (\E t \in Task : TakeReload(t) \/ Rebuild(t)) \/ UNCHANGED vars
      => /\ UNCHANGED <<file, valid, shared, latest, cfg, parsed>>
         /\ wpc' = "publish" => wpc = "publish"
  BY DEF EditRules, Deliver, WatchConfig, WatchRules, Recv, Drain, WatchFails, BuildFastPath,
         SpawnTasks, TakeReload, Rebuild, vars, envVars, watchVars, taskVars
<1> QED
  BY <1>2, <1>3, <1>4, <1>5, <1>6, <1>7, <1>8, <1>9 DEF Next, WatchStep, TaskStep

LEMMA InitFeed == Init => Feed!Init
BY DEF Init, Feed!Init

LEMMA StepFeed == TypeOK /\ Ordered /\ [Next]_vars => [Feed!Next]_(Feed!feedVars)
<1> SUFFICES ASSUME TypeOK, Ordered, [Next]_vars PROVE [Feed!Next]_(Feed!feedVars)
  OBVIOUS
<1>1. ASSUME NEW d \in Dir, NEW ok \in BOOLEAN, Write(d, ok) PROVE Feed!Save(ok)
  BY <1>1 DEF Write, Feed!Save, taskVars
<1>2. ASSUME NEW d \in Dir, Replace(d) PROVE Feed!Save(TRUE)
  BY <1>2 DEF Replace, Feed!Save, taskVars
<1>3. ASSUME NEW t \in Task, Borrow(t) PROVE Feed!Take(t)
  <2>1. latest.ver \in valid /\ latest.ver >= cfg[t].ver
    BY DEF Ordered, TypeOK, Config
  <2>2. [u \in Task |-> cfg'[u].ver]
          = [[u \in Task |-> cfg[u].ver] EXCEPT ![t] = latest.ver]
    BY <1>3 DEF Borrow, TypeOK
  <2> QED
    BY <1>3, <2>1, <2>2 DEF Borrow, Feed!Take, envVars
<1>4. CASE UNCHANGED <<file, valid, cfg>>
  BY <1>4 DEF Feed!feedVars
<1>5. CASE Truncate
  BY <1>5 DEF Truncate, Feed!feedVars, taskVars, TypeOK
<1>6. (\E d \in Dir : EditRules(d)) \/ Deliver \/ WatchStep \/ WatchFails
        \/ BuildFastPath \/ SpawnTasks
        \/ (\E t \in Task : TakeReload(t) \/ Rebuild(t)) \/ UNCHANGED vars
      => UNCHANGED <<file, valid, cfg>>
  BY DEF EditRules, Deliver, WatchStep, WatchConfig, WatchRules, Recv, Drain, Load, Publish,
         WatchFails, BuildFastPath, SpawnTasks, TakeReload, Rebuild, vars, envVars, taskVars
<1> QED
  BY <1>1, <1>2, <1>3, <1>4, <1>5, <1>6 DEF Next, TaskStep, Feed!Next

\* Hot reload implements VersionFeed: whatever the interleaving, each task runs
\* with a valid configuration and never goes back to an older one
\* (hotreload.rs:58-67).
THEOREM ImplementsVersionFeed == Spec => FollowsFeed
<1>1. Init => TypeOK /\ Ordered /\ Feed!Init
  BY InitTypeOK, InitOrdered, InitFeed
<1>2. TypeOK /\ Ordered /\ [Next]_vars => TypeOK' /\ Ordered' /\ [Feed!Next]_(Feed!feedVars)
  BY StepTypeOK, StepOrdered, StepFeed
<1> QED
  BY <1>1, <1>2, PTL DEF Spec, FollowsFeed, Feed!Spec

=============================================================================
