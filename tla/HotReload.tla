------------------------------ MODULE HotReload ------------------------------
(***************************************************************************)
(* Hot reload (hotreload.rs) from a saved file to the tasks that run with  *)
(* it.  The thread of the watcher puts a message into a small channel for  *)
(* every notification; the watch task collapses the messages, loads        *)
(* config.toml and publishes it on a watch channel; the pipeline and the   *)
(* slow path worker (main.rs) rebuild their components from what is        *)
(* published, and the pipeline reads the rules directory again.            *)
(*                                                                         *)
(* Files are numbered versions.  A configuration is its version and the    *)
(* one field hot reload reads itself, rules_path.                          *)
(***************************************************************************)
EXTENDS Naturals, FiniteSets

CONSTANTS
  Dir,       \* rules directories that a configuration can name
  BootDir,   \* the one the configuration of the start names
  Task,      \* the tasks that reload: the pipeline and the slow path worker
  ChanCap,   \* capacity of the channel of notifications
  MaxSaves,  \* bound: times config.toml is saved
  MaxRules   \* bound: versions of the rules directories

ConfigFile == "config.toml"

ASSUME HotReloadAssumption ==
  /\ ConfigFile \notin Dir /\ BootDir \in Dir /\ "pipeline" \in Task
  /\ ChanCap \in Nat \ {0} /\ MaxSaves \in Nat /\ MaxRules \in Nat

Config == [ver : Nat, rules_path : Dir]

VARIABLES
  file,     \* config.toml: [conf, ok], ok if it is whole and parses
  rules,    \* rules[d]: the version of directory d, 0 if there is none
  newestRules,  \* history: the number of the newest version of a directory
  watched,  \* what the watcher is registered for
  inbox,    \* notifications its thread has not put into the channel yet
  chan,     \* messages in the channel
  wpc,      \* the watch task
  parsed,   \* the result of Config::load: [conf, ok]
  shared,   \* the configuration behind the lock
  latest,   \* the value of the watch channel
  changed,  \* changed[t]: a value is there that t has not seen
  tpc,      \* tpc[t]: where task t is
  cfg,      \* cfg[t]: the configuration t runs with
  loaded,   \* the rules of the Fast Path: [dir, ver]
  noticed,  \* history: noticed[x], the last version of x that was notified
  valid     \* history: the versions of config.toml that parse

envVars == <<file, rules, newestRules, valid>>
watchVars == <<wpc, parsed, shared>>
taskVars == <<tpc, cfg, loaded>>
vars == <<envVars, watchVars, taskVars, watched, inbox, chan, latest, changed, noticed>>

Object == Dir \cup {ConfigFile}

\* main loads the file before anything else; with hot_reload = false nothing
\* is watched.
Init ==
  /\ file = [conf |-> [ver |-> 0, rules_path |-> BootDir], ok |-> TRUE]
  /\ rules \in [Dir -> {0, 1}] /\ newestRules = 1
  /\ wpc \in {"start", "ended"}
  /\ watched = {} /\ inbox = 0 /\ chan = 0
  /\ parsed = file /\ shared = file.conf /\ latest = file.conf
  /\ changed = [t \in Task |-> FALSE]
  /\ tpc = [t \in Task |-> "boot"]
  /\ cfg = [t \in Task |-> file.conf]
  /\ loaded = [dir |-> file.conf.rules_path, ver |-> 0]
  /\ noticed = [x \in Object |-> 0] /\ valid = {0}

-----------------------------------------------------------------------------
(***************************************************************************)
(* The files                                                               *)
(***************************************************************************)
\* A write to x is notified if x is being watched.
Notify(x, v) ==
  /\ inbox' = IF x \in watched THEN inbox + 1 ELSE inbox
  /\ noticed' = IF x \in watched THEN [noticed EXCEPT ![x] = v] ELSE noticed

\* Writing in place, as the editor of the TUI does, truncates first.
Truncate ==
  /\ file.ok /\ file.conf.ver < MaxSaves
  /\ file' = [file EXCEPT !.ok = FALSE]
  /\ Notify(ConfigFile, file.conf.ver)
  /\ UNCHANGED <<rules, newestRules, valid, watchVars, taskVars, watched, chan, latest, changed>>

Write(d, ok) ==
  /\ ~file.ok /\ file.conf.ver < MaxSaves
  /\ file' = [conf |-> [ver |-> file.conf.ver + 1, rules_path |-> d], ok |-> ok]
  /\ valid' = IF ok THEN valid \cup {file.conf.ver + 1} ELSE valid
  /\ Notify(ConfigFile, file.conf.ver + 1)
  /\ UNCHANGED <<rules, newestRules, watchVars, taskVars, watched, chan, latest, changed>>

\* Renaming a new file over config.toml, as sed -i and many editors do: the
\* watch belongs to the old file and ends with it.
Replace(d) ==
  /\ file.conf.ver < MaxSaves
  /\ file' = [conf |-> [ver |-> file.conf.ver + 1, rules_path |-> d], ok |-> TRUE]
  /\ valid' = valid \cup {file.conf.ver + 1}
  /\ Notify(ConfigFile, file.conf.ver + 1)
  /\ watched' = watched \ {ConfigFile}
  /\ UNCHANGED <<rules, newestRules, watchVars, taskVars, chan, latest, changed>>

\* A rule is staged, approved, reaped or edited; a missing directory is made.
EditRules(d) ==
  /\ newestRules < MaxRules
  /\ newestRules' = newestRules + 1
  /\ rules' = [rules EXCEPT ![d] = newestRules']
  /\ Notify(d, newestRules')
  /\ UNCHANGED <<file, valid, watchVars, taskVars, watched, chan, latest, changed>>

-----------------------------------------------------------------------------
(***************************************************************************)
(* The watcher's thread and the watch task                                 *)
(***************************************************************************)
\* blocking_send waits for room in the channel
Deliver ==
  /\ inbox > 0 /\ chan < ChanCap /\ wpc # "ended"
  /\ inbox' = inbox - 1 /\ chan' = chan + 1
  /\ UNCHANGED <<envVars, watchVars, taskVars, watched, latest, changed, noticed>>

WatchConfig ==
  /\ wpc = "start"
  /\ wpc' = "rules"
  /\ watched' = {ConfigFile}
  /\ UNCHANGED <<envVars, parsed, shared, taskVars, inbox, chan, latest, changed, noticed>>

\* The directory is the one the first configuration names, if it is there.
WatchRules ==
  /\ wpc = "rules"
  /\ wpc' = "recv"
  /\ watched' = IF rules[shared.rules_path] > 0 THEN watched \cup {shared.rules_path}
                ELSE watched
  /\ UNCHANGED <<envVars, parsed, shared, taskVars, inbox, chan, latest, changed, noticed>>

\* watch returns with an error; watcher, channel and sender are dropped.
WatchFails ==
  /\ wpc \in {"start", "rules"}
  /\ wpc' = "ended"
  /\ watched' = {} /\ inbox' = 0 /\ chan' = 0
  /\ UNCHANGED <<envVars, parsed, shared, taskVars, latest, changed, noticed>>

\* Slip: a full batch is waited for.
RecvBatch ==
  /\ wpc = "recv" /\ chan = ChanCap
  /\ wpc' = "drain" /\ chan' = chan - 1
  /\ UNCHANGED <<envVars, parsed, shared, taskVars, watched, inbox, latest, changed, noticed>>

Recv ==
  /\ wpc = "recv" /\ chan > 0
  /\ wpc' = "drain" /\ chan' = chan - 1
  /\ UNCHANGED <<envVars, parsed, shared, taskVars, watched, inbox, latest, changed, noticed>>

\* try_recv until the channel is empty
Drain ==
  /\ wpc = "drain"
  /\ wpc' = "load" /\ chan' = 0
  /\ UNCHANGED <<envVars, parsed, shared, taskVars, watched, inbox, latest, changed, noticed>>

Load ==
  /\ wpc = "load"
  /\ wpc' = "publish" /\ parsed' = file
  /\ UNCHANGED <<envVars, shared, taskVars, watched, inbox, chan, latest, changed, noticed>>

\* Slip: the messages that came in the meantime are drained as well.
PublishThenDrain ==
  /\ wpc = "publish"
  /\ wpc' = "recv" /\ chan' = 0
  /\ shared' = IF parsed.ok THEN parsed.conf ELSE shared
  /\ latest' = shared'
  /\ changed' = [t \in Task |-> TRUE]
  /\ UNCHANGED <<envVars, parsed, taskVars, watched, inbox, noticed>>

\* Slip: a file that does not parse publishes nothing.
PublishIfValid ==
  /\ wpc = "publish"
  /\ wpc' = "recv"
  /\ shared' = IF parsed.ok THEN parsed.conf ELSE shared
  /\ latest' = shared'
  /\ changed' = [t \in Task |-> changed[t] \/ parsed.ok]
  /\ UNCHANGED <<envVars, parsed, taskVars, watched, inbox, chan, noticed>>

\* Slip: the lock's configuration is not updated, and the error arm sends it.
PublishOld ==
  /\ wpc = "publish"
  /\ wpc' = "recv"
  /\ latest' = IF parsed.ok THEN parsed.conf ELSE shared
  /\ changed' = [t \in Task |-> TRUE]
  /\ UNCHANGED <<envVars, parsed, shared, taskVars, watched, inbox, chan, noticed>>

\* What does not parse publishes the configuration of before, for the rules.
Publish ==
  /\ wpc = "publish"
  /\ wpc' = "recv"
  /\ shared' = IF parsed.ok THEN parsed.conf ELSE shared
  /\ latest' = shared'
  /\ changed' = [t \in Task |-> TRUE]
  /\ UNCHANGED <<envVars, parsed, taskVars, watched, inbox, chan, noticed>>

WatchStep == WatchConfig \/ WatchRules \/ Recv \/ Drain \/ Load \/ Publish

-----------------------------------------------------------------------------
(***************************************************************************)
(* The tasks                                                               *)
(***************************************************************************)
\* main builds the Fast Path from the first configuration; the watch task has
\* been running since before.
BuildFastPath ==
  /\ \A t \in Task : tpc[t] = "boot"
  /\ tpc' = [t \in Task |-> "built"]
  /\ loaded' = [loaded EXCEPT !.ver = rules[loaded.dir]]
  /\ UNCHANGED <<envVars, watchVars, cfg, watched, inbox, chan, latest, changed, noticed>>

\* The tasks are spawned once SlowPath::new has heard from Qdrant.
SpawnTasks ==
  /\ \A t \in Task : tpc[t] = "built"
  /\ tpc' = [t \in Task |-> "select"]
  /\ UNCHANGED <<envVars, watchVars, cfg, loaded, watched, inbox, chan, latest, changed, noticed>>

\* the arm of select! on reload_rx.changed()
TakeReload(t) ==
  /\ tpc[t] = "select" /\ changed[t]
  /\ tpc' = [tpc EXCEPT ![t] = "borrow"]
  /\ changed' = [changed EXCEPT ![t] = FALSE]
  /\ UNCHANGED <<envVars, watchVars, cfg, loaded, watched, inbox, chan, latest, noticed>>

Borrow(t) ==
  /\ tpc[t] = "borrow"
  /\ tpc' = [tpc EXCEPT ![t] = "rebuild"]
  /\ cfg' = [cfg EXCEPT ![t] = latest]
  /\ UNCHANGED <<envVars, watchVars, loaded, watched, inbox, chan, latest, changed, noticed>>

\* Slip: rules are read again only if rules_path has changed.
RebuildIfMoved(t) ==
  /\ tpc[t] = "rebuild"
  /\ tpc' = [tpc EXCEPT ![t] = "select"]
  /\ loaded' = LET d == cfg[t].rules_path
               IN  IF t = "pipeline" /\ d # loaded.dir THEN [dir |-> d, ver |-> rules[d]]
                   ELSE loaded
  /\ UNCHANGED <<envVars, watchVars, cfg, watched, inbox, chan, latest, changed, noticed>>

\* FastPath::new reads the directory; SlowPath::new waits for Qdrant.
Rebuild(t) ==
  /\ tpc[t] = "rebuild"
  /\ tpc' = [tpc EXCEPT ![t] = "select"]
  /\ loaded' = LET d == cfg[t].rules_path
               IN  IF t = "pipeline" THEN [dir |-> d, ver |-> rules[d]] ELSE loaded
  /\ UNCHANGED <<envVars, watchVars, cfg, watched, inbox, chan, latest, changed, noticed>>

TaskStep(t) == TakeReload(t) \/ Borrow(t) \/ Rebuild(t)

Next ==
  \/ Truncate
  \/ \E d \in Dir, ok \in BOOLEAN : Write(d, ok)
  \/ \E d \in Dir : Replace(d) \/ EditRules(d)
  \/ Deliver \/ WatchStep \/ WatchFails
  \/ BuildFastPath \/ SpawnTasks \/ (\E t \in Task : TaskStep(t))

Spec == Init /\ [][Next]_vars

\* Threads and tasks are scheduled and Qdrant answers; nobody has to save.
FairSpec ==
  /\ Spec /\ WF_vars(Deliver) /\ WF_vars(WatchStep) /\ WF_vars(BuildFastPath \/ SpawnTasks)
  /\ \A t \in Task : WF_vars(TaskStep(t))

-----------------------------------------------------------------------------
TypeOK ==
  /\ file \in [conf : Config, ok : BOOLEAN] /\ parsed \in [conf : Config, ok : BOOLEAN]
  /\ rules \in [Dir -> Nat] /\ newestRules \in Nat
  /\ watched \subseteq Object
  /\ inbox \in Nat /\ chan \in 0..ChanCap
  /\ wpc \in {"start", "rules", "recv", "drain", "load", "publish", "ended"}
  /\ shared \in Config /\ latest \in Config
  /\ changed \in [Task -> BOOLEAN]
  /\ tpc \in [Task -> {"boot", "built", "select", "borrow", "rebuild"}]
  /\ cfg \in [Task -> Config]
  /\ loaded \in [dir : Dir, ver : Nat]
  /\ noticed \in [Object -> Nat] /\ valid \subseteq Nat

\* The last valid save of config.toml has been notified.
ConfigNoticed == wpc # "ended" /\ file.ok /\ noticed[ConfigFile] = file.conf.ver

\* The rules that the Fast Path uses have been changed, and that was notified.
RulesNoticed ==
  LET d == loaded.dir
  IN  wpc # "ended" /\ rules[d] # 0 /\ noticed[d] = rules[d] /\ loaded.ver # rules[d]

\* A message is under way that makes the watch task look at the files again.
LookPending == inbox > 0 \/ chan > 0 \/ wpc \in {"drain", "load"}

\* hotreload.rs:51-69: whatever saves, partial writes, full channels and drained
\* messages come together, while the last notified version of config.toml is
\* valid and a task runs with another one, something is under way to change that.
NoChangeIsLost ==
  ConfigNoticed =>
    \A t \in Task :
      \/ cfg[t] = file.conf
      \/ LookPending
      \/ wpc = "publish" /\ parsed = file
      \/ latest = file.conf /\ (changed[t] \/ tpc[t] = "borrow")

\* hotreload.rs:61-66: a notified change of the rules in use is read by the Fast
\* Path or will be, although nothing in config.toml has changed or it is broken.
RulesChangeIsOnTheWay ==
  RulesNoticed =>
    \/ LookPending \/ wpc = "publish" \/ changed["pipeline"]
    \/ tpc["pipeline"] \in {"boot", "borrow", "rebuild"}

Feed == INSTANCE VersionFeed
  WITH newest <- file.conf.ver, held <- [t \in Task |-> cfg[t].ver]

\* hotreload.rs:58-67: each task runs with a valid configuration and never goes
\* back to an older one, also when the file of the moment does not parse.
FollowsFeed == Feed!Spec

\* README.md:304, changes are picked up by hot reload: a task gets the last valid
\* configuration that was notified, unless a later save or its failure is next.
ConfigTakesEffect ==
  \A t \in Task : ConfigNoticed ~> (cfg[t] = file.conf \/ ~ConfigNoticed)

\* The Fast Path gets the rules of a notified change, unless the configuration
\* names another directory by then.
RulesTakeEffect == RulesNoticed ~> ~RulesNoticed

=============================================================================
