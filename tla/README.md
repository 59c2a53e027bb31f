# VectorGuard in TLA+

VectorGuard watches system calls with eBPF programs (or takes the events of
Tetragon, Falco or auditd), judges every event by rules, kills or denies in the
kernel what block rules name, records incidents, looks for anomalies, asks a
language model for new rules and shows everything in a terminal. These modules
model its control: what each task, program and file operation does, in which
order, and what can happen between two of them. TLC checks them on small
instances; TLAPS proves the theorems of the `*Proofs` modules for every value of
the constants. Source paths below are relative to `src/vectorguard/src/` unless
they begin with `vectorguard-`; "README.md:n" in a comment of a module is the
repository's `src/README.md`.

## 1. Inventory

| Component | State it keeps | Operations | Interacts with | What is hard, and what makes it correct |
|---|---|---|---|---|
| Fast Path, rules (`fast_path/`) | rules, default action, enabled flag | load a directory, evaluate an event | pipeline, enforcer (hands its rules on) | Two interpreters of one rule language: list order and AND here, key sets in the kernel. They should decide alike. |
| Scope filter (`scope.rs`) | glob lists, label selectors | allows | pipeline | Precedence of exclusion over inclusion; events out of scope leave no trace although the kernel acts on them. |
| Enforcer (`enforcer.rs`) | handles of three block maps | from_ebpf, load_rules, clear | shares the maps with the programs; behind a mutex shared by collector task and pipeline | Not atomic: programs read maps that are half cleared or half filled; an insert may fail. No stale key, no missing key once settled. |
| eBPF programs (`vectorguard-ebpf`) | block maps, ring buffer | execve, openat, connect tracepoints; exec LSM hook | processes on any CPU; collector | Two lookups per decision, reserve may fail, tracepoint and hook see one call twice. Nobody is blocked without a rule or killed without a record. |
| Collector (`collector.rs`) | ring reader | load and attach programs, normalise, forward | pipeline channel | Failure at any stage; normalising loses the executed file's name. |
| Daemon, pipeline (`main.rs`) | channels, tasks, reload channel | select over events and reloads; fork to the slow path; start-up | all | Tasks wait on each other through bounded channels; an await in the wrong place stops reloads. Every event in scope is shown once, in order; reloads are taken. |
| Incident log (`incident.rs`) | mutex, channel, writer task, file | record, writer_task | pipeline and slow path worker | Never waits, so it may drop; two callers; writes fail half-way. Lines in order, never twice. |
| Approval (`approval.rs`) | two directories | stage, list, approve, reject, reap | advisor, TUI, command line, reaper | No lock between processes: check-then-act, stale listings, a scan that aborts. One decision per proposal, no early expiry, expiry in the end. |
| Hot reload (`hotreload.rs`) | watcher, channel of capacity 4, watch channel | watch | file system, pipeline, slow path worker | Collapsed notifications, files read while they are written, watches that end with their file. A notified change is not lost, and nobody goes back. |
| AI advisor (`ai_advisor/`) | sliding window, counts, cooldowns, store | analyze, update_config | pipeline (awaited there), provider, approval | Counts kept apart from the window, windows that change length, a request between trigger and staging, any text as an answer. |
| Slow path (`slow_path/`) | availability, context per PID, Qdrant collection | new, analyze; push, context_vector; ensure, search, upsert | own worker task, Qdrant shared with other daemons, incident log | Off until a reload when Qdrant is down at the start; check, delete and create of the collection by several daemons; statuses nobody looks at. |
| Adapters (`adapter/`) | stream or file reader | next_event, run | Tetragon, log files, pipeline channel | Order within a batch, lines read half-way, rotated logs, streams that break off. Once per record, nothing lost. |
| TUI (`tui/`) | event lists, cursors, process tree, editor | keys, push_event, refresh, accept, reject, save | pipeline channel, approval store, configuration file | Cursors and popups are indexes into lists that move; keys and events share a select; a save may fail. |
| Configuration (`config.rs`) | sections of config.toml, defaults | load | all | Read while it is written; parts of it are kept from the start. |
| Event types (`event/`), rendering (`tui/render.rs`), embedders, deployment scripts | data | draw, HTTP | | Not state machines; see section 7. |

The hazards this list leads to are in `PROJECT.json`, each at its line with the
properties that would catch it going wrong, or the reason no property does.

## 2. Modules

| Module | What it models | Code |
|---|---|---|
| `Policy` | the rule language: events, `Matches`, `FirstMatches`, `Evaluate`, `LoadDir` (any file order), `compute_block_keys`, `KernelBlocks`, the scope's `Allows`; `KernelExpressible` | `fast_path/`, `enforcer.rs`, `scope.rs` |
| `EventPath` | one event's way: program or adapter, normalisation, scope, verdict | `collector.rs`, `adapter/mod.rs`, `main.rs`, `vectorguard-ebpf` |
| `Enforcement` | the life of the block maps: start-up of the collector, reloads, `load_rules` a map operation at a time, processes in the programs | `main.rs`, `enforcer.rs`, `hotreload.rs`, `collector.rs`, `vectorguard-ebpf` |
| `IncidentLog` | record and its writer task | `incident.rs` |
| `EventPipeline` | extends `IncidentLog` with the tasks and channels around it | `main.rs`, `collector.rs`, `adapter/mod.rs`, `slow_path/mod.rs`, `ai_advisor/mod.rs`, `tui/mod.rs` |
| `Delivery` | abstract: events are displayed once, in order, unless out of scope | implemented by `EventPipeline` |
| `Approval` | the approval workflow as system calls on two directories | `approval.rs`, `tui/app.rs`, `main.rs` |
| `ProposalLifecycle` | abstract: new, pending, approved, closed or expired | implemented by `Approval` |
| `HotReload` | saves and changes of files, the watcher, the debounce, loading, publishing, the tasks that rebuild | `hotreload.rs`, `config.rs`, `main.rs`, `tui/app.rs` |
| `VersionFeed` | abstract: each task runs with a valid version and never goes back | implemented by `HotReload` |
| `AiAdvisor` | window, counts, cooldown, the request, extracting and staging rules | `ai_advisor/mod.rs`, `config.rs` |
| `SlowPath` | several daemons and one Qdrant: ensuring the collection, context, search, baseline | `slow_path/` |
| `Adapters` | Tetragon's connections and buffer, the readers of two growing logs | `adapter/` |
| `Tui` | the loop, all keys, lists, popups, editor, decisions | `tui/` |
| `ProcessTree` | extends `Tui` with the rows of the process tree | `tui/app.rs` |
| `PolicyProofs` | lemmas and theorems about `Policy`, `EventPath` and `Enforcement` | |
| `EventPipelineProofs` | about `IncidentLog` and `EventPipeline` | |
| `ApprovalProofs`, `HotReloadProofs`, `AiAdvisorProofs`, `SlowPathProofs`, `AdaptersProofs` | about the module of that name | |
| `TuiProofs` | about `Tui` and `ProcessTree` | |
| `MC*` | small universes for TLC | |

Definitions carry the names of the functions they model where TLA+ allows it
(`compute_block_keys`, `LoadDir`, `HandleExec`, `TrySend`, `extract_toml`,
`process_tree_rows`). An action is one step another task, program or process can
see: a map operation, a channel operation, a system call on a directory, a
request, or the whole handler where nothing can come in between. Operators
commented as *Slip* are plausible mistakes; each property is known to fail when
one of them takes the place of its action.

How the modules meet. `EventPipeline` extends `IncidentLog`; `EventPath` and
`Enforcement` use `Policy`. The others model one task or one group of tasks each,
and what crosses their boundary is an input of any value: the verdict of the
Fast Path is any of `Verdicts` in `EventPipeline`, where `SlowPath` is whether an
event looks anomalous (`Analyzed`), and `AiAdvisor` a request that is answered or
not (`Advise`, `ProviderAnswers`). `AiAdvisor` stages into what `Approval`
begins with (`Create`), `Tui` decides by steps of `Approval`'s reviewers, and the
`TakeReload` of `HotReload` is the `Reload` of `Enforcement`, `EventPipeline`,
`AiAdvisor` and `SlowPath`.

Abstractions. A string is what the code asks of it: `Covers` says which names a
glob covers, `Under` which paths start with a prefix, `CommKey` which kernel
key a pattern becomes. An event keeps the fields that decisions read. In
`Approval` a file is whole, empty or cut off; in `HotReload` it is a version that
parses or does not. A provider's answer is a sequence of kinds of lines. A
vector is the text it was made from and the texts mixed into it, and a search
finds a vector that is stored, nothing in an empty collection, and may find
anything else. A log is a sequence of lines and of parts of lines. What the
kernel, the file system, Qdrant and people do is modelled from how the code uses
it and marked external in `PROJECT.json` (`ReturnToUser`, `EditRules`,
`OperatorRemoves`, `Rotate`, `Done`, `Type`, `Tick` and others).

State correspondence, where the names differ from the code's:

- `Enforcement`: `kmap` is the three maps, `ring` EVENTS, `enf` whether
  `enf_shared` holds an Enforcer, `load` the call of `load_rules` in progress
  (it cannot be two: the collector's ends before the Enforcer is published, and
  the pipeline's holds the mutex), `changed` a message in hotreload's channel,
  `notified` that `reload_rx.changed()` is ready. `pc[p]` is where process p is
  in a program. `lastLoaded`, `reloaded` and `audited` are history.
- `EventPipeline`: `raw`, `slowq`, `tuiq` are the channels `raw_tx`, `slow_tx`,
  `proc_tx`; `ppc` and `spc` where pipeline and worker are; `parked` that
  `raw_rx_opt` is None; `cur`, `scur`, `inhand` the event each task holds.
- `IncidentLog`: `guard` is the mutex, `rec[r]` a call of record, `Trail` what
  has been accepted and not lost.
- `Approval`: `pending` and `approved` are directories as sets of names; `body`
  and `age` belong to the file, not the name, because a writer's file survives
  a rename; `decisions`, `reaped`, `proposedFor` are history.
- `HotReload`: `inbox` is what the watcher's thread has not sent yet, `chan` the
  channel of capacity 4, `shared` the configuration behind the lock, `latest`
  and `changed[t]` the watch channel, `loaded` what the Fast Path read. `noticed`
  and `valid` are history.
- `AiAdvisor`: `window`, `counts` and `cooldowns` as in the code; `ask`,
  `proposed`, `text` and `staged` are the locals of one call of analyze. `seen`,
  `asked` and `since` are history.
- `SlowPath`: `store` is `ContextWindow.store`, `coll` the collection in Qdrant,
  `pc[n]` the worker of daemon n. `past`, `base` and `refused` are history.
- `Adapters`: `held` is the event that `run` sends, `reader` the open file and how
  far it is read, `files` the log and the files it was rotated from.
- `Tui`: `view` collects tab, cursors, popup, mode and filters of `App`, `rows`
  its two lists, `procs` `process_map`, `text` `config_text`. `shown`, `opened`,
  `shifted` and `saved` are history. `session` only chooses what an instance is
  about.
- `ProcessTree`: `dfs` calls itself; `walk.calls` are its calls that are still to
  come, the next one first, and `walk.order` is its result.

## 3. Runs

| Run | Checks | Shows |
|---|---|---|
| `event_path` | `KernelBlocksOnlyBlocked`, `KernelBlocksEveryBlockedExec` | over all rule lists of up to two of eight rules, two default actions, on or off, two scopes, every system call of the universe: kernel and Fast Path agree on rule lists the maps can express |
| `event_path_and` | `ConditionsStayTogether`, which is violated | section 4 |
| `enforcement` | `BlockingIsJustified`, `KillsAreAudited`, `ReloadKeepsKernelInStep` | one process between all steps of start-up, reloads, map updates and a failing collector, with a ring of one event: nobody is blocked, or denied by the LSM hook, without a rule in the maps, or killed off the record while the collector runs |
| `enforcement_loads` | `KeysComeFromRules`, `SettledMapsAreComplete`, `ChangesReachFastPath`, `ChangesReachKernel` | maps of one entry that overflow, malformed and missing files; liveness of reloads |
| `incident_log` | `LogInOrder`, `RecordReturns`, `QueueDrains` | two recorders, two calls each, a channel of two, a writer that fails at will |
| `event_pipeline` | `Delivers` (implements `Delivery`), `OneIncidentPerEvent`, `EventsArrive`, `ReloadsAreTaken` | all tasks, all channels of capacity one, two events, which may come before the pipeline has started |
| `approval` | `FollowsLifecycle` (implements `ProposalLifecycle`), `OneDecision`, `DecisionsHold`, `ApprovedExpire` | two proposals, two reviewers, the advisor, the reaper, the operator; renames and removals that fail with the file in its place; what enters the directory during a sweep |
| `hot_reload` | `FollowsFeed` (implements `VersionFeed`), `NoChangeIsLost`, `RulesChangeIsOnTheWay`, `ConfigTakesEffect`, `RulesTakeEffect` | two saves of config.toml in place or by renaming, whole or broken, changes of two rules directories, a channel of two |
| `advisor` | `CountsMatchWindow`, `AsksWhenItRepeats`, `NoRepetitionIsMissed`, `StagedAsAsked` | four incidents of two patterns over four seconds, two reloads among four configurations, all answers of up to three lines and some longer |
| `slow_path` | `ContextIsPast`, `SettledCollectionFits`, `RepeatsAreNormal` | two daemons, one Qdrant that answers, refuses or is silent at any request and applies updates late, four events of two processes, a reload |
| `adapters` | `OncePerRecord`, `NothingIsLost`, `ReportedArrives` | each adapter with three records, two connections, a log that is missing, rotated, unreadable for a while, written in parts, or dropped in part by an error of `read_line` |
| `tui` | `DecisionFollowsDisplay`, `PopupKeepsRow`, `TreeShowsAll`, `UnsavedIsMarked`, `KeysAreHandled` | keys of any kind in any order in five sessions: scrolling events, processes that name each other as parents, editing with and without an optional field, proposals that come and go |

Type invariants are proved where there are proofs (section 5) and are not among
the runs' invariants.

Bounds. Two rules suffice for order and for one rule's keys to hide in
another's; two files for the order of a directory; `MaxEntries = 1` makes an
insert fail and `RingCap = 1` a reserve. Two events reach every limit of
channels of capacity one: one event in a channel and the next waiting for it,
or dropped, as `try_send` does. Two recorders contend for the mutex, and two
calls each fill the channel. A `Ttl` of one tick separates fresh from expired.
What processes do is limited to one in `enforcement`; the theorems hold for any
number.

In `hot_reload`, `ChanCap = 2` makes the watcher's thread wait while a message is
drained, and two saves let a second one begin in every step of the first one's
reload; `Task` is the pipeline only, since tasks do not see one another and the
theorems hold for any set of them. In `advisor`, four incidents cross a threshold of
two twice, four seconds are longer than the longest window and cooldown, and two
reloads lengthen and shorten the window, or disable the advisor and enable it again.
In `slow_path` a daemon checks a collection while the other deletes or creates it,
`MaxPerPid = 2` and a window shorter than the distance of two timestamps both evict,
and timestamps go backwards; the four configurations differ in dimension, back end
and whether the slow path is on. One acknowledged update waits to be applied at a
time. Daemons, texts and the two dimensions are interchangeable there, so symmetry
is sound (the run has no liveness property). In `adapters` three records are a batch
whose order can be seen to be reversed, before and after a reconnection, or a line
in two parts between two others; calls are one that makes an event and one that
makes none, since the properties tell no others apart; two files are one rotation.
In `tui` lists of two rows drop their oldest with the third event, three processes
are enough for a circle of parents beside a tree, and three proposals for a cursor
in the middle. `MaxEvents`, `MaxCalls`, `MaxSaves`, `MaxRules`, `MaxTime`,
`MaxReloads`, `MaxRecords`, `MaxConns` and `MaxFiles` are the bounds on counters.
Where the bounded input ends the system rightly stops, so those runs do not check
for deadlock; `event_path`, `enforcement`, `enforcement_loads` and `approval` do.

The runs take from a few seconds to three minutes with two workers;
`slow_path` (6.2 million states), `advisor` (1.4 million) and `approval` (0.7
million) are the largest.

Fairness. Only what the scheduler or the code gives: tasks that can run do (weak
fairness of their next step), and a `select!` loop picks among ready arms at random,
so an arm that is ready again and again is taken (strong fairness of `Recv` and
`Reload` in `EventPipeline`). Answers from outside are assumed by name where a
property needs them: `AnsweredSpec` has a provider that answers, `FairWriter` a disk
that does, both shown in the statement checked; `FairSpec` of `HotReload` has a
Qdrant that answers at the start and at a rebuild, because the tasks are spawned,
and the worker goes on, only after that. In `EventPipeline` the tasks begin with
`Start`, which is not fair: the main task awaits `SlowPath::new`, and with it
Qdrant, without a timeout before it spawns them (main.rs:204). `EventsArrive` and
`ReloadsAreTaken` are about events and reloads, older ones too, once that has
returned, and from then on nothing is assumed of Qdrant or of the slow path worker.
Nothing is assumed of reviewers or operators. `FairSpec` of `Approval` has the
clock, the reaper's timer and its sweep, and no assumption about what a system call
returns: since a removal that fails is only a warning, `ApprovedExpire` exempts a
proposal whose own removal is refused for ever (`RefusedForever`). `Show` is taken
to be fair: the display's loop polls keys for 50 ms at most before it looks at
events again. In `Adapters` the task runs and the pipeline takes events; a read that
is possible again and again succeeds (strong fairness of `Read`, since `read_line`
may fail in between); a line on which `read_line` failed is gone, so that
`ReportedArrives` ends in its being sent or dropped; Tetragon need not answer, and
streams need not end, so that `ReportedArrives` names both. In `Tui` only the loop
as a whole is fair (`WF_vars(Turn)`): each turn may be another event's, so
`KeysAreHandled` asks for events to pause.

## 4. Where the code disagrees with what is said about it

`event_path_and` checks one sentence of the repository and finds it violated:
conditions are combined with AND (README.md:307), but `compute_block_keys` gives
the kernel each condition as a key of its own.

Other disagreements show in an action of a model, without a run of their own:

- The Fast Path's verdict overwrites the action that "reflects" a kernel block
  (`collector.rs:143`; `Judge` in `EventPath`).
- The collector reads the rules apart from the pipeline, and reloads before the
  Enforcer is published skip it (README.md:309, "also pushed"; `Enforcement`).
- A busy mutex drops the incident and record gives true, and what is no incident
  gives false (`incident.rs:49`; `LockBusy`, `Call`).
- A provider that never answers holds the pipeline task, and with it reloads
  (README.md:304, "immediately"; `Advise` without `AnsweredSpec`).
- Only Allowed is escalated by the slow path, and an event that no rule covers is
  never Allowed (README.md:383, "that no rule covers"; `Evaluate`).
- A later block rule acts in the kernel although an allow rule came first
  (README.md:315), which is why `KernelExpressible` asks for the order.
- `match_path_prefix` blocks nothing in the kernel (README.md:138;
  `HandleFileOpen` never sets `should_block`).
- A full ring keeps a matched connect from being signalled (README.md:121;
  `ReserveFails`).
- A process whose execve the LSM hook denies has SIGKILL pending from the
  tracepoint (README.md:115; `SendSignal` before `LsmComm`).
- With Tetragon nothing is sent until a stream ends, and then the youngest first
  (README.md:66, "live event stream"; `Response`, `Pop`).
- With `approval_mode = "manual"` a generated rule waits in `pending_dir` and
  becomes a file of its own when it is approved (config.rs:177-178; `StagePending`,
  `Rename`), where README.md:61 has `rules/ai-generated.toml`, "picked up by
  hot reload".
- The window of the context is applied when an event is pushed, so the first
  event after a pause is mixed with vectors older than the window (README.md:42;
  `Embed`).

What else a maintainer may want to know, each visible in the module named:

- `Enforcement`: when `run_collector` fails, the programs and EVENTS go with it, and
  so do the records of signals that were not read yet (`CollectorFails`);
  `KillsAreAudited` is about the time before. A program that is still running then
  writes to a ring nobody reads.
- `EventPipeline`: while Qdrant is silent at the start there is no pipeline, no
  slow path worker and no display; events wait in the channel and in the ring
  (`Start`).
- `Approval`: an expired file that cannot be removed stays in effect, with a
  warning per sweep (`ReapFails`).
- `EventPath`: `match_exec_path` is compared with the caller's comm.
- `HotReload`: a watch ends when config.toml is renamed over (`Replace`); a rules
  directory that is missing at the start, or named later, is not watched; the
  reaper and the TUI keep the directories of the start (`main.rs:215`).
- `AiAdvisor`: the cooldown begins before the API key is known, and entries of
  `cooldowns` are never removed.
- `SlowPath`: the slow path is off until the next reload if Qdrant does not answer
  at the start, and waits for that answer without a timeout; the statuses of DELETE
  and PUT are not looked at, nor is that of the check but for 404, so that an error
  leaves the slow path on (`Refused`); a search answered with an error in JSON finds
  nothing, and what is stored is alerted all the same (`SearchRefused`); an update
  may be applied after the next search (`Apply`); the uSearch back end finds nothing
  at all; a binary has one point that all daemons overwrite; a DELETE after a stale
  check takes a collection that is as it should be; `prune_stale_pids` removes
  nothing, as no list is ever empty, and a process id used again inherits the
  context.
- `Adapters`: after a rotation the reader stays with the old file; an error of
  `read_line`, or a line that is not UTF-8, drops what was read of that line
  (`ReadFailsInLine`); a line read before its end is lost to Falco, and to auditd is
  a call with default fields or of another kind; auditd reports the program as the
  path of an open, and port 0.
- `Tui`: an edit of a field that config.toml does not have is shown and marked,
  and not saved (`Confirm`); a save writes back the text read at the start; a
  popup can be open on a row that is not there, invisible, and takes all keys; one
  on a proposal shows another after a refresh, and one on an event when its list
  drops the oldest; a decision is about the proposal that is highlighted when the key
  is handled, which need not be the one there when it was typed; processes that have
  become each other's ancestors are not in the tree; a save that fails after truncating
  leaves the mark as it was; keys may wait as long as events keep coming.
- `tui/app.rs:519` slices a text at byte 39, which a path with other than ASCII
  characters makes panic; texts are not modelled.

## 5. Proofs

Checked by tlapm, with Z3, Zenon and LS4. They rest on the assumptions named in
the modules (`PolicyAssumption`, `EventPathAssumption`, `EnforcementAssumption`,
`IncidentLogAssumption`, `EventPipelineAssumption`, `ApprovalAssumption`,
`HotReloadAssumption`, `AiAdvisorAssumption`, `SlowPathAssumption`,
`AdaptersAssumption`, `TuiAssumption`): types and disjointness of the constants,
sets of proposals that are finite and capacities that are positive, nothing else
about their size. Type correctness is a theorem of each module; what follows is
the rest.

`PolicyProofs`, first part, relates the two interpreters without any state: a rule
list has at most one first match (`FirstMatchUnique`), a single-condition block
rule's key is hit exactly by the calls it matches (`KeyOfMatchingRule`), so for
expressible lists a kernel block implies a first match that blocks, and, for execve,
the other way round.

Its second part lifts this to the event's way through the program. The
invariant adds to `TypeOK` that an event under way is the normalisation of the
system call that `blocked` was computed for, and that its verdict is the one
`Evaluate` gives. From it follow `KernelIsNoStricter` and `KernelIsNoLaxer`.

Its third part, about `Enforcement`, uses one inductive invariant, the conjunction of

- `TypeOK`;
- `Tasks`: which task is loading, and that the collector's load ends before the
  Enforcer is published: without it two loads could overlap;
- `ReloadKeepsKernelInStep`, in the form that includes a load under way;
- `KeysComeFromRules`: every key is one of the rules that are being inserted, or
  of the last load's while they are being cleared;
- `SettledMapsAreComplete`, which needs the order of the maps, since a failed
  insert leaves later maps empty;
- `KillsRecorded`: until the collector fails, a process about to be signalled
  already has its record in the ring or with the collector; `KillsAreAudited` alone
  is not inductive, because the signal comes a step after the submit;
- `ExecInProgress`: a process between the two lookups of an execve is in an
  execve with its own comm and uid, which the second lookup, of the tracepoint as of
  the LSM hook, needs.

Each conjunct has a lemma with one step per action. `BlockingIsJustified`
follows as an action property from the invariant and the first part.

`EventPipelineProofs` begins with `LogInOrder`, from `Ordered`: file, the line the writer
holds and the queue are each in order and follow one another, and all of them
precede what a recorder is about to send. The last part is what makes it
inductive. Its lemmas are about single steps of record and of the writer, so that
the pipeline's proofs can cite them.

About the whole pipeline it has two arguments.

- `ImplementsDelivery`: the events between source and display are the
  concatenation of four pieces (`Path`: the channel to the display, the event in
  the pipeline's hands, the channel to the pipeline, the event in the source's).
  The `Joined` lemmas say what happens to a concatenation of four when a piece
  grows at its end, passes its first element on, or loses it; each action is one of
  those, or leaves all pieces alone, and so is a step of `Delivery` or a stutter.
  `StoppedByQuit` is needed to see that the pipeline ends only when nobody looks.
- `AtMostOneIncident`: `OneIncidentPerEvent` is about the log, but what keeps it
  true is elsewhere. `InLine` says that raw events are later than what the pipeline
  has judged; `Copied` that the worker's copies are in order and lie between what
  it has recorded and what the pipeline has judged; `Divided` that an event whose
  copy is no incident yet was not recorded by the pipeline and will not be
  (`Missed`), and that the worker records no other. With `Ordered` for the lines of
  one recorder this is inductive (`OneIncidentInv`).

`ApprovalProofs` needs `Untouched` (a proposal that does not exist has left no
trace) and `Decided` (at most one decision, none for a pending proposal, and no
rejected one in effect) for `OneDecision` and `DecisionsHold`, and `Aged` (what a
sweep has found expired stays expired) for the refinement of `ProposalLifecycle`.

`HotReloadProofs`: `NoChangeIsLost` is not inductive, because a task may run with
the last version by accident while an older one is about to be published;
`ConfigOnTheWay` says where the last version is instead, and `NoticedPast` that
nothing newer than the files has been notified. The refinement of `VersionFeed`
rests on `Ordered`: versions only grow on their way from the file over the watch
task to the tasks, and the watch channel only ever has valid ones.

`AiAdvisorProofs`: the inductive invariant says that the window is the latest part
of what was analyzed (`Latest`), in the order of time (`InTime`), that what was
dropped since the last reload was too old (`Dropped`), that the counts are those of
the window (`Counting`), and that each request has a cooldown that is no older
(`Tried`). What the loop pops is a set of positions that contains with each one
all before it; `DownwardClosed` shows that such a set is `1..n`, which is where an
induction over the window would have been. From it `CountsAreRight`,
`RequestsAreDue` and, through `CountsRecent`, which compares the positions in the
window with those in the history, `RepetitionsAreAskedAbout`.

`StagesAsAsked` is about a recursion over the lines of a response. `InBlockIs`
gives it a closed form: a block is open after a line if an opening fence comes
before with no closing one since (`Fenced`). Fenced obeys the recursion
(`FencedScans`), so that there is a function that does; and two such functions
cannot differ, since they would differ at a least line (`Least`), one after a line
where they agree. `TakenAre` bounds the cardinality of what is taken by an
injection into as many ranks. `Staging` is the invariant of the call in
progress: what is staged and what is left to stage are together no more than
that.

`SlowPathProofs`: `Windows` says that the window of a process is a suffix of
what was pushed for it, and `ContextIsPast` follows for the step that mixes. For
`RepeatsAreNormal`, `Baselines` says that a baseline nobody has touched is the point
of its binary. `SettledCollectionFits` is not inductive: what keeps it true, while
daemons check, delete and create in any order, is `Ensured`. There is always a
daemon that vouches for the collection (`Vouches`): it fits, or has still to look
at the collection or to delete it, or is about to create one that is not there, or
is one that the property does not speak of. Whoever breaks the vow of another one
takes it over.

`AdaptersProofs`: records of buffer, hand and `sent` are different (`Apart`), none is
greater than the counter (`Made`), and what is not sent yet is of the current
connection (`ByConnection`). For logs, `LinesInOrder` says how a line in two parts
lies in its file, and `InLogOrder` that no line the reader has still to read is
older than what it has sent, over a rotation too. `NothingIsLost` is inductive
together with these: a step that drops a line drops none of those that were passed
before, and the rest of a line in two parts is not one written at once.

`TuiProofs` first shows what `Ascending` and `Filtered` return (`AscendingIs`: ranks
are a bijection; `FilteredAppend`: a new row comes after all others). A popup
holds an index into a filtered list: `PopupKeepsRow` needs that the index was on a
row (`PopupInList`), which needs the cursor to be on one while the list has not
dropped any (`Cursors`). `DecisionFollowsDisplay` and `PendingCursor` are about the
step that reads the directory, `UnsavedIsMarked` about the editor. `TreeIsComplete`
is an argument over the calls of dfs: each call keeps that rows are distinct and
below their parents, and that whoever is a root or has a parent in the tree is in
the tree or will be called (`WalkOK`); and as long as there are calls, each makes
fewer possible (`Ahead`), so that none is left after `MostCalls`. Then a process
that the tree does not show has a parent that it does not show, and so on in a
circle. That such a walk exists is `WalkExists`, by the least length of which there
is none; induction theorems, which take an operator, are not used.

Left to TLC: the liveness properties `ChangesReachFastPath`, `ChangesReachKernel`,
`RecordReturns`, `QueueDrains`, `EventsArrive`, `ReloadsAreTaken`, `ApprovedExpire`,
`ConfigTakesEffect`, `RulesTakeEffect`, `ReportedArrives` and `KeysAreHandled`, since
fairness and ENABLED are out of the prover's reach. Every invariant, action property
and refinement that a passing run checks is a theorem. `LoadDir`'s enumeration of
file orders is used in proofs only through the type of its results.

## 6. Plan

Done: `Policy`, `EventPath`; `Enforcement`; `IncidentLog`, `EventPipeline`,
`Delivery`; `Approval`, `ProposalLifecycle`; `HotReload`, `VersionFeed`;
`AiAdvisor`; `SlowPath`; `Adapters`; `Tui`, `ProcessTree`; the proofs of section 5.

Left, in this order:

1. `Tui` and `Approval` in one state space, so that `DecisionFollowsDisplay` and
   `OneDecision` meet in one statement about what a reviewer saw.
2. The guard of `AiAdvisor` in `EventPipeline`, whose `Advise` may now ask at any
   incident.

## 7. Not modelled

- Embedders: the HTTP requests of the three providers, the floating-point feature
  hashing of the local one, and the weights of the context. `SlowPath` has what
  their failure does and which texts a vector depends on.
- `config.rs` beyond loading: types and defaults, which appear as constants and as
  the configurations of `HotReload`, `AiAdvisor`, `SlowPath` and `Adapters`.
- `tui/render.rs`: layout, colours and texts. `Tui` has which row is highlighted
  and which one a popup shows. Statistics and toasts are numbers
  and texts that no decision reads.
- System calls whose program returns before it looks at the maps or the ring: a
  connect to an address that is null, unreadable or not of the internet.
- Severities, rule names, and payload fields that no decision reads; the wording
  of the prompt; what an adapter fills in besides the type of the event.
- A log that is truncated in place while it is read (copytruncate).
- Events of the daemon's own process, which the collector drops.
- Command line parsing, installation and deployment files, the Kubernetes
  manifests.
- The kernel's own machinery (verifier, attach semantics, signal delivery),
  inotify, tokio and Qdrant, which are assumed to work as documented.
