---------------------------- MODULE EventPipeline ----------------------------
(***************************************************************************)
(* The daemon's tasks and the channels between them (main.rs): an event    *)
(* source (collector.rs or adapter/mod.rs) feeds the pipeline task, which  *)
(* filters, judges and records each event, may ask a language model for    *)
(* rules, offers a copy to the slow path worker and hands the event to the *)
(* display (tui/mod.rs).  Pipeline and worker share the incident log.      *)
(*                                                                         *)
(* What the Fast Path decides is any verdict here (EventPath has the       *)
(* rules); what the language model proposes and what Qdrant answers are    *)
(* reduced to whether they answer, and whether an event looks anomalous.   *)
(***************************************************************************)
EXTENDS IncidentLog

CONSTANTS
  MaxEvents,               \* bound: events that the source reads
  RawCap, SlowCap, TuiCap  \* capacities of the channels

\* An event on the way to its verdict and after it, and one the worker is at.
Event  == [id : 1..MaxEvents, scoped : BOOLEAN]
Judged == [id : 1..MaxEvents, scoped : {TRUE}, action : Action]
Work   == [ev : Judged, action : Action]

ASSUME EventPipelineAssumption ==
  /\ Recorder = {"pipeline", "slow"} /\ None \notin Event \cup Judged \cup Work
  /\ MaxEvents \in Nat
  /\ {RawCap, SlowCap, TuiCap} \subseteq Nat \ {0}

VARIABLES
  src, inhand,  \* the source task, and the event it is sending
  arrived,      \* the number of events it has read
  raw, parked,  \* the channel to the pipeline; its receiver was dropped
  ppc, cur,     \* the pipeline task, and the event it is working on
  reload,       \* reload[t]: reload_rx.changed() is ready for task t
  slowq,        \* the channel to the slow path worker
  spc, scur,    \* the worker; its event and the new action
  tuiq,         \* the channel to the display
  tui, shown    \* the display, and the last event it took

srcVars  == <<src, inhand, arrived>>
pipeVars == <<ppc, cur, raw, parked>>
slowVars == <<slowq, spc, scur>>
tuiVars  == <<tuiq, tui, shown>>
vars == <<logVars, srcVars, pipeVars, reload, slowVars, tuiVars>>

-----------------------------------------------------------------------------
\* Source and hot reload run from the start; pipeline, worker and display wait
\* for the main task.
Init ==
  /\ InitLog
  /\ src = "reading" /\ inhand = None /\ arrived = 0
  /\ raw = <<>> /\ parked = FALSE
  /\ ppc = "boot" /\ cur = None
  /\ reload = [t \in Recorder |-> FALSE]
  /\ slowq = <<>> /\ spc = "boot" /\ scur = None
  /\ tuiq = <<>> /\ tui = "running" /\ shown = 0

\* The main task: SlowPath::new has returned, at once or after Qdrant answered a
\* client without a timeout, and the tasks are spawned.  It may never come.
Start ==
  /\ ppc = "boot" /\ spc = "boot"
  /\ ppc' = "select" /\ spc' = "select"
  /\ UNCHANGED <<logVars, srcVars, cur, raw, parked, reload, slowq, scur, tuiVars>>

(***************************************************************************)
(* The source: run_collector, or adapter::run.                             *)
(***************************************************************************)
ReadEvent ==
  /\ src = "reading" /\ arrived < MaxEvents
  /\ src' = "sending" /\ arrived' = arrived + 1
  /\ \E scoped \in BOOLEAN : inhand' = [id |-> arrived + 1, scoped |-> scoped]
  /\ UNCHANGED <<logVars, pipeVars, reload, slowVars, tuiVars>>

\* tx.send waits for room
SendRaw ==
  /\ src = "sending" /\ ppc # "stopped" /\ Len(raw) < RawCap
  /\ src' = "reading" /\ inhand' = None
  /\ raw' = Append(raw, inhand)
  /\ UNCHANGED <<logVars, arrived, ppc, cur, parked, reload, slowVars, tuiVars>>

ReceiverClosed ==
  /\ src = "sending" /\ ppc = "stopped"
  /\ src' = "done" /\ inhand' = None
  /\ UNCHANGED <<logVars, arrived, pipeVars, reload, slowVars, tuiVars>>

\* The eBPF programs did not load, or the ring buffer failed.
SourceFails ==
  /\ src = "reading"
  /\ src' = "done"
  /\ UNCHANGED <<logVars, inhand, arrived, pipeVars, reload, slowVars, tuiVars>>

(***************************************************************************)
(* The pipeline: run_pipeline.                                             *)
(***************************************************************************)
Goto(where) == ppc' = where /\ UNCHANGED <<srcVars, reload>>

OutOfScope ==
  /\ ppc = "select" /\ raw # <<>> /\ ~Head(raw).scoped
  /\ raw' = Tail(raw)
  /\ Goto("select")
  /\ UNCHANGED <<logVars, cur, parked, slowVars, tuiVars>>

\* FastPath::evaluate, and record is called.
Evaluate ==
  /\ ppc = "select" /\ raw # <<>> /\ Head(raw).scoped
  /\ raw' = Tail(raw)
  /\ \E a \in Verdicts :
       /\ cur' = [id |-> Head(raw).id, scoped |-> TRUE, action |-> a]
       /\ Call("pipeline", [id |-> Head(raw).id, by |-> "pipeline", action |-> a])
  /\ Goto("record")
  /\ UNCHANGED <<parked, slowVars, tuiVars>>

\* recv returned None: this arm of the select is never ready again
ParkSource ==
  /\ ppc = "select" /\ raw = <<>> /\ src = "done" /\ ~parked
  /\ parked' = TRUE
  /\ Goto("select")
  /\ UNCHANGED <<logVars, cur, raw, slowVars, tuiVars>>

PipelineRecords ==
  /\ ppc = "record" /\ RecordStep("pipeline")
  /\ UNCHANGED <<srcVars, pipeVars, reload, slowVars, tuiVars>>

PipelineRecorded ==
  /\ ppc = "record" /\ Return("pipeline")
  /\ Goto("advise")
  /\ UNCHANGED <<cur, raw, parked, slowVars, tuiVars>>

\* AiAdvisor::analyze asks a provider, about incidents only; or it does not:
\* it is disabled, the pattern is not frequent enough, or was asked about.
Advise ==
  /\ ppc = "advise"
  /\ \/ Goto("fork")
     \/ Incident(cur) /\ Goto("llm")
  /\ UNCHANGED <<logVars, cur, raw, parked, slowVars, tuiVars>>

\* The HTTP client has no timeout: this step may never come.
ProviderAnswers ==
  /\ ppc = "llm"
  /\ Goto("fork")
  /\ UNCHANGED <<logVars, cur, raw, parked, slowVars, tuiVars>>

\* Slip: send waits where try_send does not.
ForkWaits ==
  /\ ppc = "fork" /\ Len(slowq) < SlowCap
  /\ slowq' = Append(slowq, cur)
  /\ Goto("send")
  /\ UNCHANGED <<logVars, cur, raw, parked, spc, scur, tuiVars>>

\* slow_tx.try_send: the copy is dropped if there is no room.
Fork ==
  /\ ppc = "fork"
  /\ slowq' = IF Len(slowq) < SlowCap THEN Append(slowq, cur) ELSE slowq
  /\ Goto("send")
  /\ UNCHANGED <<logVars, cur, raw, parked, spc, scur, tuiVars>>

\* Slip: try_send where send waits.
SendIfRoom ==
  /\ ppc = "send" /\ tui = "running"
  /\ tuiq' = IF Len(tuiq) < TuiCap THEN Append(tuiq, [id |-> cur.id, scoped |-> TRUE])
             ELSE tuiq
  /\ cur' = None
  /\ Goto("select")
  /\ UNCHANGED <<logVars, raw, parked, slowVars, tui, shown>>

\* proc_tx.send waits for room
Send ==
  /\ ppc = "send" /\ tui = "running" /\ Len(tuiq) < TuiCap
  /\ tuiq' = Append(tuiq, [id |-> cur.id, scoped |-> TRUE])
  /\ cur' = None
  /\ Goto("select")
  /\ UNCHANGED <<logVars, raw, parked, slowVars, tui, shown>>

\* The display is gone: the loop ends, and the receivers are dropped.
Stop ==
  /\ ppc = "send" /\ tui = "quit"
  /\ raw' = <<>> /\ cur' = None
  /\ Goto("stopped")
  /\ UNCHANGED <<logVars, parked, slowVars, tuiVars>>

\* Slip: the loop does nothing more once the source has closed.
ReloadWhileSourced ==
  /\ ppc = "select" /\ reload["pipeline"] /\ ~parked
  /\ reload' = [reload EXCEPT !["pipeline"] = FALSE]
  /\ UNCHANGED <<logVars, srcVars, pipeVars, slowVars, tuiVars>>

\* The reload arm: new scope filter, Fast Path, advisor settings, kernel keys.
Reload ==
  /\ ppc = "select" /\ reload["pipeline"]
  /\ reload' = [reload EXCEPT !["pipeline"] = FALSE]
  /\ UNCHANGED <<logVars, srcVars, pipeVars, slowVars, tuiVars>>

(***************************************************************************)
(* The slow path worker: run_slow_worker and SlowPath::analyze.            *)
(***************************************************************************)
\* Only what was allowed is escalated.
Escalates(a, anomaly) == IF anomaly /\ a = "Allowed" THEN "Alerted" ELSE a

SlowRecv ==
  /\ spc = "select" /\ slowq # <<>>
  /\ spc' = "analyze"
  /\ scur' = [ev |-> Head(slowq), action |-> Head(slowq).action]
  /\ slowq' = Tail(slowq)
  /\ UNCHANGED <<logVars, srcVars, pipeVars, reload, tuiVars>>

\* analyze returns, at once or after the embedder and Qdrant have answered; an
\* error of theirs is no anomaly.
Analyzed ==
  /\ spc = "analyze"
  /\ spc' = "compare"
  /\ \E anomaly \in BOOLEAN : scur' = [scur EXCEPT !.action = Escalates(@, anomaly)]
  /\ UNCHANGED <<logVars, srcVars, pipeVars, reload, slowq, tuiVars>>

\* Slip: the result is recorded whether it is new or not.
RecordsAnyResult ==
  /\ spc = "compare"
  /\ Call("slow", [id |-> scur.ev.id, by |-> "slow", action |-> scur.action])
  /\ spc' = "record"
  /\ UNCHANGED <<srcVars, pipeVars, reload, slowq, scur, tuiVars>>

\* ev.action != prior
ChangedByAnalysis ==
  /\ spc = "compare" /\ scur.action # scur.ev.action
  /\ Call("slow", [id |-> scur.ev.id, by |-> "slow", action |-> scur.action])
  /\ spc' = "record"
  /\ UNCHANGED <<srcVars, pipeVars, reload, slowq, scur, tuiVars>>

UnchangedByAnalysis ==
  /\ spc = "compare" /\ scur.action = scur.ev.action
  /\ spc' = "select" /\ scur' = None
  /\ UNCHANGED <<logVars, srcVars, pipeVars, reload, slowq, tuiVars>>

SlowRecords ==
  /\ spc = "record" /\ RecordStep("slow")
  /\ UNCHANGED <<srcVars, pipeVars, reload, slowVars, tuiVars>>

SlowRecorded ==
  /\ spc = "record" /\ Return("slow")
  /\ spc' = "select" /\ scur' = None
  /\ UNCHANGED <<srcVars, pipeVars, reload, slowq, tuiVars>>

\* SlowPath::new asks Qdrant for its collection.
SlowReload ==
  /\ spc = "select" /\ reload["slow"]
  /\ reload' = [reload EXCEPT !["slow"] = FALSE]
  /\ spc' = "rebuild"
  /\ UNCHANGED <<logVars, srcVars, pipeVars, slowq, scur, tuiVars>>

SlowRebuilt ==
  /\ spc = "rebuild"
  /\ spc' = "select"
  /\ UNCHANGED <<logVars, srcVars, pipeVars, reload, slowq, scur, tuiVars>>

SlowEnds ==
  /\ spc = "select" /\ slowq = <<>> /\ ppc = "stopped"
  /\ spc' = "stopped"
  /\ UNCHANGED <<logVars, srcVars, pipeVars, reload, slowq, scur, tuiVars>>

(***************************************************************************)
(* The display, the hot reload task and the incident writer.               *)
(***************************************************************************)
Show ==
  /\ tui = "running" /\ tuiq # <<>>
  /\ shown' = Head(tuiq).id /\ tuiq' = Tail(tuiq)
  /\ UNCHANGED <<logVars, srcVars, pipeVars, reload, slowVars, tui>>

\* The display is started last.
Quit ==
  /\ tui = "running" /\ ppc # "boot"
  /\ tui' = "quit" /\ tuiq' = <<>>
  /\ UNCHANGED <<logVars, srcVars, pipeVars, reload, slowVars, shown>>

Notify ==
  /\ reload' = [t \in Recorder |-> TRUE]
  /\ UNCHANGED <<logVars, srcVars, pipeVars, slowVars, tuiVars>>

Write == WriterStep /\ UNCHANGED <<srcVars, pipeVars, reload, slowVars, tuiVars>>

-----------------------------------------------------------------------------
Recv == OutOfScope \/ Evaluate

PipelineRuns ==
  \/ PipelineRecords \/ PipelineRecorded \/ Advise \/ Fork \/ Send \/ Stop

Next ==
  \/ Start
  \/ ReadEvent \/ SendRaw \/ ReceiverClosed \/ SourceFails
  \/ Recv \/ ParkSource \/ PipelineRuns \/ ProviderAnswers \/ Reload
  \/ SlowRecv \/ Analyzed \/ ChangedByAnalysis \/ UnchangedByAnalysis \/ SlowRecords \/ SlowRecorded
  \/ SlowReload \/ SlowRebuilt \/ SlowEnds
  \/ Show \/ Quit \/ Notify \/ Write

PipelineSpec == Init /\ [][Next]_vars

\* Tasks that can run do run, and select! chooses among its ready arms at
\* random, so that one that is ready again and again is taken.  Nothing is
\* assumed of the start, of the slow path, of Qdrant, of the incident writer or
\* of its disk.
Scheduling ==
  /\ WF_vars(SendRaw \/ ReceiverClosed) /\ WF_vars(PipelineRuns) /\ WF_vars(Show)
  /\ SF_vars(Recv) /\ SF_vars(Reload)

ScheduledSpec == PipelineSpec /\ Scheduling

\* The provider of the language model answers every request, too.
AnsweredSpec == ScheduledSpec /\ WF_vars(ProviderAnswers)

-----------------------------------------------------------------------------
TasksTypeOK ==
  /\ src \in {"reading", "sending", "done"}
  /\ inhand \in Event \cup {None} /\ (inhand # None <=> src = "sending")
  /\ arrived \in 0..MaxEvents /\ shown \in 0..MaxEvents
  /\ raw \in Seq(Event) /\ Len(raw) <= RawCap /\ parked \in BOOLEAN
  /\ ppc \in {"boot", "select", "record", "advise", "llm", "fork", "send", "stopped"}
  /\ cur \in Judged \cup {None} /\ (cur = None <=> ppc \in {"boot", "select", "stopped"})
  /\ reload \in [Recorder -> BOOLEAN]
  /\ slowq \in Seq(Judged) /\ Len(slowq) <= SlowCap
  /\ spc \in {"boot", "select", "analyze", "compare", "record", "rebuild", "stopped"}
  /\ scur \in Work \cup {None}
  /\ scur = None <=> spc \in {"boot", "select", "rebuild", "stopped"}
  /\ tuiq \in Seq([id : 1..MaxEvents, scoped : {TRUE}]) /\ Len(tuiq) <= TuiCap
  /\ tui \in {"running", "quit"}

PipelineTypeOK == TypeOK /\ TasksTypeOK

\* An event makes at most one incident, although two tasks record incidents:
\* the worker only records what the pipeline did not.
OneIncidentPerEvent ==
  \A i, j \in DOMAIN Trail :
    i # j /\ {Trail[i].by, Trail[j].by} \subseteq Recorder => Trail[i].id # Trail[j].id

(***************************************************************************)
(* The pipeline delivers: the events on the way are the ones in the        *)
(* channels and in the hands of the tasks.                                 *)
(***************************************************************************)
InHand(ev) == IF ev = None THEN <<>> ELSE <<[id |-> ev.id, scoped |-> ev.scoped]>>

D == INSTANCE Delivery WITH
       pending <- IF tui = "quit" THEN <<>>
                  ELSE tuiq \o InHand(cur) \o raw \o InHand(inhand),
       closed <- tui = "quit"

Delivers == D!Spec

\* Once SlowPath::new has returned, an event that has come in, before or after,
\* reaches the display or is out of scope, whatever the slow path worker, Qdrant
\* and the incident writer do from then on.
OnTheWay(n) == \E ev \in ({inhand, cur} \ {None}) \cup Range(raw) \cup Range(tuiq) : ev.id = n
EventsArrive == \A n \in 1..MaxEvents : (ppc # "boot" /\ OnTheWay(n)) ~> ~OnTheWay(n)

\* From then on a reload is taken up between two events, however many follow;
\* one that was notified earlier, too.
ReloadsAreTaken ==
  (ppc # "boot" /\ reload["pipeline"]) ~> (~reload["pipeline"] \/ ppc = "stopped")

=============================================================================
