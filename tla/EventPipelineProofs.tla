------------------------- MODULE EventPipelineProofs -------------------------
(***************************************************************************)
(* Proofs about the way of an event from its source to the incident log.   *)
(* First IncidentLog, for any number of recorders, calls and any capacity  *)
(* of the channel; its lemmas are about single steps of record and of the  *)
(* writer, for the second part.  Then EventPipeline, for any number of     *)
(* events and channels of any capacity: its types, that the tasks together *)
(* implement Delivery, and that an event makes at most one incident.       *)
(***************************************************************************)
EXTENDS EventPipeline, SequenceTheorems, TLAPS

-----------------------------------------------------------------------------
(***************************************************************************)
(* Types                                                                   *)
(***************************************************************************)
LEMMA InitLogType == InitLog => TypeOK
<1> SUFFICES ASSUME InitLog PROVE TypeOK
  OBVIOUS
<1>1. \A r \in Recorder : [id |-> 0, by |-> r, action |-> "Allowed"] \in Line
  BY DEF Line, Action
<1> QED
  BY <1>1, IncidentLogAssumption DEF InitLog, TypeOK

LEMMA CallType ==
  ASSUME TypeOK, NEW r \in Recorder, NEW ev \in Line, Call(r, ev)
  PROVE  TypeOK'
<1>1. rec' \in [Recorder -> [pc : {"idle", "try_lock", "try_send", "done"},
                             ev : Line, result : BOOLEAN]]
  BY DEF Call, TypeOK
<1> QED
  BY <1>1 DEF Call, TypeOK

LEMMA RecordType == ASSUME TypeOK, NEW r \in Recorder, RecordStep(r) PROVE TypeOK'
<1> DEFINE Calls == [pc : {"idle", "try_lock", "try_send", "done"}, ev : Line, result : BOOLEAN]
<1>1. rec \in [Recorder -> Calls] /\ rec[r] \in Calls /\ rec[r].ev \in Line /\ None \notin Recorder
  BY IncidentLogAssumption DEF TypeOK
<1>2. CASE TryLock(r)
  BY <1>1, <1>2 DEF TryLock, TypeOK
<1>3. CASE LockBusy(r)
  <2>1. [[rec[r] EXCEPT !.pc = "done"] EXCEPT !.result = TRUE] \in Calls
    BY <1>1
  <2>2. rec' = [rec EXCEPT ![r] = [[rec[r] EXCEPT !.pc = "done"] EXCEPT !.result = TRUE]]
    BY <1>1, <1>3 DEF LockBusy
  <2> QED
    BY <1>1, <1>3, <2>1, <2>2 DEF LockBusy, TypeOK
<1>4. CASE TrySend(r)
  <2>1. [[rec[r] EXCEPT !.pc = "done"] EXCEPT !.result = TRUE] \in Calls
    BY <1>1
  <2>2. rec' = [rec EXCEPT ![r] = [[rec[r] EXCEPT !.pc = "done"] EXCEPT !.result = TRUE]]
    BY <1>1, <1>4 DEF TrySend
  <2>3. queue' \in Seq(Line) /\ Len(queue') <= QueueCap
    BY <1>1, <1>4, IncidentLogAssumption DEF TrySend, TypeOK
  <2>4. rec' \in [Recorder -> Calls] /\ \A q \in Recorder : guard' = q <=> rec'[q].pc = "try_send"
    BY <1>1, <1>4, <2>1, <2>2 DEF TrySend, TypeOK
  <2> QED
    BY <1>4, <2>3, <2>4 DEF TrySend, TypeOK
<1>5. CASE SendRefused(r)
  BY <1>1, <1>5 DEF SendRefused, TypeOK
<1> QED
  BY <1>2, <1>3, <1>4, <1>5 DEF RecordStep

LEMMA ReturnType == ASSUME TypeOK, NEW r \in Recorder, Return(r) PROVE TypeOK'
BY DEF Return, TypeOK

LEMMA WriterType == ASSUME TypeOK, WriterStep PROVE TypeOK'
<1>1. CASE Open
  BY <1>1, IncidentLogAssumption DEF Open, TypeOK
<1>2. CASE TakeLine
  <2>1. Head(queue) \in Line /\ Tail(queue) \in Seq(Line) /\ Len(Tail(queue)) <= QueueCap
    BY <1>2, IncidentLogAssumption DEF TakeLine, TypeOK
  <2>2. None \notin Line
    BY IncidentLogAssumption DEF Line
  <2> QED
    BY <1>2, <2>1, <2>2 DEF TakeLine, TypeOK
<1>3. CASE WriteLine
  BY <1>3 DEF WriteLine, TypeOK
<1>4. CASE WriteFails
  BY <1>4 DEF WriteFails, TypeOK
<1>5. CASE WriteNewline
  BY <1>5 DEF WriteNewline, TypeOK
<1> QED
  BY <1>1, <1>2, <1>3, <1>4, <1>5 DEF WriterStep

\* A call of record on its own.
LEMMA NextCallIs ==
  ASSUME TypeOK, NEW r \in Recorder, NextCall(r)
  PROVE  \E ev \in Line : Call(r, ev) /\ ev.by = r /\ ev.id = rec[r].ev.id + 1
<1>1. PICK a \in Verdicts : Call(r, [id |-> rec[r].ev.id + 1, by |-> r, action |-> a])
  BY DEF NextCall
<1>2. [id |-> rec[r].ev.id + 1, by |-> r, action |-> a] \in Line
  BY IncidentLogAssumption DEF TypeOK, Line
<1> QED
  BY <1>1, <1>2

LEMMA StepTypeOK == TypeOK /\ [NextLog]_logVars => TypeOK'
<1> SUFFICES ASSUME TypeOK, [NextLog]_logVars PROVE TypeOK'
  OBVIOUS
<1>1. CASE UNCHANGED logVars
  BY <1>1 DEF TypeOK, logVars
<1> QED
  BY <1>1, NextCallIs, CallType, RecordType, ReturnType, WriterType DEF NextLog

\* The mutex is held by whoever is about to send and by nobody else, the channel
\* never has more than its capacity, and the writer holds a line only while it
\* writes it.
THEOREM TypeCorrect == Spec => []TypeOK
BY InitLogType, StepTypeOK, PTL DEF Spec

-----------------------------------------------------------------------------
(***************************************************************************)
(* Order.  The lines of a task are in order in the file, in the channel    *)
(* and from one to the other, and come before the one being recorded.      *)
(***************************************************************************)
Before(a, b) == a.by = b.by /\ a.by \in Recorder => a.id < b.id

InOrder(s) == \A i, j \in DOMAIN s : i < j => Before(s[i], s[j])

AllBefore(s, t) == \A i \in DOMAIN s, j \in DOMAIN t : Before(s[i], t[j])

\* The call in progress is about a later event than the line e.
Precedes(e) ==
  \A r \in Recorder : e.by = r =>
    /\ e.id <= rec[r].ev.id
    /\ rec[r].pc \in {"try_lock", "try_send"} => e.id < rec[r].ev.id

Ordered ==
  /\ InOrder(file) /\ InOrder(queue) /\ AllBefore(file, queue)
  /\ held # None => /\ \A i \in DOMAIN file : Before(file[i], held)
                    /\ \A i \in DOMAIN queue : Before(held, queue[i])
                    /\ Precedes(held)
  /\ \A i \in DOMAIN file : Precedes(file[i])
  /\ \A i \in DOMAIN queue : Precedes(queue[i])
  /\ \A r \in Recorder : rec[r].ev.by = r

LEMMA InitOrdered == InitLog => Ordered
BY DEF InitLog, Ordered, InOrder, AllBefore

LEMMA CallOrdered ==
  ASSUME TypeOK, Ordered, NEW r \in Recorder, NEW ev \in Line, Call(r, ev),
         ev.by = r, ev.id > rec[r].ev.id
  PROVE  Ordered'
<1>1. /\ UNCHANGED <<file, queue, held>>
      /\ rec'[r].ev = ev /\ \A q \in Recorder : q # r => rec'[q] = rec[q]
  BY DEF Call, TypeOK
<1>2. rec[r].ev.id \in Nat /\ ev.id \in Nat
  BY DEF TypeOK, Line
<1>3. ASSUME NEW e \in Line \cup {Newline, Torn}, Precedes(e) PROVE Precedes(e)'
  BY <1>1, <1>2, <1>3 DEF Precedes, Line, Newline, Torn
<1> QED
  BY <1>1, <1>3 DEF Ordered, InOrder, AllBefore, Before, TypeOK

LEMMA RecordOrdered ==
  ASSUME TypeOK, Ordered, NEW r \in Recorder, RecordStep(r)
  PROVE  Ordered'
<1>1. /\ UNCHANGED <<file, held>>
      /\ \A q \in Recorder : rec'[q].ev = rec[q].ev
      /\ \A q \in Recorder : rec'[q].pc \in {"try_lock", "try_send"}
                               => rec[q].pc \in {"try_lock", "try_send"}
  <2>1. CASE TryLock(r)
    BY <2>1 DEF TryLock, TypeOK
  <2>2. CASE LockBusy(r)
    BY <2>2 DEF LockBusy, TypeOK
  <2>3. CASE TrySend(r)
    BY <2>3 DEF TrySend, TypeOK
  <2>4. CASE SendRefused(r)
    BY <2>4 DEF SendRefused, TypeOK
  <2> QED
    BY <2>1, <2>2, <2>3, <2>4 DEF RecordStep
<1>2. ASSUME NEW e, Precedes(e) PROVE Precedes(e)'
  BY <1>1, <1>2 DEF Precedes
<1>3. CASE UNCHANGED queue
  BY <1>1, <1>2, <1>3 DEF Ordered, InOrder, AllBefore, Before
<1>4. CASE TrySend(r)
  <2> PICK ev \in Line : ev = rec[r].ev
    BY DEF TypeOK
  <2>1. /\ queue' = Append(queue, ev) /\ rec'[r].pc = "done" /\ rec[r].pc = "try_send"
        /\ ev.by = r
    BY <1>4 DEF TrySend, TypeOK, Ordered
  <2>2. \A i \in DOMAIN queue' : \/ i \in DOMAIN queue /\ queue'[i] = queue[i]
                                 \/ i = Len(queue) + 1 /\ queue'[i] = ev
    BY <2>1 DEF TypeOK
  <2>3. ASSUME NEW e, Precedes(e) PROVE Before(e, ev)
    BY <2>1, <2>3 DEF Precedes, Before
  <2>4. Precedes(ev)'
    BY <1>1, <2>1 DEF Precedes, TypeOK, Line
  <2>5. \A i \in DOMAIN queue' : Precedes(queue[i])'
    <3> SUFFICES ASSUME NEW i \in DOMAIN queue' PROVE Precedes(queue[i])'
      OBVIOUS
    <3>1. CASE i \in DOMAIN queue /\ queue'[i] = queue[i]
      <4>1. PICK e : e = queue[i]
        OBVIOUS
      <4>2. Precedes(e)'
        BY <1>2, <3>1, <4>1 DEF Ordered
      <4> QED
        BY <3>1, <4>1, <4>2 DEF Precedes
    <3>2. CASE queue'[i] = ev
      BY <2>4, <3>2 DEF Precedes
    <3> QED
      BY <2>2, <3>1, <3>2
  <2>6. InOrder(queue')
    BY <2>2, <2>3 DEF Ordered, InOrder, TypeOK
  <2>7. AllBefore(file, queue') /\ (held # None => \A i \in DOMAIN queue' : Before(held, queue'[i]))
    BY <2>2, <2>3 DEF Ordered, AllBefore
  <2> QED
    BY <1>1, <1>2, <2>5, <2>6, <2>7 DEF Ordered, InOrder, AllBefore, Before
<1> QED
  BY <1>3, <1>4 DEF RecordStep, TryLock, LockBusy, SendRefused

LEMMA ReturnOrdered ==
  ASSUME TypeOK, Ordered, NEW r \in Recorder, Return(r)
  PROVE  Ordered'
<1>1. /\ UNCHANGED <<file, held, queue>>
      /\ \A q \in Recorder : rec'[q].ev = rec[q].ev
      /\ \A q \in Recorder : rec'[q].pc \in {"try_lock", "try_send"}
                               => rec[q].pc \in {"try_lock", "try_send"}
  BY DEF Return, TypeOK
<1>2. ASSUME NEW e, Precedes(e) PROVE Precedes(e)'
  BY <1>1, <1>2 DEF Precedes
<1> QED
  BY <1>1, <1>2 DEF Ordered, InOrder, AllBefore, Before

LEMMA WriterOrdered == ASSUME TypeOK, Ordered, WriterStep PROVE Ordered'
<1>1. rec' = rec
  BY DEF WriterStep, Open, TakeLine, WriteLine, WriteFails, WriteNewline
<1>2. \A e : Precedes(e)' <=> Precedes(e)
  BY <1>1 DEF Precedes
<1>3. CASE Open
  BY <1>1, <1>2, <1>3 DEF Open, Ordered, InOrder, AllBefore, Before
<1>4. CASE TakeLine
  <2>1. /\ held = None /\ held' = queue[1] /\ UNCHANGED file
        /\ \A i \in DOMAIN queue' : i + 1 \in DOMAIN queue /\ queue'[i] = queue[i + 1] /\ 1 < i + 1
        /\ 1 \in DOMAIN queue
        /\ DOMAIN queue \subseteq Nat /\ DOMAIN queue' \subseteq Nat
    BY <1>4 DEF TakeLine, TypeOK
  <2> QED
    BY <1>1, <1>2, <2>1 DEF Ordered, InOrder, AllBefore, Before
<1>5. ASSUME NEW e, \A i \in DOMAIN file : Before(file[i], e),
             \A i \in DOMAIN queue : Before(e, queue[i]), Precedes(e),
             file' = Append(file, e), held' = None, queue' = queue
      PROVE  Ordered'
  <2>1. \A i \in DOMAIN file' : \/ i \in DOMAIN file /\ file'[i] = file[i]
                                \/ i = Len(file) + 1 /\ file'[i] = e
    BY <1>5 DEF TypeOK
  <2>2. DOMAIN file = 1..Len(file) /\ Len(file) \in Nat
    BY DEF TypeOK
  <2>3. InOrder(file')
    BY <1>5, <2>1, <2>2 DEF Ordered, InOrder
  <2> QED
    BY <1>1, <1>2, <1>5, <2>1, <2>3 DEF Ordered, InOrder, AllBefore, Before
<1>6. CASE WriteLine
  <2>1. held # None
    BY <1>6 DEF WriteLine, TypeOK
  <2> QED
    BY <1>5, <1>6, <2>1 DEF WriteLine, Ordered
<1>7. ASSUME NEW e \in {Newline, Torn}
      PROVE  /\ \A i \in DOMAIN file : Before(file[i], e)
             /\ \A i \in DOMAIN queue : Before(e, queue[i])
             /\ Precedes(e)
  BY IncidentLogAssumption DEF Before, Precedes, Newline, Torn
<1>8. CASE UNCHANGED <<file, queue>> /\ held' = None
  BY <1>1, <1>2, <1>8 DEF Ordered, InOrder, AllBefore, Before
<1>9. CASE WriteFails
  BY <1>5, <1>7, <1>8, <1>9 DEF WriteFails
<1>10. CASE WriteNewline
  <2>1. held = None
    BY <1>10 DEF WriteNewline, TypeOK
  <2> QED
    BY <1>5, <1>7, <1>8, <1>10, <2>1 DEF WriteNewline
<1> QED
  BY <1>3, <1>4, <1>6, <1>9, <1>10 DEF WriterStep

LEMMA StepOrdered == TypeOK /\ Ordered /\ [NextLog]_logVars => Ordered'
<1> SUFFICES ASSUME TypeOK, Ordered, [NextLog]_logVars PROVE Ordered'
  OBVIOUS
<1>1. ASSUME NEW r \in Recorder, NextCall(r) PROVE Ordered'
  <2>1. PICK ev \in Line : Call(r, ev) /\ ev.by = r /\ ev.id = rec[r].ev.id + 1
    BY <1>1, NextCallIs
  <2>2. rec[r].ev.id \in Nat
    BY DEF TypeOK, Line
  <2> QED
    BY <2>1, <2>2, CallOrdered
<1>2. CASE UNCHANGED logVars
  BY <1>2 DEF logVars, Ordered, InOrder, AllBefore, Before, Precedes
<1> QED
  BY <1>1, <1>2, RecordOrdered, ReturnOrdered, WriterOrdered DEF NextLog

\* Where an element of the trail is.
LEMMA TrailElement ==
  ASSUME TypeOK, NEW i \in DOMAIN Trail
  PROVE  \/ i \in DOMAIN file /\ Trail[i] = file[i]
         \/ held # None /\ i = Len(file) + 1 /\ Trail[i] = held
         \/ LET n == Len(file) + (IF held = None THEN 0 ELSE 1)
            IN  i - n \in DOMAIN queue /\ Trail[i] = queue[i - n]
<1> DEFINE All == Line \cup {Newline, Torn}
           middle == IF held = None THEN <<>> ELSE <<held>>
<1>1. file \in Seq(All) /\ middle \in Seq(All) /\ queue \in Seq(All)
  <2>1. CASE held = None
    BY <2>1 DEF TypeOK
  <2>2. CASE held # None
    <3>1. held \in All
      BY <2>2 DEF TypeOK
    <3> QED
      BY <2>2, <3>1 DEF TypeOK
  <2> QED
    BY <2>1, <2>2
<1>2. Trail = (file \o middle) \o queue
  BY DEF Trail
<1>3. /\ Len(middle) = IF held = None THEN 0 ELSE 1
      /\ held # None => middle[1] = held
  OBVIOUS
<1> HIDE DEF middle
<1>4. i \in 1..(Len(file) + Len(middle) + Len(queue))
  BY <1>1, <1>2
<1>5. CASE i <= Len(file)
  BY <1>1, <1>2, <1>4, <1>5
<1>6. CASE i > Len(file) /\ i <= Len(file) + Len(middle)
  <2>1. Trail[i] = middle[i - Len(file)]
    BY <1>1, <1>2, <1>4, <1>6
  <2>2. Len(file) \in Nat /\ i \in Nat
    BY <1>1, <1>4
  <2>3. held # None
    BY <1>3, <1>6, <2>2
  <2>4. i = Len(file) + 1
    BY <1>3, <1>6, <2>2, <2>3
  <2> QED
    BY <1>3, <2>1, <2>2, <2>3, <2>4
<1>7. CASE i > Len(file) + Len(middle)
  <2>1. Trail[i] = queue[i - (Len(file) + Len(middle))]
    BY <1>1, <1>2, <1>4, <1>7
  <2>2. i - (Len(file) + Len(middle)) \in 1..Len(queue)
    BY <1>1, <1>4, <1>7
  <2> QED
    BY <1>1, <1>3, <2>1, <2>2
<1> QED
  BY <1>1, <1>4, <1>5, <1>6, <1>7

LEMMA OrderedSuffices == TypeOK /\ Ordered => LogInOrder
<1> SUFFICES ASSUME TypeOK, Ordered, NEW i \in DOMAIN Trail, NEW j \in DOMAIN Trail, i < j,
                    Trail[i].by = Trail[j].by, Trail[i].by \in Recorder
             PROVE  Trail[i].id < Trail[j].id
  BY DEF LogInOrder
<1> SUFFICES Before(Trail[i], Trail[j])
  BY DEF Before
<1>1. Len(file) \in Nat /\ DOMAIN file = 1..Len(file) /\ Len(queue) \in Nat
        /\ DOMAIN queue = 1..Len(queue) /\ i \in Int /\ j \in Int
  BY TrailElement DEF TypeOK, Trail
<1> QED
  BY <1>1, TrailElement DEF Ordered, InOrder, AllBefore

\* However the recorders and the writer interleave, and whatever writes fail:
\* each task's incidents are in the log in the order it recorded them, none of
\* them twice (incident.rs:81-119).
THEOREM LogKeepsOrder == Spec => []LogInOrder
<1>1. InitLog => TypeOK /\ Ordered
  BY InitLogType, InitOrdered
<1>2. TypeOK /\ Ordered /\ [NextLog]_logVars => TypeOK' /\ Ordered'
  BY StepTypeOK, StepOrdered
<1> QED
  BY <1>1, <1>2, OrderedSuffices, PTL DEF Spec

-----------------------------------------------------------------------------
(***************************************************************************)
(* Types                                                                   *)
(***************************************************************************)
LEMMA InitTypes == Init => PipelineTypeOK
<1> SUFFICES ASSUME Init PROVE PipelineTypeOK
  OBVIOUS
<1>1. TypeOK
  BY InitLogType DEF Init
<1>2. 0 \in 0..MaxEvents /\ RawCap \in Nat /\ SlowCap \in Nat /\ TuiCap \in Nat
  BY EventPipelineAssumption
<1>3. reload \in [Recorder -> BOOLEAN]
  BY DEF Init
<1>4. raw = <<>> /\ slowq = <<>> /\ tuiq = <<>>
  BY DEF Init
<1>5. /\ raw \in Seq(Event) /\ Len(raw) <= RawCap
      /\ slowq \in Seq(Judged) /\ Len(slowq) <= SlowCap
      /\ tuiq \in Seq([id : 1..MaxEvents, scoped : {TRUE}]) /\ Len(tuiq) <= TuiCap
  BY <1>2, <1>4
<1>6. TasksTypeOK
  BY <1>2, <1>3, <1>5 DEF Init, TasksTypeOK
<1> QED
  BY <1>1, <1>6 DEF PipelineTypeOK

\* The lines that the two tasks record.
LEMMA LinesOfTasks ==
  /\ "pipeline" \in Recorder /\ "slow" \in Recorder
  /\ \A n \in 1..MaxEvents, r \in Recorder, a \in Action :
       [id |-> n, by |-> r, action |-> a] \in Line
BY EventPipelineAssumption DEF Line

\* What a step does to the log.
LEMMA LogStep ==
  ASSUME [Next]_vars
  PROVE  \/ UNCHANGED logVars
         \/ Evaluate \/ ChangedByAnalysis
         \/ \E r \in Recorder : RecordStep(r) \/ Return(r)
         \/ WriterStep
<1>1. PipelineRecords \/ PipelineRecorded \/ SlowRecords \/ SlowRecorded
        => \E r \in Recorder : RecordStep(r) \/ Return(r)
  BY LinesOfTasks DEF PipelineRecords, PipelineRecorded, SlowRecords, SlowRecorded
<1>2. Write => WriterStep
  BY DEF Write
<1>3. ReadEvent \/ SendRaw \/ ReceiverClosed \/ SourceFails \/ OutOfScope \/ ParkSource
        \/ Advise \/ ProviderAnswers \/ Fork \/ Send \/ Stop \/ Reload
        => UNCHANGED logVars
  BY DEF ReadEvent, SendRaw, ReceiverClosed, SourceFails, OutOfScope, ParkSource, Advise,
         ProviderAnswers, Fork, Send, Stop, Reload
<1>4. SlowRecv \/ Analyzed \/ UnchangedByAnalysis \/ SlowReload \/ SlowRebuilt \/ SlowEnds
        \/ Show \/ Quit \/ Notify \/ Start \/ UNCHANGED vars
        => UNCHANGED logVars
  BY DEF SlowRecv, Analyzed, UnchangedByAnalysis, SlowReload, SlowRebuilt, SlowEnds, Show, Quit,
         Notify, Start, vars
<1> QED
  BY <1>1, <1>2, <1>3, <1>4 DEF Next, Recv, PipelineRuns

LEMMA LogTypes == PipelineTypeOK /\ [Next]_vars => TypeOK'
<1> SUFFICES ASSUME PipelineTypeOK, [Next]_vars PROVE TypeOK'
  OBVIOUS
<1> USE DEF PipelineTypeOK
<1>1. CASE UNCHANGED logVars
  BY <1>1 DEF logVars, TypeOK
<1>2. CASE Evaluate
  <2>1. Head(raw).id \in 1..MaxEvents
    <3>1. Head(raw) \in Event
      BY <1>2, HeadTailProperties DEF Evaluate, TasksTypeOK
    <3> QED
      BY <3>1 DEF Event
  <2>2. PICK a \in Verdicts :
               Call("pipeline", [id |-> Head(raw).id, by |-> "pipeline", action |-> a])
    BY <1>2 DEF Evaluate
  <2>3. a \in Action
    BY IncidentLogAssumption
  <2> QED
    BY <2>1, <2>2, <2>3, LinesOfTasks, CallType
<1>3. CASE ChangedByAnalysis
  <2>1. scur.ev.id \in 1..MaxEvents /\ scur.action \in Action
    BY <1>3 DEF ChangedByAnalysis, TasksTypeOK, Work, Judged
  <2> QED
    BY <1>3, <2>1, LinesOfTasks, CallType DEF ChangedByAnalysis
<1> QED
  BY <1>1, <1>2, <1>3, LogStep, RecordType, ReturnType, WriterType

LEMMA SourceTypes ==
  ASSUME TasksTypeOK, ReadEvent \/ SendRaw \/ ReceiverClosed \/ SourceFails
  PROVE  TasksTypeOK'
<1>1. CASE ReadEvent
  <2>1. PICK scoped \in BOOLEAN : inhand' = [id |-> arrived + 1, scoped |-> scoped]
    BY <1>1 DEF ReadEvent
  <2>2. arrived' \in 0..MaxEvents /\ inhand' \in Event /\ inhand' # None
    BY <1>1, <2>1, EventPipelineAssumption DEF ReadEvent, TasksTypeOK, Event
  <2> QED
    BY <1>1, <2>2 DEF ReadEvent, TasksTypeOK, pipeVars, slowVars, tuiVars
<1>2. CASE SendRaw
  BY <1>2, EventPipelineAssumption DEF SendRaw, TasksTypeOK, slowVars, tuiVars
<1>3. CASE ReceiverClosed
  BY <1>3 DEF ReceiverClosed, TasksTypeOK, pipeVars, slowVars, tuiVars
<1>4. CASE SourceFails
  BY <1>4 DEF SourceFails, TasksTypeOK, pipeVars, slowVars, tuiVars
<1> QED
  BY <1>1, <1>2, <1>3, <1>4

LEMMA PipelineTypes ==
  ASSUME TasksTypeOK, Recv \/ ParkSource \/ PipelineRuns \/ ProviderAnswers \/ Reload
  PROVE  TasksTypeOK'
<1> USE DEF Goto, srcVars, slowVars, tuiVars, pipeVars
<1>1. CASE OutOfScope
  BY <1>1, EventPipelineAssumption DEF OutOfScope, TasksTypeOK
<1>2. CASE Evaluate
  <2>1. Head(raw) \in Event /\ raw' \in Seq(Event) /\ Len(raw') <= RawCap
    BY <1>2, EventPipelineAssumption DEF Evaluate, TasksTypeOK
  <2>2. PICK a \in Verdicts : cur' = [id |-> Head(raw).id, scoped |-> TRUE, action |-> a]
    BY <1>2 DEF Evaluate
  <2>3. Head(raw).id \in 1..MaxEvents /\ a \in Action
    BY <2>1, IncidentLogAssumption DEF Event
  <2>4. cur' \in Judged
    BY <2>2, <2>3 DEF Judged
  <2>5. cur' # None
    BY <2>4, EventPipelineAssumption
  <2> QED
    BY <1>2, <2>1, <2>4, <2>5 DEF Evaluate, TasksTypeOK
<1>3. CASE ParkSource
  BY <1>3 DEF ParkSource, TasksTypeOK
<1>4. CASE PipelineRecords
  BY <1>4 DEF PipelineRecords, TasksTypeOK
<1>5. CASE PipelineRecorded
  BY <1>5 DEF PipelineRecorded, TasksTypeOK
<1>6. CASE Advise \/ ProviderAnswers
  BY <1>6 DEF Advise, ProviderAnswers, TasksTypeOK
<1>7. CASE Fork
  <2>1. cur \in Judged
    BY <1>7 DEF Fork, TasksTypeOK
  <2> QED
    BY <1>7, <2>1, EventPipelineAssumption DEF Fork, TasksTypeOK
<1>8. CASE Send
  <2>1. cur \in Judged
    BY <1>8 DEF Send, TasksTypeOK
  <2>2. [id |-> cur.id, scoped |-> TRUE] \in [id : 1..MaxEvents, scoped : {TRUE}]
    BY <2>1 DEF Judged
  <2>3. tuiq' \in Seq([id : 1..MaxEvents, scoped : {TRUE}]) /\ Len(tuiq') <= TuiCap
    BY <1>8, <2>2, EventPipelineAssumption DEF Send, TasksTypeOK
  <2> QED
    BY <1>8, <2>3 DEF Send, TasksTypeOK
<1>9. CASE Stop
  BY <1>9, EventPipelineAssumption DEF Stop, TasksTypeOK
<1>10. CASE Reload
  BY <1>10 DEF Reload, TasksTypeOK
<1> QED
  BY <1>1, <1>2, <1>3, <1>4, <1>5, <1>6, <1>7, <1>8, <1>9, <1>10 DEF Recv, PipelineRuns

\* The steps of the slow path worker.
WorkerStep ==
  \/ SlowRecv \/ Analyzed \/ ChangedByAnalysis \/ UnchangedByAnalysis \/ SlowRecords
  \/ SlowRecorded \/ SlowReload \/ SlowRebuilt \/ SlowEnds

LEMMA WorkerTypes == ASSUME TasksTypeOK, WorkerStep PROVE TasksTypeOK'
<1> USE DEF srcVars, pipeVars, slowVars, tuiVars
<1>1. CASE SlowRecv
  <2>1. Head(slowq) \in Judged /\ slowq' \in Seq(Judged) /\ Len(slowq') <= SlowCap
    BY <1>1, EventPipelineAssumption DEF SlowRecv, TasksTypeOK
  <2>2. scur' \in Work
    BY <1>1, <2>1 DEF SlowRecv, Work, Judged
  <2>3. scur' # None
    BY <2>2, EventPipelineAssumption
  <2> QED
    BY <1>1, <2>1, <2>2, <2>3 DEF SlowRecv, TasksTypeOK
<1>2. CASE Analyzed
  <2>1. scur \in Work
    BY <1>2 DEF Analyzed, TasksTypeOK
  <2>2. scur' \in Work
    BY <1>2, <2>1 DEF Analyzed, Escalates, Work, Judged, Action
  <2>3. scur' # None
    BY <2>2, EventPipelineAssumption
  <2> QED
    BY <1>2, <2>2, <2>3 DEF Analyzed, TasksTypeOK
<1>3. CASE ChangedByAnalysis
  BY <1>3 DEF ChangedByAnalysis, TasksTypeOK
<1>4. CASE UnchangedByAnalysis
  BY <1>4 DEF UnchangedByAnalysis, TasksTypeOK
<1>5. CASE SlowRecords
  BY <1>5 DEF SlowRecords, TasksTypeOK
<1>6. CASE SlowRecorded
  BY <1>6 DEF SlowRecorded, TasksTypeOK
<1>7. CASE SlowReload \/ SlowRebuilt \/ SlowEnds
  BY <1>7 DEF SlowReload, SlowRebuilt, SlowEnds, TasksTypeOK
<1> QED
  BY <1>1, <1>2, <1>3, <1>4, <1>5, <1>6, <1>7 DEF WorkerStep

LEMMA DisplayTypes == ASSUME TasksTypeOK, Show \/ Quit \/ Notify \/ Write PROVE TasksTypeOK'
<1> USE DEF srcVars, pipeVars, slowVars, tuiVars
<1>1. CASE Show
  <2>1. Head(tuiq) \in [id : 1..MaxEvents, scoped : {TRUE}]
    BY <1>1, HeadTailProperties DEF Show, TasksTypeOK
  <2> QED
    BY <1>1, <2>1, EventPipelineAssumption DEF Show, TasksTypeOK
<1>2. CASE Quit
  BY <1>2, EventPipelineAssumption DEF Quit, TasksTypeOK
<1>3. CASE Notify
  BY <1>3 DEF Notify, TasksTypeOK
<1>4. CASE Write
  BY <1>4 DEF Write, TasksTypeOK
<1> QED
  BY <1>1, <1>2, <1>3, <1>4

LEMMA StepTypes == PipelineTypeOK /\ [Next]_vars => PipelineTypeOK'
<1> SUFFICES ASSUME PipelineTypeOK, [Next]_vars PROVE TasksTypeOK'
  BY LogTypes DEF PipelineTypeOK
<1>1. TasksTypeOK
  BY DEF PipelineTypeOK
<1>2. CASE UNCHANGED vars
  BY <1>1, <1>2 DEF TasksTypeOK, vars, srcVars, pipeVars, slowVars, tuiVars
<1>3. CASE Start
  BY <1>1, <1>3 DEF TasksTypeOK, Start, srcVars, tuiVars
<1> QED
  BY <1>1, <1>2, <1>3, SourceTypes, PipelineTypes, WorkerTypes, DisplayTypes DEF Next, WorkerStep

\* Nothing but an event in scope is offered to the display or to the worker, no
\* channel holds more than its capacity, and each task has an event in its hands
\* exactly between taking and passing it on.
THEOREM TypesCorrect == PipelineSpec => []PipelineTypeOK
BY InitTypes, StepTypes, PTL DEF PipelineSpec

-----------------------------------------------------------------------------
(***************************************************************************)
(* The tasks implement Delivery.                                           *)
(***************************************************************************)
\* The pipeline ends only when the display is gone.
StoppedByQuit == ppc = "stopped" => tui = "quit"

LEMMA StepStopped == StoppedByQuit /\ [Next]_vars => StoppedByQuit'
<1> USE DEF Goto, srcVars, pipeVars, slowVars, tuiVars
<1>1. Next => (ppc' = "stopped" => ppc = "stopped" \/ tui = "quit") /\ (tui = "quit" => tui' = tui)
  <2>1. ReadEvent \/ SendRaw \/ ReceiverClosed \/ SourceFails \/ OutOfScope \/ Evaluate
          \/ ParkSource \/ PipelineRecords \/ PipelineRecorded \/ Start
          => (ppc' = ppc /\ tui' = tui) \/ (ppc' # "stopped" /\ tui' = tui)
    BY DEF ReadEvent, SendRaw, ReceiverClosed, SourceFails, OutOfScope, Evaluate, ParkSource,
           PipelineRecords, PipelineRecorded, Start
  <2>2. Advise \/ ProviderAnswers \/ Fork \/ Send \/ Stop \/ Reload
          => (ppc' = "stopped" => ppc = "stopped" \/ tui = "quit") /\ tui' = tui
    BY DEF Advise, ProviderAnswers, Fork, Send, Stop, Reload
  <2>3. WorkerStep \/ Notify \/ Write => ppc' = ppc /\ tui' = tui
    BY DEF WorkerStep, SlowRecv, Analyzed, ChangedByAnalysis, UnchangedByAnalysis, SlowRecords,
           SlowRecorded, SlowReload, SlowRebuilt, SlowEnds, Notify, Write
  <2>4. Show \/ Quit => ppc' = ppc /\ tui = "running"
    BY DEF Show, Quit
  <2> QED
    BY <2>1, <2>2, <2>3, <2>4 DEF Next, Recv, PipelineRuns, WorkerStep
<1>2. UNCHANGED vars => ppc' = ppc /\ tui' = tui
  BY DEF vars
<1> QED
  BY <1>1, <1>2 DEF StoppedByQuit

\* The channels and the hands of the tasks, in the order of arrival, and what
\* each step does to them.
Joined(a, b, c, d) == a \o b \o c \o d

LEMMA JoinedAppend ==
  ASSUME NEW S, NEW a \in Seq(S), NEW b \in Seq(S), NEW c \in Seq(S), NEW e \in S
  PROVE  /\ Joined(a, b, c, <<e>>) = Append(Joined(a, b, c, <<>>), e)
         /\ Joined(a, b, Append(c, e), <<>>) = Joined(a, b, c, <<e>>)
<1>1. PICK ab \in Seq(S) : ab = a \o b
  BY ConcatProperties
<1>2. PICK abc \in Seq(S) : abc = ab \o c
  BY ConcatProperties
<1>3. abc \o <<e>> = Append(abc \o <<>>, e)
  BY ConcatEmptySeq, AppendIsConcat
<1>4. (ab \o Append(c, e)) \o <<>> = abc \o <<e>>
  <2>1. <<e>> \in Seq(S) /\ Append(c, e) = c \o <<e>> /\ c \o <<e>> \in Seq(S)
    BY AppendIsConcat, ConcatProperties
  <2>2. ab \o (c \o <<e>>) = (ab \o c) \o <<e>>
    BY <2>1, ConcatAssociative
  <2> QED
    BY <1>2, <2>1, <2>2, ConcatEmptySeq, ConcatProperties
<1> QED
  BY <1>1, <1>2, <1>3, <1>4 DEF Joined

LEMMA HeadAndTail ==
  ASSUME NEW S, NEW s \in Seq(S), s # <<>>
  PROVE  s = <<Head(s)>> \o Tail(s) /\ Head(s) \in S /\ Tail(s) \in Seq(S)
<1>1. Head(s) \in S /\ Tail(s) \in Seq(S)
  BY HeadTailProperties
<1> QED
  BY <1>1, SeqEqual, ConcatProperties, HeadTailProperties

LEMMA JoinedPass ==
  ASSUME NEW S, NEW a \in Seq(S), NEW c \in Seq(S), NEW d \in Seq(S), NEW e \in S
  PROVE  Joined(Append(a, e), <<>>, c, d) = Joined(a, <<e>>, c, d)
<1>1. Append(a, e) = a \o <<e>> /\ Append(a, e) \in Seq(S)
  BY AppendIsConcat, AppendProperties
<1>2. Append(a, e) \o <<>> = a \o <<e>>
  BY <1>1, ConcatEmptySeq
<1> QED
  BY <1>2 DEF Joined

LEMMA JoinedTake ==
  ASSUME NEW S, NEW a \in Seq(S), NEW c \in Seq(S), NEW d \in Seq(S), c # <<>>
  PROVE  Joined(a, <<>>, c, d) = Joined(a, <<Head(c)>>, Tail(c), d)
<1>1. PICK h \in S, t \in Seq(S) : h = Head(c) /\ t = Tail(c)
  BY HeadAndTail
<1>2. c = <<h>> \o t /\ <<h>> \in Seq(S)
  BY <1>1, HeadAndTail
<1>3. a \o (<<h>> \o t) = (a \o <<h>>) \o t
  BY <1>2, ConcatAssociative
<1>4. (a \o <<>>) \o c = (a \o <<Head(c)>>) \o Tail(c)
  BY <1>1, <1>2, <1>3, ConcatEmptySeq
<1> QED
  BY <1>4 DEF Joined

Without(s, n) == SubSeq(s, 1, n - 1) \o SubSeq(s, n + 1, Len(s))

LEMMA JoinedWithout ==
  ASSUME NEW S, NEW a \in Seq(S), NEW c \in Seq(S), NEW d \in Seq(S), c # <<>>
  PROVE  \E n \in DOMAIN Joined(a, <<>>, c, d) :
           /\ Joined(a, <<>>, c, d)[n] = Head(c)
           /\ Without(Joined(a, <<>>, c, d), n) = Joined(a, <<>>, Tail(c), d)
<1>1. PICK h \in S, t \in Seq(S) : h = Head(c) /\ t = Tail(c)
  BY HeadTailProperties
<1>2. c = <<h>> \o t /\ <<h>> \in Seq(S)
  BY <1>1, HeadAndTail
<1>3. PICK td \in Seq(S) : td = t \o d
  BY ConcatProperties
<1>4. (<<h>> \o t) \o d = <<h>> \o td
  BY <1>2, <1>3, ConcatAssociative
<1>5. PICK j \in Seq(S) : j = a \o (<<h>> \o td)
  BY <1>2, ConcatProperties
<1>6. Joined(a, <<>>, c, d) = j
  <2>1. PICK ht \in Seq(S) : ht = <<h>> \o t
    BY <1>2
  <2>2. a \o <<>> = a
    BY ConcatEmptySeq
  <2>3. (a \o ht) \o d = a \o (ht \o d)
    BY ConcatAssociative, SMTT(90)
  <2> QED
    BY <1>2, <1>4, <1>5, <2>1, <2>2, <2>3 DEF Joined
<1>7. Joined(a, <<>>, t, d) = a \o td
  <2>1. a \o <<>> = a
    BY ConcatEmptySeq
  <2>2. (a \o t) \o d = a \o (t \o d)
    BY ConcatAssociative, SMTT(90)
  <2> QED
    BY <1>3, <2>1, <2>2 DEF Joined
<1>8. PICK k \in Seq(S) : k = <<h>> \o td
  BY <1>2, ConcatProperties
<1>9. Len(k) = 1 + Len(td) /\ k[1] = h /\ \A i \in 1..Len(td) : k[i + 1] = td[i]
  BY <1>8
<1>10. j = a \o k
  BY <1>5, <1>8
<1>11. /\ Len(j) = Len(a) + Len(k)
       /\ \A i \in 1..Len(a) : j[i] = a[i]
       /\ \A i \in 1..Len(k) : j[Len(a) + i] = k[i]
  BY <1>10
<1>12. PICK n \in Nat : n = Len(a) + 1
  OBVIOUS
<1>13. n \in DOMAIN j /\ j[n] = h
  BY <1>9, <1>11, <1>12
<1>14. SubSeq(j, 1, n - 1) = a
  <2>1. PICK u \in Seq(S) : u = SubSeq(j, 1, n - 1)
    <3>1. \A i \in 1..(n - 1) : j[i] \in S
      BY <1>11, <1>12
    <3>2. 1 \in Int /\ n - 1 \in Int
      OBVIOUS
    <3>3. SubSeq(j, 1, n - 1) \in Seq(S)
      BY <3>1, <3>2, SubSeqProperties
    <3> QED
      BY <3>3
  <2>2. Len(u) = Len(a)
    BY <1>12, <2>1
  <2>3. \A i \in 1..Len(u) : u[i] = a[i]
    BY <1>11, <1>12, <2>1, <2>2
  <2> QED
    BY <2>1, <2>2, <2>3, SeqEqual
<1>15. SubSeq(j, n + 1, Len(j)) = td
  <2>1. PICK u \in Seq(S) : u = SubSeq(j, n + 1, Len(j))
    <3>1. \A i \in (n + 1)..Len(j) : j[i] \in S
      BY <1>12
    <3>2. n + 1 \in Int /\ Len(j) \in Int
      BY <1>12
    <3>3. SubSeq(j, n + 1, Len(j)) \in Seq(S)
      BY <3>1, <3>2, SubSeqProperties
    <3> QED
      BY <3>3
  <2>2. Len(u) = Len(td)
    BY <1>9, <1>11, <1>12, <2>1
  <2>3. \A i \in 1..Len(u) : u[i] = j[n + i]
    BY <1>12, <2>1
  <2>4. ASSUME NEW i \in 1..Len(u) PROVE u[i] = td[i]
    <3>1. i + 1 \in 1..Len(k)
      BY <1>9, <2>2
    <3>2. i \in 1..Len(td)
      BY <2>2
    <3>3. n + i = Len(a) + (i + 1)
      BY <1>12
    <3>4. u[i] = j[Len(a) + (i + 1)]
      BY <2>3, <3>3
    <3>5. j[Len(a) + (i + 1)] = k[i + 1]
      BY <1>11, <3>1
    <3> QED
      BY <1>9, <3>2, <3>4, <3>5
  <2> QED
    BY <2>1, <2>2, <2>4, SeqEqual
<1> QED
  BY <1>1, <1>6, <1>7, <1>13, <1>14, <1>15 DEF Without

\* h is the first element of s, and t is the rest.
Begins(s, h, t) == s # <<>> /\ h = Head(s) /\ t = Tail(s)

LEMMA JoinedTail ==
  ASSUME NEW S, NEW a \in Seq(S), NEW b \in Seq(S), NEW c \in Seq(S), NEW d \in Seq(S),
         NEW h \in S, NEW t \in Seq(S), Begins(a, h, t)
  PROVE  Begins(Joined(a, b, c, d), h, Joined(t, b, c, d))
<1>1. a # <<>> /\ h = Head(a) /\ t = Tail(a)
  BY DEF Begins
<1>2. a = <<h>> \o t /\ <<h>> \in Seq(S)
  BY <1>1, HeadAndTail
<1>3. PICK tb \in Seq(S) : tb = t \o b
  BY ConcatProperties
<1>4. a \o b = <<h>> \o tb
  BY <1>2, <1>3, ConcatAssociative
<1>5. PICK tbc \in Seq(S) : tbc = tb \o c
  BY ConcatProperties
<1>6. (<<h>> \o tb) \o c = <<h>> \o tbc
  BY <1>2, <1>5, ConcatAssociative, SMTT(90)
<1>7. PICK r \in Seq(S) : r = tbc \o d
  BY ConcatProperties
<1>8. (<<h>> \o tbc) \o d = <<h>> \o r
  BY <1>2, <1>7, ConcatAssociative, SMTT(90)
<1>9. PICK j \in Seq(S) : j = <<h>> \o r
  BY <1>2, ConcatProperties
<1>10. Joined(a, b, c, d) = j /\ Joined(t, b, c, d) = r
  BY <1>3, <1>4, <1>5, <1>6, <1>7, <1>8, <1>9 DEF Joined
<1>11. Len(j) = 1 + Len(r) /\ j[1] = h /\ \A i \in 1..Len(r) : j[i + 1] = r[i]
  BY <1>9
<1>12. j # <<>> /\ Head(j) = h
  BY <1>11
<1>13. Tail(j) = r
  <2>1. PICK u \in Seq(S) :
          u = Tail(j) /\ Len(u) = Len(j) - 1 /\ \A i \in 1..Len(u) : u[i] = j[i + 1]
    BY <1>12, HeadTailProperties
  <2> QED
    <3>1. Len(u) = Len(r) /\ \A i \in 1..Len(u) : u[i] = r[i]
      BY <1>11, <2>1
    <3> QED
      BY <2>1, <3>1, SeqEqual
<1> QED
  BY <1>10, <1>12, <1>13 DEF Begins

\* The path of an event, as Delivery sees it.
Path == IF tui = "quit" THEN <<>> ELSE Joined(tuiq, InHand(cur), raw, InHand(inhand))

LEMMA PathTypes ==
  ASSUME TasksTypeOK
  PROVE  /\ tuiq \in Seq(Event) /\ raw \in Seq(Event)
         /\ InHand(cur) \in Seq(Event) /\ InHand(inhand) \in Seq(Event)
<1>1. [id : 1..MaxEvents, scoped : {TRUE}] \subseteq Event
  BY DEF Event
<1>2. tuiq \in Seq(Event)
  BY <1>1, SeqMonotonic DEF TasksTypeOK
<1>3. cur # None => [id |-> cur.id, scoped |-> cur.scoped] \in Event
  BY DEF TasksTypeOK, Judged, Event
<1>4. inhand # None => [id |-> inhand.id, scoped |-> inhand.scoped] \in Event
  BY DEF TasksTypeOK, Event
<1> QED
  BY <1>2, <1>3, <1>4 DEF TasksTypeOK, InHand

LEMMA InitDelivery == Init => D!Init
BY EventPipelineAssumption DEF Init, D!Init, InHand

\* Nobody looks any more.
LEMMA StepWhenClosed ==
  ASSUME TasksTypeOK, [Next]_vars, tui = "quit"
  PROVE  [D!Next]_(D!deliveryVars)
<1> USE DEF Goto, srcVars, pipeVars, slowVars, tuiVars
<1>1. CASE ReadEvent
  BY <1>1 DEF ReadEvent, D!Next, D!Arrive
<1>2. SendRaw \/ ReceiverClosed \/ SourceFails \/ OutOfScope \/ Evaluate \/ ParkSource
        \/ PipelineRecords \/ PipelineRecorded \/ Advise \/ ProviderAnswers
        \/ Fork \/ Stop \/ Reload \/ Start
        => UNCHANGED <<arrived, shown, tui>>
  BY DEF SendRaw, ReceiverClosed, SourceFails, OutOfScope, Evaluate, ParkSource, PipelineRecords,
         PipelineRecorded, Advise, ProviderAnswers, Fork, Stop, Reload, Start
<1>3. WorkerStep \/ Notify \/ Write \/ UNCHANGED vars => UNCHANGED <<arrived, shown, tui>>
  BY DEF WorkerStep, SlowRecv, Analyzed, ChangedByAnalysis, UnchangedByAnalysis, SlowRecords,
         SlowRecorded, SlowReload, SlowRebuilt, SlowEnds, Notify, Write, vars
<1>4. ~Send /\ ~Show /\ ~Quit
  BY DEF Send, Show, Quit
<1> QED
  BY <1>1, <1>2, <1>3, <1>4 DEF Next, Recv, PipelineRuns, WorkerStep, D!deliveryVars

LEMMA StepWhenOpen ==
  ASSUME TasksTypeOK, TasksTypeOK', StoppedByQuit, [Next]_vars, tui # "quit"
  PROVE  [D!Next]_(D!deliveryVars)
<1> USE DEF Goto, srcVars, pipeVars, slowVars, tuiVars
<1>1. CASE Quit
  BY <1>1 DEF Quit, D!Next, D!Close
<1>2. CASE UNCHANGED <<tuiq, cur, raw, inhand, arrived, shown, tui>>
  BY <1>2 DEF D!deliveryVars, InHand
<1>3. CASE ReadEvent
  <2>1. PICK e : /\ inhand' = e /\ e = [id |-> arrived + 1, scoped |-> e.scoped]
                 /\ e.scoped \in BOOLEAN
    BY <1>3 DEF ReadEvent
  <2>2. inhand = None /\ e \in Event /\ e # None
    BY <1>3, <2>1 DEF ReadEvent, TasksTypeOK
  <2>3. InHand(inhand) = <<>> /\ InHand(inhand)' = <<e>> /\ InHand(cur)' = InHand(cur)
    BY <1>3, <2>1, <2>2 DEF ReadEvent, InHand
  <2>4. Path' = Append(Path, e)
    <3>1. PICK a \in Seq(Event), b \in Seq(Event), c \in Seq(Event) :
                 a = tuiq /\ b = InHand(cur) /\ c = raw
      BY PathTypes
    <3>2. Path = Joined(a, b, c, <<>>) /\ Path' = Joined(a, b, c, <<e>>)
      BY <1>3, <2>3, <3>1 DEF ReadEvent, Path
    <3>3. Joined(a, b, c, <<e>>) = Append(Joined(a, b, c, <<>>), e)
      BY <2>2, JoinedAppend, SMTT(90)
    <3> QED
      BY <3>2, <3>3
  <2> QED
    BY <1>3, <2>1, <2>4 DEF ReadEvent, Path, Joined, D!Next, D!Arrive
<1>4. CASE SendRaw
  <2>1. inhand # None /\ inhand' = None /\ inhand \in Event
    BY <1>4 DEF SendRaw, TasksTypeOK
  <2>2. InHand(inhand) = <<inhand>> /\ InHand(inhand)' = <<>> /\ InHand(cur)' = InHand(cur)
    BY <1>4, <2>1 DEF SendRaw, InHand, Event
  <2>3. Path' = Path
    BY <1>4, <2>1, <2>2, PathTypes, JoinedAppend DEF SendRaw, Path
  <2> QED
    BY <1>4, <2>3 DEF SendRaw, Path, Joined, D!deliveryVars
<1>5. CASE OutOfScope
  <2>1. raw # <<>> /\ ~Head(raw).scoped
    BY <1>5 DEF OutOfScope
  <2>2. /\ InHand(cur) = <<>> /\ InHand(cur)' = <<>> /\ InHand(inhand)' = InHand(inhand)
        /\ UNCHANGED <<arrived, shown, tui>>
    BY <1>5 DEF OutOfScope, TasksTypeOK, InHand
  <2>3. \E n \in DOMAIN Path : Path[n] = Head(raw) /\ Without(Path, n) = Path'
    BY <1>5, <2>1, <2>2, PathTypes, JoinedWithout DEF OutOfScope, Path
  <2> QED
    BY <2>1, <2>2, <2>3 DEF Path, Joined, Without, D!Next, D!LeaveOut, D!RemoveAt
<1>6. CASE Evaluate
  <2>1. raw # <<>> /\ Head(raw) \in Event /\ Head(raw).scoped = TRUE
    BY <1>6, HeadTailProperties DEF Evaluate, TasksTypeOK, Event
  <2>2. PICK a : cur' = [id |-> Head(raw).id, scoped |-> TRUE, action |-> a]
    BY <1>6 DEF Evaluate
  <2>3. cur = None /\ cur' # None
    BY <1>6 DEF Evaluate, TasksTypeOK
  <2>4. InHand(cur) = <<>> /\ InHand(cur)' = <<Head(raw)>> /\ InHand(inhand)' = InHand(inhand)
    BY <1>6, <2>1, <2>2, <2>3 DEF Evaluate, InHand, Event
  <2>5. Path' = Path
    BY <1>6, <2>1, <2>4, PathTypes, JoinedTake DEF Evaluate, Path
  <2> QED
    BY <1>6, <2>5 DEF Evaluate, Path, Joined, D!deliveryVars
<1>7. CASE Send
  <2>1. PICK e \in Event : e = [id |-> cur.id, scoped |-> TRUE]
    BY <1>7 DEF Send, TasksTypeOK, Judged, Event
  <2>2. InHand(cur) = <<e>> /\ InHand(cur)' = <<>> /\ InHand(inhand)' = InHand(inhand)
    BY <1>7, <2>1 DEF Send, TasksTypeOK, Judged, InHand
  <2>3. Path' = Path
    <3>1. PICK a \in Seq(Event), c \in Seq(Event), d \in Seq(Event) :
                 a = tuiq /\ c = raw /\ d = InHand(inhand)
      BY PathTypes
    <3>2. Path = Joined(a, <<e>>, c, d) /\ Path' = Joined(Append(a, e), <<>>, c, d)
      BY <1>7, <2>1, <2>2, <3>1 DEF Send, Path
    <3>3. Joined(Append(a, e), <<>>, c, d) = Joined(a, <<e>>, c, d)
      BY JoinedPass, SMTT(90)
    <3> QED
      BY <3>2, <3>3
  <2> QED
    BY <1>7, <2>3 DEF Send, Path, Joined, D!deliveryVars
<1>8. CASE Show
  <2>1. tuiq # <<>> /\ Head(tuiq).scoped = TRUE
    <3>1. Head(tuiq) \in [id : 1..MaxEvents, scoped : {TRUE}]
      BY <1>8, HeadTailProperties DEF Show, TasksTypeOK
    <3> QED
      BY <1>8, <3>1 DEF Show
  <2>2. InHand(cur)' = InHand(cur) /\ InHand(inhand)' = InHand(inhand)
    BY <1>8 DEF Show, InHand
  <2>3. Path # <<>> /\ Head(Path) = Head(tuiq) /\ Tail(Path) = Path'
    <3>1. PICK a \in Seq(Event), b \in Seq(Event), c \in Seq(Event), d \in Seq(Event) :
                 a = tuiq /\ b = InHand(cur) /\ c = raw /\ d = InHand(inhand)
      BY PathTypes
    <3>2. PICK h \in Event, t \in Seq(Event) : Begins(a, h, t)
      BY <2>1, <3>1, HeadTailProperties DEF Begins
    <3>3. Path = Joined(a, b, c, d) /\ Path' = Joined(t, b, c, d)
      BY <1>8, <2>2, <3>1, <3>2 DEF Show, Path, Begins
    <3>4. Begins(Joined(a, b, c, d), h, Joined(t, b, c, d))
      BY <3>2, JoinedTail
    <3> QED
      BY <3>1, <3>2, <3>3, <3>4 DEF Begins
  <2> QED
    BY <1>8, <2>1, <2>3 DEF Show, Path, Joined, D!Next, D!Display
<1>9. ~ReceiverClosed /\ ~Stop
  BY DEF ReceiverClosed, Stop, StoppedByQuit
<1>10. SourceFails \/ ParkSource \/ PipelineRecords \/ PipelineRecorded \/ Advise \/ ProviderAnswers
         \/ Fork \/ Reload \/ Notify \/ Write \/ Start \/ UNCHANGED vars
         => UNCHANGED <<tuiq, cur, raw, inhand, arrived, shown, tui>>
  BY DEF SourceFails, ParkSource, PipelineRecords, PipelineRecorded, Advise, ProviderAnswers,
         Fork, Reload, Notify, Write, Start, vars
<1>11. WorkerStep => UNCHANGED <<tuiq, cur, raw, inhand, arrived, shown, tui>>
  BY DEF WorkerStep, SlowRecv, Analyzed, ChangedByAnalysis, UnchangedByAnalysis, SlowRecords,
         SlowRecorded, SlowReload, SlowRebuilt, SlowEnds
<1> QED
  BY <1>1, <1>2, <1>3, <1>4, <1>5, <1>6, <1>7, <1>8, <1>9, <1>10, <1>11
     DEF Next, Recv, PipelineRuns, WorkerStep

\* Every event in scope is displayed once, in the order of arrival, until the
\* display is closed (main.rs:290-374): the tasks and the channels between them
\* implement Delivery.
THEOREM ImplementsDelivery == PipelineSpec => Delivers
<1>1. Init => PipelineTypeOK /\ StoppedByQuit /\ D!Init
  BY InitTypes, InitDelivery DEF Init, StoppedByQuit
<1>2. PipelineTypeOK /\ StoppedByQuit /\ [Next]_vars
        => PipelineTypeOK' /\ StoppedByQuit' /\ [D!Next]_(D!deliveryVars)
  BY StepTypes, StepStopped, StepWhenClosed, StepWhenOpen DEF PipelineTypeOK
<1> QED
  BY <1>1, <1>2, PTL DEF PipelineSpec, Delivers, D!Spec

-----------------------------------------------------------------------------
(***************************************************************************)
(* One incident per event.  The pipeline takes the events in the order of  *)
(* their numbers, and the worker takes up some of them later, in the same  *)
(* order; so both call record in order.  What is no incident for the       *)
(* pipeline is missed by it for good, and the worker records nothing else. *)
(***************************************************************************)
Reached == rec["pipeline"].ev.id  \* the last event the pipeline judged
Past    == rec["slow"].ev.id      \* the last one the worker recorded

\* The pipeline is still working on the last event.
AtWork == ppc \in {"record", "advise", "llm", "fork"}

Increasing(s) == \A i, j \in DOMAIN s : i < j => s[i].id < s[j].id

\* The events before the pipeline are later than what it has judged.
InLine ==
  /\ Reached <= arrived
  /\ inhand # None => inhand.id = arrived /\ Reached < arrived
  /\ Increasing(raw)
  /\ \A i \in DOMAIN raw : /\ Reached < raw[i].id /\ raw[i].id <= arrived
                           /\ inhand # None => raw[i].id < arrived
  /\ cur # None => cur.id = Reached

\* The copies for the worker lie between what it has recorded and what the
\* pipeline has judged.
Copied ==
  /\ Past <= Reached /\ (AtWork => Past < Reached)
  /\ Increasing(slowq)
  /\ \A i \in DOMAIN slowq : /\ Past < slowq[i].id /\ slowq[i].id <= Reached
                             /\ AtWork => slowq[i].id < Reached
  /\ scur # None =>
       /\ Past <= scur.ev.id
       /\ spc \in {"analyze", "compare"} => Past < scur.ev.id
       /\ \A i \in DOMAIN slowq : scur.ev.id < slowq[i].id
       /\ scur.ev.id <= Reached
       /\ AtWork => scur.ev.id < Reached

\* The lines that have been queued, and not been lost since.
InLog == {file[i] : i \in DOMAIN file} \cup {queue[i] : i \in DOMAIN queue} \cup ({held} \ {None})

Recording(r) == rec[r].pc \in {"try_lock", "try_send"}

\* Events that the pipeline has not recorded and will not record.
Missed ==
  {n \in 0..Reached : /\ n = Reached => ~Recording("pipeline")
                      /\ \A e \in InLog : e.by = "pipeline" => e.id # n}

Divided ==
  /\ cur # None /\ ~Incident(cur) => cur.id \in Missed
  /\ \A i \in DOMAIN slowq : ~Incident(slowq[i]) => slowq[i].id \in Missed
  /\ scur # None => /\ ~Incident(scur.ev) => scur.ev.id \in Missed
                    /\ scur.action # scur.ev.action => ~Incident(scur.ev)
  /\ Recording("slow") => Past \in Missed
  /\ \A e \in InLog : e.by = "slow" => e.id \in Missed

OneIncidentInv == PipelineTypeOK /\ Ordered /\ InLine /\ Copied /\ Divided

LEMMA InitOneIncident == Init => OneIncidentInv
<1> SUFFICES ASSUME Init PROVE InLine /\ Copied /\ Divided
  BY InitTypes, InitOrdered DEF Init, OneIncidentInv
<1>1. rec["pipeline"].ev.id = 0 /\ rec["slow"].pc = "idle"
  BY LinesOfTasks DEF Init, InitLog
<1>2. /\ raw = <<>> /\ slowq = <<>> /\ cur = None /\ scur = None /\ inhand = None
      /\ arrived = 0 /\ ppc = "boot"
  BY DEF Init
<1>3. InLog = {}
  BY DEF Init, InitLog, InLog
<1>4. InLine
  BY <1>1, <1>2 DEF InLine, Increasing, Reached
<1>5. Reached = 0 /\ Past = 0 /\ ~AtWork /\ ~Recording("slow")
  BY <1>1, <1>2, LinesOfTasks DEF Init, InitLog, Reached, Past, AtWork, Recording
<1>6. Copied
  BY <1>2, <1>5 DEF Copied, Increasing
<1> QED
  BY <1>2, <1>3, <1>4, <1>5, <1>6 DEF Divided

LEMMA AppendIncreasing ==
  ASSUME NEW S, NEW s \in Seq(S), NEW e \in S, Increasing(s), \A i \in DOMAIN s : s[i].id < e.id
  PROVE  Increasing(Append(s, e))
<1>1. \A i \in DOMAIN Append(s, e) : \/ i \in DOMAIN s /\ Append(s, e)[i] = s[i]
                                     \/ i = Len(s) + 1 /\ Append(s, e)[i] = e
  OBVIOUS
<1>2. DOMAIN s = 1..Len(s) /\ Len(s) \in Nat
  OBVIOUS
<1> QED
  BY <1>1, <1>2 DEF Increasing

LEMMA TailIncreasing ==
  ASSUME NEW S, NEW s \in Seq(S), s # <<>>, Increasing(s)
  PROVE  /\ Increasing(Tail(s))
         /\ \A i \in DOMAIN Tail(s) : /\ i + 1 \in DOMAIN s /\ Tail(s)[i] = s[i + 1]
                                      /\ Head(s).id < Tail(s)[i].id
         /\ 1 \in DOMAIN s /\ Head(s) = s[1]
<1>1. /\ \A i \in DOMAIN Tail(s) : i + 1 \in DOMAIN s /\ Tail(s)[i] = s[i + 1] /\ 1 < i + 1
      /\ 1 \in DOMAIN s /\ Head(s) = s[1]
      /\ DOMAIN Tail(s) \subseteq Nat
  OBVIOUS
<1> QED
  BY <1>1 DEF Increasing

\* The calls of record, with what the tasks make of it.
LEMMA EvaluateCalls ==
  ASSUME PipelineTypeOK, InLine, Evaluate
  PROVE  \E ev \in Line : /\ Call("pipeline", ev) /\ ev.by = "pipeline" /\ ev.id = Head(raw).id
                          /\ ev.id > Reached /\ Incident(ev) = Incident(cur)' /\ cur'.id = ev.id
<1>1. PICK a \in Verdicts :
             /\ cur' = [id |-> Head(raw).id, scoped |-> TRUE, action |-> a]
             /\ Call("pipeline", [id |-> Head(raw).id, by |-> "pipeline", action |-> a])
  BY DEF Evaluate
<1>2. raw # <<>> /\ raw \in Seq(Event)
  BY DEF Evaluate, PipelineTypeOK, TasksTypeOK
<1>3. Head(raw) \in Event /\ Head(raw) = raw[1] /\ 1 \in DOMAIN raw
  BY <1>2
<1>4. Head(raw).id \in 1..MaxEvents /\ a \in Action /\ Head(raw).id > Reached
  <2>1. Reached < Head(raw).id
    BY <1>3 DEF InLine
  <2>2. Reached \in Nat /\ Head(raw).id \in 1..MaxEvents /\ MaxEvents \in Nat
    BY <1>3, LinesOfTasks, EventPipelineAssumption DEF Event, PipelineTypeOK, TypeOK, Line, Reached
  <2> QED
    BY <2>1, <2>2, IncidentLogAssumption
<1>5. PICK ev \in Line : ev = [id |-> Head(raw).id, by |-> "pipeline", action |-> a]
  BY <1>4, LinesOfTasks
<1>6. ev.by = "pipeline" /\ ev.id = Head(raw).id /\ ev.action = a
  BY <1>5
<1>7. Incident(ev) = Incident(cur)' /\ cur'.id = ev.id
  BY <1>1, <1>6 DEF Incident
<1> QED
  BY <1>1, <1>4, <1>5, <1>6, <1>7

LEMMA AnalysisCalls ==
  ASSUME PipelineTypeOK, Copied, ChangedByAnalysis
  PROVE  \E ev \in Line : Call("slow", ev) /\ ev.by = "slow" /\ ev.id = scur.ev.id /\ ev.id > Past
<1>1. scur \in Work /\ scur # None
  BY DEF ChangedByAnalysis, PipelineTypeOK, TasksTypeOK
<1>2. scur.ev.id \in 1..MaxEvents /\ scur.action \in Action
  BY <1>1 DEF Work, Judged
<1>3. PICK ev \in Line : ev = [id |-> scur.ev.id, by |-> "slow", action |-> scur.action]
  BY <1>2, LinesOfTasks
<1>4. Past < scur.ev.id
  BY <1>1 DEF Copied, ChangedByAnalysis
<1>5. Past \in Nat /\ MaxEvents \in Nat
  BY LinesOfTasks, EventPipelineAssumption DEF PipelineTypeOK, TypeOK, Line, Past
<1> QED
  BY <1>2, <1>3, <1>4, <1>5 DEF ChangedByAnalysis

LEMMA LogStaysOrdered == OneIncidentInv /\ [Next]_vars => Ordered'
<1> SUFFICES ASSUME OneIncidentInv, [Next]_vars PROVE Ordered'
  OBVIOUS
<1> USE DEF OneIncidentInv, PipelineTypeOK
<1>1. CASE UNCHANGED logVars
  BY <1>1 DEF logVars, Ordered, InOrder, AllBefore, Before, Precedes
<1>2. CASE Evaluate
  BY <1>2, EvaluateCalls, CallOrdered, LinesOfTasks DEF Reached
<1>3. CASE ChangedByAnalysis
  BY <1>3, AnalysisCalls, CallOrdered, LinesOfTasks DEF Past
<1> QED
  BY <1>1, <1>2, <1>3, LogStep, RecordOrdered, ReturnOrdered, WriterOrdered

\* What a step adds to the log.
LEMMA InLogStep ==
  ASSUME PipelineTypeOK
  PROVE  /\ UNCHANGED logVars \/ Evaluate \/ ChangedByAnalysis => InLog' = InLog
         /\ \A r \in Recorder : RecordStep(r) \/ Return(r) =>
              InLog' \subseteq InLog \cup (IF rec[r].pc = "try_send" THEN {rec[r].ev} ELSE {})
         /\ WriterStep => InLog' \subseteq InLog \cup {Newline, Torn}
<1> USE DEF PipelineTypeOK
<1>1. ASSUME UNCHANGED <<file, queue, held>> PROVE InLog' = InLog
  BY <1>1 DEF InLog
<1>2. UNCHANGED logVars \/ Evaluate \/ ChangedByAnalysis => UNCHANGED <<file, queue, held>>
  BY DEF logVars, Evaluate, ChangedByAnalysis, Call
<1>3. ASSUME NEW r \in Recorder, TrySend(r)
      PROVE  InLog' \subseteq InLog \cup {rec[r].ev} /\ rec[r].pc = "try_send"
  <2>1. PICK e : e = rec[r].ev /\ queue' = Append(queue, e) /\ file' = file /\ held' = held
    BY <1>3 DEF TrySend
  <2>2. \A i \in DOMAIN queue' : \/ i \in DOMAIN queue /\ queue'[i] = queue[i]
                                 \/ i = Len(queue) + 1 /\ queue'[i] = e
    BY <2>1 DEF TypeOK
  <2> QED
    BY <1>3, <2>1, <2>2 DEF InLog, TrySend
<1>4. ASSUME NEW r \in Recorder, TryLock(r) \/ LockBusy(r) \/ SendRefused(r) \/ Return(r)
      PROVE  UNCHANGED <<file, queue, held>>
  BY <1>4 DEF TryLock, LockBusy, SendRefused, Return
<1>5. ASSUME WriterStep PROVE InLog' \subseteq InLog \cup {Newline, Torn}
  <2>1. CASE Open
    BY <2>1 DEF Open, InLog
  <2>2. CASE TakeLine
    <3>1. /\ held' = queue[1] /\ file' = file /\ 1 \in DOMAIN queue
          /\ \A i \in DOMAIN queue' : i + 1 \in DOMAIN queue /\ queue'[i] = queue[i + 1]
      BY <2>2 DEF TakeLine, TypeOK
    <3> QED
      BY <3>1 DEF InLog
  <2>3. ASSUME NEW e, file' = Append(file, e), queue' = queue, held' \in {None, held}
        PROVE  InLog' \subseteq InLog \cup {e}
    <3>1. \A i \in DOMAIN file' : \/ i \in DOMAIN file /\ file'[i] = file[i]
                                  \/ i = Len(file) + 1 /\ file'[i] = e
      BY <2>3 DEF TypeOK
    <3> QED
      BY <2>3, <3>1 DEF InLog
  <2>4. CASE WriteLine
    <3>1. held \in InLog
      BY <2>4 DEF WriteLine, TypeOK, InLog
    <3> QED
      BY <2>3, <2>4, <3>1 DEF WriteLine
  <2>5. CASE WriteFails \/ WriteNewline
    <3>1. CASE UNCHANGED <<file, queue>> /\ held' \in {None, held}
      BY <3>1 DEF InLog
    <3> QED
      BY <2>3, <2>5, <3>1 DEF WriteFails, WriteNewline
  <2> QED
    BY <1>5, <2>1, <2>2, <2>4, <2>5 DEF WriterStep
<1> QED
  BY <1>1, <1>2, <1>3, <1>4, <1>5 DEF RecordStep

\* A call in progress goes on about the same event.
LEMMA SameEvents ==
  ASSUME PipelineTypeOK,
         UNCHANGED logVars \/ WriterStep \/ \E r \in Recorder : RecordStep(r) \/ Return(r)
  PROVE  /\ Reached' = Reached /\ Past' = Past
         /\ \A q \in Recorder : Recording(q)' => Recording(q)
<1> USE DEF PipelineTypeOK
<1>1. CASE UNCHANGED logVars \/ WriterStep
  <2>1. rec' = rec
    BY <1>1 DEF logVars, WriterStep, Open, TakeLine, WriteLine, WriteFails, WriteNewline
  <2> QED
    BY <2>1 DEF Reached, Past, Recording
<1>2. ASSUME NEW r \in Recorder, RecordStep(r) \/ Return(r)
      PROVE  \A q \in Recorder : /\ rec'[q].ev = rec[q].ev
                                 /\ rec'[q].pc \in {"try_lock", "try_send"}
                                      => rec[q].pc \in {"try_lock", "try_send"}
  <2>1. CASE TryLock(r)
    BY <2>1 DEF TryLock, TypeOK
  <2>2. CASE LockBusy(r)
    BY <2>2 DEF LockBusy, TypeOK
  <2>3. CASE TrySend(r)
    BY <2>3 DEF TrySend, TypeOK
  <2>4. CASE SendRefused(r)
    BY <2>4 DEF SendRefused, TypeOK
  <2>5. CASE Return(r)
    BY <2>5 DEF Return, TypeOK
  <2> QED
    BY <1>2, <2>1, <2>2, <2>3, <2>4, <2>5 DEF RecordStep
<1> QED
  BY <1>1, <1>2, LinesOfTasks DEF Reached, Past, Recording

LEMMA MissedStays == OneIncidentInv /\ [Next]_vars => Missed \subseteq Missed'
<1> SUFFICES ASSUME OneIncidentInv, [Next]_vars, NEW n \in Missed PROVE n \in Missed'
  OBVIOUS
<1>1. /\ n \in 0..Reached /\ (n = Reached => ~Recording("pipeline"))
      /\ \A e \in InLog : e.by = "pipeline" => e.id # n
      /\ Reached \in Nat /\ Reached' \in Nat
  BY LogTypes, LinesOfTasks
     DEF Missed, OneIncidentInv, PipelineTypeOK, TypeOK, Line, Reached
<1> SUFFICES /\ n \in 0..Reached' /\ (n = Reached' => ~Recording("pipeline")')
             /\ \A e \in InLog' : e.by = "pipeline" => e.id # n
  BY DEF Missed
<1> USE DEF OneIncidentInv
<1>2. CASE Evaluate
  <2>1. Reached' > Reached
    <3>1. PICK ev \in Line : Call("pipeline", ev) /\ ev.id > Reached
      BY <1>2, EvaluateCalls
    <3> QED
      BY <3>1, LinesOfTasks DEF Call, Reached, PipelineTypeOK, TypeOK
  <2> QED
    BY <1>1, <1>2, <2>1, InLogStep
<1>3. CASE ChangedByAnalysis
  <2>1. rec'["pipeline"] = rec["pipeline"]
    BY <1>3, LinesOfTasks DEF ChangedByAnalysis, Call, PipelineTypeOK, TypeOK
  <2> QED
    BY <1>1, <1>3, <2>1, InLogStep DEF Reached, Recording
<1>4. CASE UNCHANGED logVars \/ WriterStep
  <2>1. \A e \in {Newline, Torn} : e.by # "pipeline"
    BY IncidentLogAssumption, LinesOfTasks DEF Newline, Torn
  <2>2. \A e \in InLog' : e \in InLog \/ e \in {Newline, Torn}
    BY <1>4, InLogStep
  <2> QED
    BY <1>1, <1>4, <2>1, <2>2, SameEvents, LinesOfTasks
<1>5. ASSUME NEW r \in Recorder, RecordStep(r) \/ Return(r)
      PROVE  /\ n \in 0..Reached' /\ (n = Reached' => ~Recording("pipeline")')
             /\ \A e \in InLog' : e.by = "pipeline" => e.id # n
  <2>1. PICK line : line = rec[r].ev
    OBVIOUS
  <2>2. line.by = r /\ (r = "pipeline" => line.id = Reached)
    BY <2>1 DEF Ordered, Reached
  <2>3. \A e \in InLog' : e \in InLog \/ (e = line /\ Recording(r))
    BY <1>5, <2>1, InLogStep DEF Recording
  <2> QED
    BY <1>1, <1>5, <2>2, <2>3, SameEvents, LinesOfTasks
<1> QED
  BY <1>2, <1>3, <1>4, <1>5, LogStep

LEMMA StepInLine == OneIncidentInv /\ [Next]_vars => InLine'
<1> SUFFICES ASSUME OneIncidentInv, [Next]_vars PROVE InLine'
  OBVIOUS
<1> USE DEF OneIncidentInv, PipelineTypeOK, Goto, srcVars, pipeVars, slowVars, tuiVars
<1>1. raw \in Seq(Event) /\ Reached \in Nat /\ arrived \in Nat
  BY LinesOfTasks, EventPipelineAssumption DEF TasksTypeOK, TypeOK, Line, Reached
<1>2. CASE UNCHANGED <<arrived, inhand, raw, cur, Reached>>
  BY <1>2 DEF InLine, Increasing
<1>3. CASE ReadEvent
  <2>1. /\ inhand = None /\ inhand'.id = arrived + 1 /\ arrived' = arrived + 1
        /\ UNCHANGED <<raw, cur, Reached>>
    BY <1>3 DEF ReadEvent, TasksTypeOK, logVars, Reached
  <2>2. \A i \in DOMAIN raw : raw[i].id \in Nat
    <3>1. \A e \in Event : e.id \in Nat
      BY EventPipelineAssumption DEF Event
    <3> QED
      BY <1>1, <3>1
  <2> QED
    BY <1>1, <2>1, <2>2 DEF InLine, Increasing
<1>4. CASE SendRaw
  <2>1. inhand \in Event /\ inhand # None
    BY <1>4 DEF SendRaw, TasksTypeOK
  <2>2. PICK e \in Event : e = inhand
    BY <2>1
  <2>3. /\ raw' = Append(raw, e) /\ inhand' = None /\ UNCHANGED <<arrived, cur, Reached>>
        /\ e.id = arrived /\ Reached < arrived
    BY <1>4, <2>1, <2>2 DEF SendRaw, InLine, logVars, Reached
  <2>4. \A i \in DOMAIN raw : raw[i].id < e.id
    BY <2>1, <2>3 DEF InLine
  <2>5. Increasing(raw)'
    <3>1. Increasing(Append(raw, e))
      BY <1>1, <2>4, AppendIncreasing DEF InLine
    <3> QED
      BY <2>3, <3>1 DEF Increasing
  <2>6. \A i \in DOMAIN raw' : \/ i \in DOMAIN raw /\ raw'[i] = raw[i]
                               \/ i = Len(raw) + 1 /\ raw'[i] = e
    BY <1>1, <2>3
  <2> QED
    BY <1>1, <2>3, <2>5, <2>6 DEF InLine
<1>5. CASE ReceiverClosed
  BY <1>5 DEF ReceiverClosed, InLine, Increasing, logVars, Reached
<1>6. ASSUME raw # <<>>, raw' = Tail(raw), UNCHANGED <<arrived, inhand>>,
             Reached' = Reached \/ Reached' = Head(raw).id, cur' # None => cur'.id = Reached'
      PROVE  InLine'
  <2>1. /\ Increasing(Tail(raw)) /\ 1 \in DOMAIN raw /\ Head(raw) = raw[1]
        /\ \A i \in DOMAIN Tail(raw) : /\ i + 1 \in DOMAIN raw /\ Tail(raw)[i] = raw[i + 1]
                                       /\ Head(raw).id < Tail(raw)[i].id
    BY <1>1, <1>6, TailIncreasing DEF InLine
  <2>2. Increasing(raw)'
    BY <1>6, <2>1 DEF Increasing
  <2> QED
    BY <1>1, <1>6, <2>1, <2>2 DEF InLine
<1>7. CASE OutOfScope
  BY <1>6, <1>7 DEF OutOfScope, logVars, Reached, InLine
<1>8. CASE Evaluate
  <2>1. PICK ev \in Line : Call("pipeline", ev) /\ ev.id = Head(raw).id /\ cur'.id = ev.id
    BY <1>8, EvaluateCalls
  <2>2. Reached' = Head(raw).id
    BY <2>1, LinesOfTasks DEF Call, Reached, TypeOK
  <2> QED
    BY <1>6, <1>8, <2>1, <2>2 DEF Evaluate
<1>9. CASE Send
  BY <1>9 DEF Send, InLine, Increasing, logVars, Reached
<1>10. CASE Stop
  BY <1>10 DEF Stop, InLine, logVars, Increasing, Reached
<1>11. SourceFails \/ ParkSource \/ Advise \/ ProviderAnswers \/ Fork \/ Reload \/ SlowRecv
         \/ Analyzed \/ UnchangedByAnalysis \/ SlowReload \/ SlowRebuilt \/ SlowEnds \/ Show
         \/ Quit \/ Notify \/ Start \/ UNCHANGED vars
         => UNCHANGED <<arrived, inhand, raw, cur, Reached>>
  BY DEF SourceFails, ParkSource, Advise, ProviderAnswers, Fork, Reload, SlowRecv, Analyzed,
         UnchangedByAnalysis, SlowReload, SlowRebuilt, SlowEnds, Show, Quit, Notify, Start,
         vars, logVars, Reached
<1>12. PipelineRecords \/ PipelineRecorded \/ SlowRecords \/ SlowRecorded \/ Write
         => UNCHANGED <<arrived, inhand, raw, cur, Reached>>
  <2>1. PipelineRecords \/ PipelineRecorded \/ SlowRecords \/ SlowRecorded \/ Write
          => UNCHANGED <<arrived, inhand, raw, cur>>
    BY DEF PipelineRecords, PipelineRecorded, SlowRecords, SlowRecorded, Write
  <2> QED
    BY <2>1, SameEvents, LinesOfTasks
       DEF PipelineRecords, PipelineRecorded, SlowRecords, SlowRecorded, Write
<1>13. ChangedByAnalysis => UNCHANGED <<arrived, inhand, raw, cur, Reached>>
  BY LinesOfTasks DEF ChangedByAnalysis, Call, TypeOK, Reached
<1> QED
  BY <1>2, <1>3, <1>4, <1>5, <1>7, <1>8, <1>9, <1>10, <1>11, <1>12, <1>13
     DEF Next, Recv, PipelineRuns

LEMMA StepCopied == OneIncidentInv /\ [Next]_vars => Copied'
<1> SUFFICES ASSUME OneIncidentInv, [Next]_vars PROVE Copied'
  OBVIOUS
<1> USE DEF OneIncidentInv, PipelineTypeOK, Goto, srcVars, pipeVars, slowVars, tuiVars
<1>1. /\ slowq \in Seq(Judged) /\ Reached \in Nat /\ Past \in Nat
      /\ \A i \in DOMAIN slowq : slowq[i].id \in Nat
      /\ scur # None => scur.ev.id \in Nat
  <2>1. slowq \in Seq(Judged) /\ Reached \in Nat /\ Past \in Nat
    BY LinesOfTasks DEF TasksTypeOK, TypeOK, Line, Reached, Past
  <2>2. \A e \in Judged : e.id \in Nat
    BY EventPipelineAssumption DEF Judged
  <2>3. \A i \in DOMAIN slowq : slowq[i].id \in Nat
    BY <2>1, <2>2
  <2>4. scur # None => scur.ev.id \in Nat
    BY <2>2 DEF TasksTypeOK, Work
  <2> QED
    BY <2>1, <2>3, <2>4
<1>2. ASSUME UNCHANGED <<slowq, scur, Past, Reached>>, AtWork' => AtWork,
             spc' \in {"analyze", "compare"} => spc \in {"analyze", "compare"}
      PROVE  Copied'
  BY <1>2 DEF Copied, Increasing
<1>3. CASE Evaluate
  <2>1. PICK ev \in Line : Call("pipeline", ev) /\ ev.id > Reached
    BY <1>3, EvaluateCalls
  <2>2. Reached' > Reached /\ Past' = Past
    BY <2>1, LinesOfTasks DEF Call, Reached, Past, TypeOK
  <2>3. UNCHANGED <<slowq, scur, spc>> /\ ev.id \in Nat /\ Reached' \in Nat
    BY <1>3, <2>1, LinesOfTasks, LogTypes DEF Evaluate, Line, TypeOK, Reached
  <2> QED
    BY <1>1, <2>2, <2>3 DEF Copied, Increasing
<1>4. CASE Fork
  <2>1. cur \in Judged /\ cur.id = Reached /\ AtWork /\ ~AtWork'
    BY <1>4 DEF Fork, TasksTypeOK, InLine, AtWork
  <2>2. PICK e \in Judged : e = cur
    BY <2>1
  <2>3. UNCHANGED <<scur, spc, Past, Reached>>
    BY <1>4 DEF Fork, logVars, Past, Reached
  <2>4. CASE slowq' = slowq
    BY <2>1, <2>3, <2>4 DEF Copied, Increasing
  <2>5. CASE slowq' = Append(slowq, e)
    <3>1. \A i \in DOMAIN slowq : slowq[i].id < e.id
      BY <2>1, <2>2 DEF Copied
    <3>2. Increasing(slowq)'
      <4>1. Increasing(Append(slowq, e))
        BY <1>1, <3>1, AppendIncreasing DEF Copied
      <4> QED
        BY <2>5, <4>1 DEF Increasing
    <3>3. \A i \in DOMAIN slowq' : \/ i \in DOMAIN slowq /\ slowq'[i] = slowq[i]
                                   \/ i = Len(slowq) + 1 /\ slowq'[i] = e
      BY <1>1, <2>5
    <3>4. e.id = Reached /\ Past < e.id
      BY <2>1, <2>2 DEF Copied
    <3> QED
      BY <1>1, <2>1, <2>3, <3>2, <3>3, <3>4 DEF Copied
  <2> QED
    BY <1>4, <2>2, <2>4, <2>5 DEF Fork
<1>5. CASE SlowRecv
  <2>1. PICK e \in Judged : e = Head(slowq) /\ scur' = [ev |-> e, action |-> e.action]
    BY <1>1, <1>5 DEF SlowRecv
  <2>2. slowq # <<>> /\ slowq' = Tail(slowq) /\ UNCHANGED <<Reached, Past, ppc>>
    BY <1>5 DEF SlowRecv, logVars, Reached, Past
  <2>3. /\ Increasing(Tail(slowq)) /\ 1 \in DOMAIN slowq /\ e = slowq[1]
        /\ \A i \in DOMAIN Tail(slowq) : /\ i + 1 \in DOMAIN slowq /\ Tail(slowq)[i] = slowq[i + 1]
                                         /\ e.id < Tail(slowq)[i].id
    BY <1>1, <2>1, <2>2, TailIncreasing DEF Copied
  <2>4. Increasing(slowq)'
    BY <2>2, <2>3 DEF Increasing
  <2> QED
    BY <1>1, <2>1, <2>2, <2>3, <2>4 DEF Copied, AtWork
<1>6. CASE Analyzed
  <2>1. /\ scur # None /\ scur'.ev = scur.ev /\ spc = "analyze"
        /\ UNCHANGED <<slowq, Past, Reached, ppc>>
    BY <1>6 DEF Analyzed, TasksTypeOK, Work, logVars, Past, Reached
  <2> QED
    BY <2>1 DEF Copied, Increasing, AtWork
<1>7. CASE ChangedByAnalysis
  <2>1. PICK ev \in Line : Call("slow", ev) /\ ev.id = scur.ev.id
    BY <1>7, AnalysisCalls
  <2>2. Past' = scur.ev.id /\ Reached' = Reached
    BY <2>1, LinesOfTasks DEF Call, TypeOK, Past, Reached
  <2>3. scur # None /\ UNCHANGED <<slowq, scur, ppc>> /\ spc' = "record"
    BY <1>7 DEF ChangedByAnalysis, TasksTypeOK
  <2> QED
    BY <1>1, <2>2, <2>3 DEF Copied, Increasing, AtWork
<1>8. CASE UnchangedByAnalysis \/ SlowRecorded
  <2>1. scur' = None /\ UNCHANGED <<slowq, ppc>>
    BY <1>8 DEF UnchangedByAnalysis, SlowRecorded
  <2>2. UNCHANGED <<Past, Reached>>
    BY <1>8, SameEvents, LinesOfTasks DEF UnchangedByAnalysis, SlowRecorded
  <2> QED
    BY <2>1, <2>2 DEF Copied, Increasing, AtWork
<1>9. PipelineRecords \/ PipelineRecorded \/ SlowRecords \/ Write
        => UNCHANGED <<slowq, scur, spc, Past, Reached>> /\ (AtWork' => AtWork)
  <2>1. PipelineRecords \/ PipelineRecorded \/ SlowRecords \/ Write
          => UNCHANGED <<slowq, scur, spc>> /\ (AtWork' => AtWork)
    BY DEF PipelineRecords, PipelineRecorded, SlowRecords, Write, AtWork
  <2> QED
    BY <2>1, SameEvents, LinesOfTasks
       DEF PipelineRecords, PipelineRecorded, SlowRecords, Write
<1>10. ReadEvent \/ SendRaw \/ ReceiverClosed \/ SourceFails \/ OutOfScope \/ ParkSource \/ Advise
         \/ ProviderAnswers \/ Send \/ Stop \/ Reload
         => UNCHANGED <<slowq, scur, spc, Past, Reached>> /\ (AtWork' => AtWork)
  BY DEF ReadEvent, SendRaw, ReceiverClosed, SourceFails, OutOfScope, ParkSource, Advise,
         ProviderAnswers, Send, Stop, Reload, logVars, Past, Reached, AtWork
<1>11. SlowReload \/ SlowRebuilt \/ SlowEnds \/ Show \/ Quit \/ Notify \/ Start \/ UNCHANGED vars
         => /\ UNCHANGED <<slowq, scur, Past, Reached>> /\ (AtWork' => AtWork)
            /\ spc' \in {"analyze", "compare"} => spc \in {"analyze", "compare"}
  BY DEF SlowReload, SlowRebuilt, SlowEnds, Show, Quit, Notify, Start, vars, logVars, Past,
         Reached, AtWork
<1> QED
  BY <1>2, <1>3, <1>4, <1>5, <1>6, <1>7, <1>8, <1>9, <1>10, <1>11 DEF Next, Recv, PipelineRuns

\* What the worker records, and has recorded, the pipeline missed.
LogDivided ==
  /\ Recording("slow") => Past \in Missed
  /\ \A e \in InLog : e.by = "slow" => e.id \in Missed

LEMMA StepLogDivided == OneIncidentInv /\ [Next]_vars => LogDivided'
<1> SUFFICES ASSUME OneIncidentInv, [Next]_vars PROVE LogDivided'
  OBVIOUS
<1> USE DEF OneIncidentInv, LogDivided
<1>1. \A n \in Missed : n \in Missed'
  BY MissedStays
<1>2. CASE Evaluate
  <2>1. rec'["slow"] = rec["slow"]
    BY <1>2, LinesOfTasks DEF Evaluate, Call, PipelineTypeOK, TypeOK
  <2> QED
    BY <1>1, <1>2, <2>1, InLogStep DEF Divided, Recording, Past
<1>3. CASE ChangedByAnalysis
  <2>1. Past' = scur.ev.id
    BY <1>3, AnalysisCalls, LinesOfTasks DEF Call, Past, PipelineTypeOK, TypeOK
  <2>2. scur.ev.id \in Missed
    BY <1>3 DEF ChangedByAnalysis, Divided, PipelineTypeOK, TasksTypeOK
  <2> QED
    BY <1>1, <1>3, <2>1, <2>2, InLogStep DEF Divided
<1>4. CASE UNCHANGED logVars \/ WriterStep
  <2>1. \A e \in {Newline, Torn} : e.by # "slow"
    BY IncidentLogAssumption, LinesOfTasks DEF Newline, Torn
  <2>2. \A e \in InLog' : e \in InLog \/ e \in {Newline, Torn}
    BY <1>4, InLogStep
  <2> QED
    BY <1>1, <1>4, <2>1, <2>2, SameEvents, LinesOfTasks DEF Divided
<1>5. ASSUME NEW r \in Recorder, RecordStep(r) \/ Return(r) PROVE LogDivided'
  <2>1. PICK line : line = rec[r].ev
    OBVIOUS
  <2>2. line.by = r /\ (r = "slow" => line.id = Past)
    BY <2>1 DEF Ordered, Past
  <2>3. \A e \in InLog' : e \in InLog \/ (e = line /\ Recording(r))
    BY <1>5, <2>1, InLogStep DEF Recording
  <2> QED
    BY <1>1, <1>5, <2>2, <2>3, SameEvents, LinesOfTasks DEF Divided
<1> QED
  BY <1>2, <1>3, <1>4, <1>5, LogStep

\* What the pipeline judges and does not record is missed from then on.
LEMMA NoIncidentIsMissed ==
  ASSUME OneIncidentInv, Evaluate, ~Incident(cur)'
  PROVE  cur'.id \in Missed'
<1> USE DEF OneIncidentInv
<1>1. PICK ev \in Line : /\ Call("pipeline", ev) /\ ev.id > Reached
                         /\ ~Incident(ev) /\ cur'.id = ev.id
  BY EvaluateCalls
<1>2. Reached' = ev.id /\ ~Recording("pipeline")' /\ ev.id \in Nat /\ Reached \in Nat
  BY <1>1, LinesOfTasks DEF Call, Reached, Recording, PipelineTypeOK, TypeOK, Line
<1>3. InLog' = InLog
  BY InLogStep
<1>4. ASSUME NEW e \in InLog, e.by = "pipeline" PROVE e.id # ev.id
  <2>1. e.id <= Reached
    BY <1>4, LinesOfTasks DEF InLog, Ordered, Precedes, Reached
  <2>2. e.id \in Nat
    <3>1. e \in Line \cup {Newline, Torn}
      BY DEF InLog, PipelineTypeOK, TypeOK
    <3> QED
      BY <3>1 DEF Line, Newline, Torn
  <2> QED
    BY <1>1, <1>2, <2>1, <2>2
<1> QED
  BY <1>1, <1>2, <1>3, <1>4 DEF Missed

LEMMA StepDivided == OneIncidentInv /\ [Next]_vars => Divided'
<1> SUFFICES ASSUME OneIncidentInv, [Next]_vars
             PROVE  /\ cur' # None /\ ~Incident(cur)' => cur'.id \in Missed'
                    /\ \A i \in DOMAIN slowq' : ~Incident(slowq[i])' => slowq'[i].id \in Missed'
                    /\ scur' # None => /\ ~Incident(scur.ev)' => scur'.ev.id \in Missed'
                                       /\ scur'.action # scur'.ev.action => ~Incident(scur.ev)'
  BY StepLogDivided DEF Divided, LogDivided
<1> USE DEF OneIncidentInv, PipelineTypeOK, Goto, srcVars, pipeVars, slowVars, tuiVars
<1>1. \A n \in Missed : n \in Missed'
  BY MissedStays
<1>2. CASE UNCHANGED <<slowq, scur>> /\ cur' \in {None, cur}
  BY <1>1, <1>2 DEF Divided, Incident
<1>3. CASE Evaluate
  BY <1>1, <1>3, NoIncidentIsMissed DEF Evaluate, Divided, Incident
<1>4. CASE Fork
  <2>1. PICK e \in Judged : e = cur /\ e # None
    BY <1>4 DEF Fork, TasksTypeOK
  <2>2. \A i \in DOMAIN slowq' : \/ i \in DOMAIN slowq /\ slowq'[i] = slowq[i]
                                 \/ i = Len(slowq) + 1 /\ slowq'[i] = e
    BY <1>4, <2>1 DEF Fork, TasksTypeOK
  <2> QED
    BY <1>1, <1>4, <2>1, <2>2 DEF Fork, Divided, Incident
<1>5. CASE SlowRecv
  <2>1. /\ scur'.ev = slowq[1] /\ scur'.action = slowq[1].action /\ 1 \in DOMAIN slowq
        /\ \A i \in DOMAIN slowq' : i + 1 \in DOMAIN slowq /\ slowq'[i] = slowq[i + 1]
    BY <1>5 DEF SlowRecv, TasksTypeOK
  <2> QED
    BY <1>1, <1>5, <2>1 DEF SlowRecv, Divided, Incident
<1>6. CASE Analyzed
  <2>1. scur \in Work /\ scur # None
    BY <1>6 DEF Analyzed, TasksTypeOK
  <2>2. PICK anomaly \in BOOLEAN :
               scur'.ev = scur.ev /\ scur'.action = Escalates(scur.action, anomaly)
    BY <1>6, <2>1 DEF Analyzed, Work
  <2>3. scur'.action # scur.ev.action => ~Incident(scur.ev)
    BY <2>1, <2>2 DEF Escalates, Divided, Incident
  <2> QED
    BY <1>1, <1>6, <2>1, <2>2, <2>3 DEF Analyzed, Divided, Incident
<1>7. CASE scur' = None /\ UNCHANGED <<cur, slowq>>
  BY <1>1, <1>7 DEF Divided, Incident
<1>8. ReadEvent \/ SendRaw \/ ReceiverClosed \/ SourceFails \/ OutOfScope \/ ParkSource
        \/ PipelineRecords \/ PipelineRecorded \/ Advise \/ ProviderAnswers \/ Send \/ Stop
        \/ Reload
        => UNCHANGED <<slowq, scur>> /\ cur' \in {None, cur}
  BY DEF ReadEvent, SendRaw, ReceiverClosed, SourceFails, OutOfScope, ParkSource,
         PipelineRecords, PipelineRecorded, Advise, ProviderAnswers, Send, Stop, Reload
<1>9. ChangedByAnalysis \/ SlowRecords \/ SlowReload \/ SlowRebuilt \/ SlowEnds \/ Show \/ Quit
        \/ Notify \/ Write \/ Start \/ UNCHANGED vars
        => UNCHANGED <<slowq, scur>> /\ cur' \in {None, cur}
  BY DEF ChangedByAnalysis, SlowRecords, SlowReload, SlowRebuilt, SlowEnds, Show, Quit, Notify,
         Write, Start, vars
<1>10. UnchangedByAnalysis \/ SlowRecorded => scur' = None /\ UNCHANGED <<cur, slowq>>
  BY DEF UnchangedByAnalysis, SlowRecorded
<1> QED
  BY <1>2, <1>3, <1>4, <1>5, <1>6, <1>7, <1>8, <1>9, <1>10 DEF Next, Recv, PipelineRuns

LEMMA InvSuffices == OneIncidentInv => OneIncidentPerEvent
<1> SUFFICES ASSUME OneIncidentInv, NEW i \in DOMAIN Trail, NEW j \in DOMAIN Trail, i # j,
                    Trail[i].by \in Recorder, Trail[j].by \in Recorder
             PROVE  Trail[i].id # Trail[j].id
  BY DEF OneIncidentPerEvent
<1> USE DEF OneIncidentInv, PipelineTypeOK
<1>1. \A n \in DOMAIN Trail : Trail[n] \in InLog /\ n \in Int
  <2> SUFFICES ASSUME NEW n \in DOMAIN Trail PROVE Trail[n] \in InLog /\ n \in Int
    OBVIOUS
  <2>1. PICK e : e = Trail[n]
    OBVIOUS
  <2>2. \/ n \in DOMAIN file /\ e = file[n]
        \/ held # None /\ n = Len(file) + 1 /\ e = held
        \/ \E k \in DOMAIN queue : e = queue[k]
    BY <2>1, TrailElement
  <2>3. n \in Int
    BY DEF Trail
  <2> QED
    BY <2>1, <2>2, <2>3 DEF InLog
<1>2. CASE Trail[i].by = Trail[j].by
  <2>1. /\ i < j => Trail[i].id < Trail[j].id
        /\ j < i => Trail[j].id < Trail[i].id
    BY <1>2, OrderedSuffices DEF LogInOrder
  <2>2. \A e \in InLog : e.id \in Nat
    <3>1. \A e \in InLog : e \in Line \cup {Newline, Torn}
      BY DEF InLog, TypeOK
    <3> QED
      BY <3>1 DEF Line, Newline, Torn
  <2> QED
    BY <1>1, <2>1, <2>2
<1>3. ASSUME NEW e \in InLog, NEW f \in InLog, e.by = "pipeline", f.by = "slow"
      PROVE  e.id # f.id
  BY <1>3 DEF Divided, Missed
<1> QED
  BY <1>1, <1>2, <1>3, EventPipelineAssumption

\* An event makes at most one incident in the log, although the pipeline and the
\* worker both record and neither waits for the other (main.rs:290-374, 407-435).
THEOREM AtMostOneIncident == PipelineSpec => []OneIncidentPerEvent
<1>1. OneIncidentInv /\ [Next]_vars => OneIncidentInv'
  BY StepTypes, LogStaysOrdered, StepInLine, StepCopied, StepDivided DEF OneIncidentInv
<1> QED
  BY InitOneIncident, <1>1, InvSuffices, PTL DEF PipelineSpec

=============================================================================
