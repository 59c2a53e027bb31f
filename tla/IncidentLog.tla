----------------------------- MODULE IncidentLog -----------------------------
(***************************************************************************)
(* The incident log (incident.rs): tasks call record, which takes a mutex  *)
(* without waiting and puts a line into a bounded channel without waiting; *)
(* a writer task appends the lines to a file.  Two tasks of the daemon     *)
(* share the logger, on a multi-threaded runtime, so a call of record can  *)
(* find the mutex taken.                                                   *)
(*                                                                         *)
(* A line stands for the event it was made from.  Serialising a record     *)
(* cannot fail for the fields it has and is left out.                      *)
(***************************************************************************)
EXTENDS Naturals, Sequences, FiniteSets, SequencesExt

CONSTANTS
  Recorder,   \* tasks that call record
  QueueCap,   \* capacity of the channel
  Verdicts,   \* actions that the recorded events have
  MaxCalls,   \* bound: calls of record by each task
  None

Action == {"Allowed", "Logged", "Blocked", "Killed", "Alerted"}

\* A line of the log: which event of which task, and its action.
Line == [id : Nat, by : Recorder, action : Action]

ASSUME IncidentLogAssumption ==
  /\ None \notin Recorder \cup Line /\ "writer" \notin Recorder
  /\ Verdicts \subseteq Action
  /\ QueueCap \in Nat \ {0} /\ MaxCalls \in Nat \ {0}

\* The actions that record lets through.
Incident(ev) == ev.action \in {"Blocked", "Alerted", "Killed"}

VARIABLES
  rec,     \* rec[r]: r's call of record: where it is, its event, its result
  guard,   \* the task that holds the mutex around tx, or None
  queue,   \* the channel
  writer,  \* the writer task
  held,    \* the line it is writing
  file     \* what it has written: events, newlines and torn lines

logVars == <<rec, guard, queue, writer, held, file>>

Newline == [id |-> 0, by |-> "writer", action |-> "newline"]
Torn    == [id |-> 0, by |-> "writer", action |-> "torn"]

InitLog ==
  /\ rec = [r \in Recorder |->
              [pc |-> "idle", ev |-> [id |-> 0, by |-> r, action |-> "Allowed"],
               result |-> FALSE]]
  /\ guard = None /\ queue = <<>>
  /\ writer = "opening" /\ held = None /\ file = <<>>

(***************************************************************************)
(* record.  Nothing in it waits.                                           *)
(***************************************************************************)
Call(r, ev) ==
  /\ rec[r].pc = "idle"
  /\ rec' = [rec EXCEPT ![r] =
               [pc |-> IF Incident(ev) THEN "try_lock" ELSE "done",
                ev |-> ev, result |-> FALSE]]
  /\ UNCHANGED <<guard, queue, writer, held, file>>

TryLock(r) ==
  /\ rec[r].pc = "try_lock" /\ guard = None
  /\ guard' = r
  /\ rec' = [rec EXCEPT ![r].pc = "try_send"]
  /\ UNCHANGED <<queue, writer, held, file>>

\* try_lock failed, and record returns true all the same
LockBusy(r) ==
  /\ rec[r].pc = "try_lock" /\ guard # None
  /\ rec' = [rec EXCEPT ![r].pc = "done", ![r].result = TRUE]
  /\ UNCHANGED <<guard, queue, writer, held, file>>

\* Slip: the line goes to the front of the queue.
TrySendFirst(r) ==
  /\ rec[r].pc = "try_send" /\ guard' = None
  /\ writer # "gone" /\ Len(queue) < QueueCap
  /\ queue' = <<rec[r].ev>> \o queue
  /\ rec' = [rec EXCEPT ![r].pc = "done", ![r].result = TRUE]
  /\ UNCHANGED <<writer, held, file>>

TrySend(r) ==
  /\ rec[r].pc = "try_send" /\ guard' = None
  /\ writer # "gone" /\ Len(queue) < QueueCap
  /\ queue' = Append(queue, rec[r].ev)
  /\ rec' = [rec EXCEPT ![r].pc = "done", ![r].result = TRUE]
  /\ UNCHANGED <<writer, held, file>>

\* Slip: a full channel is waited for.
SendRefusedWhenGone(r) ==
  /\ rec[r].pc = "try_send" /\ guard' = None
  /\ writer = "gone"
  /\ rec' = [rec EXCEPT ![r].pc = "done"]
  /\ UNCHANGED <<queue, writer, held, file>>

\* The channel is full, or the writer task is gone and its receiver with it.
SendRefused(r) ==
  /\ rec[r].pc = "try_send" /\ guard' = None
  /\ writer = "gone" \/ Len(queue) >= QueueCap
  /\ rec' = [rec EXCEPT ![r].pc = "done"]
  /\ UNCHANGED <<queue, writer, held, file>>

Return(r) ==
  /\ rec[r].pc = "done"
  /\ rec' = [rec EXCEPT ![r].pc = "idle"]
  /\ UNCHANGED <<guard, queue, writer, held, file>>

RecordStep(r) == TryLock(r) \/ LockBusy(r) \/ TrySend(r) \/ SendRefused(r)

(***************************************************************************)
(* writer_task                                                             *)
(***************************************************************************)
Open ==
  /\ writer = "opening"
  /\ writer' \in {"ready", "gone"}
  /\ queue' = IF writer' = "gone" THEN <<>> ELSE queue
  /\ UNCHANGED <<rec, guard, held, file>>

\* Slip: lines wait until the channel is full.
TakeLineWhenFull ==
  /\ writer = "ready" /\ Len(queue) = QueueCap
  /\ writer' = "writing"
  /\ held' = Head(queue) /\ queue' = Tail(queue)
  /\ UNCHANGED <<rec, guard, file>>

TakeLine ==
  /\ writer = "ready" /\ queue # <<>>
  /\ writer' = "writing"
  /\ held' = Head(queue) /\ queue' = Tail(queue)
  /\ UNCHANGED <<rec, guard, file>>

WriteLine ==
  /\ writer = "writing"
  /\ writer' = "ending"
  /\ file' = Append(file, held) /\ held' = None
  /\ UNCHANGED <<rec, guard, queue>>

\* The next line is taken; some bytes may have been written.
WriteFails ==
  /\ writer = "writing"
  /\ writer' = "ready"
  /\ file' \in {file, Append(file, Torn)} /\ held' = None
  /\ UNCHANGED <<rec, guard, queue>>

\* The result of writing the newline is ignored.
WriteNewline ==
  /\ writer = "ending"
  /\ writer' = "ready"
  /\ file' \in {file, Append(file, Newline)}
  /\ UNCHANGED <<rec, guard, queue, held>>

WriterStep == Open \/ TakeLine \/ WriteLine \/ WriteFails \/ WriteNewline

-----------------------------------------------------------------------------
(***************************************************************************)
(* The log on its own: every recorder makes up to MaxCalls calls.          *)
(***************************************************************************)
NextCall(r) ==
  \E a \in Verdicts : LET n == rec[r].ev.id + 1
                      IN  n <= MaxCalls /\ Call(r, [id |-> n, by |-> r, action |-> a])

NextLog ==
  \/ \E r \in Recorder : NextCall(r) \/ RecordStep(r) \/ Return(r)
  \/ WriterStep

Spec == InitLog /\ [][NextLog]_logVars

\* Tasks in record are scheduled.  Nothing is assumed of the writer.
FairRecorders == \A r \in Recorder : WF_logVars(RecordStep(r))

\* The disk answers, if not always with success.
FairWriter == WF_logVars(WriterStep)

FairSpec == Spec /\ FairRecorders

-----------------------------------------------------------------------------
TypeOK ==
  /\ rec \in [Recorder -> [pc : {"idle", "try_lock", "try_send", "done"},
                           ev : Line, result : BOOLEAN]]
  /\ guard \in Recorder \cup {None}
  /\ \A r \in Recorder : guard = r <=> rec[r].pc = "try_send"
  /\ queue \in Seq(Line) /\ Len(queue) <= QueueCap
  /\ writer \in {"opening", "ready", "writing", "ending", "gone"}
  /\ held \in Line \cup {None} /\ (held # None <=> writer = "writing")
  /\ file \in Seq(Line \cup {Newline, Torn})

\* Everything record accepted and has not been lost since, oldest first.
Trail == file \o (IF held = None THEN <<>> ELSE <<held>>) \o queue

\* Each task's incidents are in the log in the order it recorded them, none of
\* them twice, in whatever way two tasks and the writer interleave.
LogInOrder ==
  \A i, j \in DOMAIN Trail :
    i < j /\ Trail[i].by = Trail[j].by /\ Trail[i].by \in Recorder
      => Trail[i].id < Trail[j].id

\* incident.rs:25, writes go through a channel "so callers never block on disk
\* I/O": every call returns although the writer may stall for ever.
RecordReturns ==
  \A r \in Recorder : rec[r].pc \in {"try_lock", "try_send"} ~> rec[r].pc = "done"

\* A queued line does not stay behind if the disk answers, however few lines
\* follow it: the writer takes it, or drops it for want of a file.
Queued(r, n) == \E i \in DOMAIN queue : queue[i].by = r /\ queue[i].id = n
QueueDrains ==
  FairWriter =>
    \A r \in Recorder, n \in 1..MaxCalls : Queued(r, n) ~> ~Queued(r, n)

=============================================================================
