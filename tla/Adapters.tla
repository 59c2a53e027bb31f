------------------------------ MODULE Adapters ------------------------------
(***************************************************************************)
(* The sources of events other than eBPF (adapter/): Tetragon's gRPC       *)
(* stream, and the log files of Falco and of auditd, which are read as     *)
(* they grow.  A task asks its adapter for one event after the other and   *)
(* sends each to the pipeline.                                             *)
(*                                                                         *)
(* A record is what the source reports of one call: a response of the      *)
(* stream, or a line of the log, which its writer writes at once or in two *)
(* parts.  A file is a sequence of such parts.                             *)
(***************************************************************************)
EXTENDS Integers, Sequences, SequencesExt

CONSTANTS
  Calls,      \* what records are about, a subset of AllCalls
  ChanCap,    \* capacity of the channel to the pipeline
  MaxRecords, \* bound: records
  MaxConns,   \* bound: connections to Tetragon
  MaxFiles,   \* bound: log files, the first and those it is rotated to
  None

\* "noise" is a record that is no event: an auditd record that is not SYSCALL, a
\* line that is not JSON, a response without a process.
AllCalls == {"exec", "open", "connect", "setuid", "exit", "noise"}

EventType == {"Exec", "FileAccess", "Network", "Privilege", "Signal"}

Backend == {"tetragon", "falco", "auditd"}

Event == [rec : Nat, type : EventType, conn : Nat]

Position == [file : Nat, pos : Nat]

ASSUME AdaptersAssumption ==
  /\ Calls \subseteq AllCalls
  /\ {ChanCap, MaxRecords, MaxConns, MaxFiles} \subseteq Nat \ {0}
  /\ None \notin EventType /\ None \notin Event /\ None \notin Position

VARIABLES
  backend,   \* config.adapter.backend, at the start
  pc,        \* where the task is
  held,      \* the event it is about to send, or None
  buffer,    \* TetragonAdapter.buffer
  files,     \* the log and what it was rotated to, the latest last
  exists,    \* there is a file at log_path
  reader,    \* [file, pos]: the open file and how far it is read, or None
  queued,    \* events in the channel
  closed,    \* the pipeline has ended
  conn,      \* history: connections to Tetragon so far
  made,      \* history: records so far
  received,  \* history: events of the responses
  start,     \* history: where in the file the reader began
  sent,      \* history: events sent, in order
  dropped    \* history: records whose line an error of read_line dropped

logVars == <<files, exists>>
history == <<conn, made, received, start, sent, dropped>>
vars == <<backend, pc, held, buffer, logVars, reader, queued, closed, history>>

Init ==
  /\ backend \in Backend
  /\ pc = "next" /\ held = None /\ buffer = <<>>
  /\ files = << <<>> >> /\ exists \in BOOLEAN /\ reader = None
  /\ queued = 0 /\ closed = FALSE
  /\ conn = 0 /\ made = 0 /\ received = {} /\ start = 0 /\ sent = <<>>
  /\ dropped = {}

-----------------------------------------------------------------------------
(***************************************************************************)
(* Conversions                                                             *)
(***************************************************************************)
Plain == [exec |-> "Exec", open |-> "FileAccess", connect |-> "Network"]

\* What a call is not known as.
Otherwise ==
  [tetragon |-> [setuid |-> "Privilege", exit |-> "Signal", noise |-> None],
   falco    |-> [setuid |-> "Exec", exit |-> "Exec", noise |-> None],
   auditd   |-> [setuid |-> "Privilege", exit |-> "Privilege", noise |-> None]]

Convert(call) ==
  IF call \in DOMAIN Plain THEN Plain[call] ELSE Otherwise[backend][call]

EventOf(rec, type) == [rec |-> rec, type |-> type, conn |-> conn]

-----------------------------------------------------------------------------
(***************************************************************************)
(* adapter::run                                                            *)
(***************************************************************************)
Send ==
  /\ pc = "send" /\ ~closed /\ queued < ChanCap
  /\ queued' = queued + 1 /\ sent' = Append(sent, held)
  /\ pc' = "next" /\ held' = None
  /\ UNCHANGED <<backend, buffer, logVars, reader, closed, conn, made, received, start,
                 dropped>>

\* The receiver is closed.
SendFails ==
  /\ pc = "send" /\ closed
  /\ pc' = "stopped" /\ held' = None
  /\ UNCHANGED <<backend, buffer, logVars, reader, queued, closed, history>>

\* After an error the task sleeps and asks again.
Resume ==
  /\ pc = "pause" /\ pc' = "next"
  /\ UNCHANGED <<backend, held, buffer, logVars, reader, queued, closed, history>>

-----------------------------------------------------------------------------
(***************************************************************************)
(* TetragonAdapter                                                         *)
(***************************************************************************)
\* next_event: the youngest of the buffer is the next.
Pop ==
  /\ backend = "tetragon" /\ pc = "next" /\ buffer # <<>>
  /\ held' = Last(buffer) /\ buffer' = Front(buffer) /\ pc' = "send"
  /\ UNCHANGED <<backend, logVars, reader, queued, closed, history>>

Connect ==
  /\ backend = "tetragon" /\ pc = "next" /\ buffer = <<>>
  /\ conn < MaxConns /\ conn' = conn + 1
  /\ pc' = "stream"
  /\ UNCHANGED <<backend, held, buffer, logVars, reader, queued, closed, made, received,
                 start, sent, dropped>>

ConnectFails ==
  /\ backend = "tetragon" /\ pc = "next" /\ buffer = <<>>
  /\ pc' = "pause"
  /\ UNCHANGED <<backend, held, buffer, logVars, reader, queued, closed, history>>

\* connect_and_stream goes on while responses come, and sends none of them.
Response(call) ==
  /\ pc = "stream" /\ made < MaxRecords /\ made' = made + 1
  /\ LET type == Convert(call)
         e == EventOf(made + 1, type)
     IN  /\ buffer' = IF type = None THEN buffer ELSE Append(buffer, e)
         /\ received' = IF type = None THEN received ELSE received \cup {e}
  /\ UNCHANGED <<backend, pc, held, logVars, reader, queued, closed, conn, start, sent,
                 dropped>>

StreamEnds ==
  /\ pc = "stream" /\ pc' = "next"
  /\ UNCHANGED <<backend, held, buffer, logVars, reader, queued, closed, history>>

\* Slip: what came before an error is dropped with the connection.
StreamFailsDropping ==
  /\ pc = "stream" /\ pc' = "pause" /\ buffer' = <<>>
  /\ UNCHANGED <<backend, held, logVars, reader, queued, closed, history>>

StreamFails ==
  /\ pc = "stream" /\ pc' = "pause"
  /\ UNCHANGED <<backend, held, buffer, logVars, reader, queued, closed, history>>

-----------------------------------------------------------------------------
(***************************************************************************)
(* FalcoAdapter, AuditdAdapter                                             *)
(***************************************************************************)
IsLog == backend # "tetragon"

\* ensure_reader: only what is logged from now on is read.
Open ==
  /\ IsLog /\ pc = "next" /\ reader = None /\ exists
  /\ start' = Len(Last(files))
  /\ reader' = [file |-> Len(files), pos |-> start']
  /\ UNCHANGED <<backend, pc, held, buffer, logVars, queued, closed, conn, made, received,
                 sent, dropped>>

OpenFails ==
  /\ IsLog /\ pc = "next" /\ reader = None /\ ~exists
  /\ pc' = "pause"
  /\ UNCHANGED <<backend, held, buffer, logVars, reader, queued, closed, history>>

Unread == SubSeq(files[reader.file], reader.pos + 1, Len(files[reader.file]))

\* read_line: up to a newline, or as far as there is text.
LineLen == IF Unread[1].part = "head" /\ Len(Unread) > 1 THEN 2 ELSE 1

\* What a line that is cut off at the end of the file can be taken for: the
\* event if only the newline is missing, nothing, and by auditd a system call
\* without a number or with its first digits: accept4 and exit_group begin like
\* open.
CutOff(call) ==
  {None, Convert(call)}
    \cup (IF backend = "auditd" /\ call # "noise" THEN {"Privilege"} ELSE {})
    \cup (IF backend = "auditd" /\ call \in {"connect", "exit"} THEN {"FileAccess"} ELSE {})

\* parse_falco_json, parse_auditd_syscall: the rest of a line is no event.
Parsed ==
  CASE Unread[1].part = "rest" -> {None}
    [] Unread[1].part = "whole" \/ LineLen = 2 -> {Convert(Unread[1].call)}
    [] OTHER -> CutOff(Unread[1].call)

Take(type, len) ==
  /\ reader' = [reader EXCEPT !.pos = @ + len]
  /\ IF type = None THEN UNCHANGED <<pc, held>>
     ELSE pc' = "send" /\ held' = EventOf(Unread[1].rec, type)
  /\ UNCHANGED <<backend, buffer, logVars, queued, closed, history>>

\* Slip: a line that is cut off is read again when the rest of it is there.
ReadAgain ==
  /\ IsLog /\ pc = "next" /\ reader # None /\ Unread # <<>>
  /\ \E type \in Parsed :
       Take(type, IF LineLen = 1 /\ Unread[1].part = "head" THEN 0 ELSE LineLen)

\* Slip: the end of the file is taken for the end of the events.
ReadToEnd ==
  /\ IsLog /\ pc = "next" /\ reader # None
  /\ \/ Unread # <<>> /\ \E type \in Parsed : Take(type, LineLen)
     \/ /\ Unread = <<>> /\ pc' = "stopped"
        /\ UNCHANGED <<backend, held, buffer, logVars, reader, queued, closed, history>>

\* At the end of the file the adapter waits for more.
Read ==
  /\ IsLog /\ pc = "next" /\ reader # None /\ Unread # <<>>
  /\ \E type \in Parsed : Take(type, LineLen)

\* An error of read_line, with nothing read.
ReadFails ==
  /\ IsLog /\ pc = "next" /\ reader # None
  /\ pc' = "pause"
  /\ UNCHANGED <<backend, held, buffer, logVars, reader, queued, closed, history>>

\* An error within a line, or a line that is not UTF-8: what has been read of it
\* is dropped with the String it was read to, and the remainder makes no event.
ReadFailsInLine ==
  /\ IsLog /\ pc = "next" /\ reader # None /\ Unread # <<>>
  /\ pc' = "pause"
  /\ \E len \in 1..LineLen : reader' = [reader EXCEPT !.pos = @ + len]
  /\ dropped' = dropped \cup {Unread[1].rec}
  /\ UNCHANGED <<backend, held, buffer, logVars, queued, closed, conn, made, received, start,
                 sent>>

-----------------------------------------------------------------------------
(***************************************************************************)
(* The writer of the log, and the pipeline                                 *)
(***************************************************************************)
Piece(rec, part, call) == [rec |-> rec, part |-> part, call |-> call]

Unfinished == Last(files) # <<>> /\ Last(Last(files)).part = "head"

AppendPiece(p) ==
  /\ files' = [files EXCEPT ![Len(files)] = Append(@, p)]
  /\ UNCHANGED <<backend, pc, held, buffer, exists, reader, queued, closed, conn, received,
                 start, sent, dropped>>

Log(call, part) ==
  /\ IsLog /\ exists /\ ~Unfinished /\ made < MaxRecords
  /\ made' = made + 1 /\ AppendPiece(Piece(made + 1, part, call))

LogRest ==
  /\ IsLog /\ Unfinished /\ UNCHANGED made
  /\ AppendPiece(Piece(made, "rest", Last(Last(files)).call))

CreateLog ==
  /\ IsLog /\ ~exists /\ exists' = TRUE
  /\ UNCHANGED <<backend, pc, held, buffer, files, reader, queued, closed, history>>

\* The file is renamed and a new one takes its place; the reader keeps the old.
Rotate ==
  /\ IsLog /\ exists /\ ~Unfinished /\ Len(files) < MaxFiles
  /\ files' = Append(files, <<>>)
  /\ UNCHANGED <<backend, pc, held, buffer, exists, reader, queued, closed, history>>

Consume ==
  /\ queued > 0 /\ ~closed /\ queued' = queued - 1
  /\ UNCHANGED <<backend, pc, held, buffer, logVars, reader, closed, history>>

Close ==
  /\ ~closed /\ closed' = TRUE
  /\ UNCHANGED <<backend, pc, held, buffer, logVars, reader, queued, history>>

Next ==
  \/ Send \/ SendFails \/ Resume
  \/ Pop \/ Connect \/ ConnectFails \/ (\E c \in Calls : Response(c))
  \/ StreamEnds \/ StreamFails
  \/ Open \/ OpenFails \/ Read \/ ReadFails \/ ReadFailsInLine
  \/ \E c \in Calls, part \in {"whole", "head"} : Log(c, part)
  \/ LogRest \/ CreateLog \/ Rotate \/ Consume \/ Close

\* The task runs, the pipeline takes events while it is there, and the file can
\* be read again after it could not.  Nothing makes Tetragon answer or end.
Fairness ==
  /\ WF_vars(Send) /\ WF_vars(Resume) /\ WF_vars(Pop) /\ WF_vars(Open)
  /\ SF_vars(Read) /\ WF_vars(Consume)

Spec == Init /\ [][Next]_vars /\ Fairness

-----------------------------------------------------------------------------
\* No record makes two events.  A log's events are sent in the order of its
\* records, and Tetragon's connection after connection: what TetragonAdapter
\* sends backwards is what one connection brought (tetragon.rs:89).
OncePerRecord ==
  \A i, j \in DOMAIN sent : i < j =>
    /\ sent[i].rec # sent[j].rec
    /\ IF IsLog THEN sent[i].rec < sent[j].rec ELSE sent[i].conn <= sent[j].conn

\* Events that must be on their way: those received, and those of lines that were
\* written at once and that the reader has passed, not dropped.
Due ==
  IF IsLog
  THEN IF reader = None THEN {}
       ELSE LET at(i) == files[reader.file][i]
            IN  {EventOf(at(i).rec, Convert(at(i).call)) :
                   i \in {k \in (start + 1)..reader.pos :
                            /\ at(k).part = "whole" /\ at(k).call # "noise"
                            /\ at(k).rec \notin dropped}}
  ELSE received

\* No event is lost between its source and the channel, or changed: it is in the
\* buffer, about to be sent, or sent; not even if the stream breaks off.  A line is
\* lost only if it is written in two parts or read_line fails on it; what a log's
\* reader has not read when the file is rotated it still reads.
NothingIsLost ==
  pc # "stopped" => Due \subseteq ToSet(buffer) \cup {held} \cup ToSet(sent)

Sent(r) == \E i \in DOMAIN sent : sent[i].rec = r

Readable(r) ==
  /\ reader # None
  /\ \E i \in (start + 1)..Len(files[reader.file]) :
       LET p == files[reader.file][i]
       IN  p.rec = r /\ p.part = "whole" /\ p.call # "noise"

\* What is logged at once to the file the reader has open is sent in the end, or
\* read_line has failed on its own line: errors on other lines do not keep it.
\* What Tetragon reports is sent if its streams end.
ReportedArrives ==
  []~closed =>
    \A r \in 1..MaxRecords :
      /\ Readable(r) ~> (Sent(r) \/ r \in dropped)
      /\ []<>(pc # "stream") => ((\E e \in received : e.rec = r) ~> Sent(r))

=============================================================================
