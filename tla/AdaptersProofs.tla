--------------------------- MODULE AdaptersProofs ---------------------------
(***************************************************************************)
(* Proofs about Adapters, for any number of records, connections and log   *)
(* files: no record makes two events, no event overtakes another that must *)
(* come before it, and none is lost between its source and the channel.    *)
(***************************************************************************)
EXTENDS Adapters, SequenceTheorems, TLAPS

-----------------------------------------------------------------------------
(***************************************************************************)
(* Types                                                                   *)
(***************************************************************************)
Pieces == [rec : Nat, part : {"whole", "head", "rest"}, call : Calls]

TaskTypes ==
  /\ backend \in Backend
  /\ pc \in {"next", "send", "pause", "stream", "stopped"}
  /\ held \in Event \cup {None} /\ (held # None <=> pc = "send")
  /\ conn \in Nat /\ made \in Nat /\ queued \in Nat /\ closed \in BOOLEAN

EventTypes ==
  /\ buffer \in Seq(Event) /\ sent \in Seq(Event) /\ received \subseteq Event

LogTypes ==
  /\ files \in Seq(Seq(Pieces)) /\ files # <<>> /\ exists \in BOOLEAN
  /\ start \in Nat /\ reader \in Position \cup {None}

\* The reader is in one of the files, and not before where it began.
ReaderInFile ==
  reader # None => /\ reader.file \in DOMAIN files
                   /\ start <= reader.pos /\ reader.pos <= Len(files[reader.file])

\* What belongs to the other backends is not used.
OneBackend ==
  IF IsLog THEN buffer = <<>> /\ received = {} /\ conn = 0 /\ pc # "stream"
  ELSE reader = None

TypeOK == TaskTypes /\ EventTypes /\ LogTypes /\ ReaderInFile /\ OneBackend

-----------------------------------------------------------------------------
(***************************************************************************)
(* The inductive invariant                                                 *)
(***************************************************************************)
Made == /\ \A i \in DOMAIN buffer : buffer[i].rec <= made
        /\ \A i \in DOMAIN sent : sent[i].rec <= made
        /\ held # None => held.rec <= made

\* The buffer, the event about to be sent and those sent have no record in common.
Apart ==
  /\ \A i, j \in DOMAIN buffer : i < j => buffer[i].rec # buffer[j].rec
  /\ \A i, j \in DOMAIN sent : i < j => sent[i].rec # sent[j].rec
  /\ \A i \in DOMAIN buffer, j \in DOMAIN sent : buffer[i].rec # sent[j].rec
  /\ held # None => /\ \A i \in DOMAIN buffer : buffer[i].rec # held.rec
                    /\ \A j \in DOMAIN sent : sent[j].rec # held.rec

\* What is not sent yet is of the current connection.
ByConnection ==
  ~IsLog => /\ \A i \in DOMAIN buffer : buffer[i].conn = conn
            /\ held # None => held.conn = conn
            /\ \A i \in DOMAIN sent : sent[i].conn <= conn
            /\ \A i, j \in DOMAIN sent : i < j => sent[i].conn <= sent[j].conn

\* The lines of a file are in order, and one that was written in two parts is
\* followed by its rest.
Lines(f) ==
  /\ \A i \in DOMAIN f : f[i].rec <= made
  /\ \A i, j \in DOMAIN f :
       i < j /\ f[i].part # "rest" /\ f[j].part # "rest" => f[i].rec < f[j].rec
  /\ \A i \in DOMAIN f : f[i].part = "head" /\ i < Len(f) => f[i + 1].part = "rest"

LinesInOrder == \A n \in DOMAIN files : Lines(files[n])

\* No line the reader has still to read is older than one it has read.
Ahead(rec) ==
  \A k \in DOMAIN files[reader.file] :
    k > reader.pos /\ files[reader.file][k].part # "rest" => rec < files[reader.file][k].rec

InLogOrder ==
  IsLog =>
    /\ reader = None => sent = <<>> /\ held = None
    /\ reader # None => /\ \A i \in DOMAIN sent : Ahead(sent[i].rec)
                        /\ held # None => Ahead(held.rec)
    /\ \A i, j \in DOMAIN sent : i < j => sent[i].rec < sent[j].rec
    /\ held # None => \A i \in DOMAIN sent : sent[i].rec < held.rec

IInv == /\ TypeOK /\ Made /\ Apart /\ ByConnection /\ LinesInOrder /\ InLogOrder
        /\ NothingIsLost

-----------------------------------------------------------------------------
(***************************************************************************)
(* Sequences                                                               *)
(***************************************************************************)
LEMMA ElementAt ==
  ASSUME NEW S, NEW s \in Seq(S), NEW i \in DOMAIN s
  PROVE  s[i] \in S
  BY LenProperties, ElementOfSeq

LEMMA AppendAt ==
  ASSUME NEW S, NEW s \in Seq(S), NEW e \in S
  PROVE  /\ Append(s, e) \in Seq(S)
         /\ \A i \in DOMAIN Append(s, e) :
              Append(s, e)[i] = IF i \in DOMAIN s THEN s[i] ELSE e
         /\ \A i, j \in DOMAIN Append(s, e) : i < j => i \in DOMAIN s
         /\ \A i \in DOMAIN s : i \in DOMAIN Append(s, e)
         /\ ToSet(Append(s, e)) = ToSet(s) \cup {e}
<1>1. PICK n \in Nat : n = Len(s)
  BY LenProperties
<1>2. PICK t : t = Append(s, e)
  OBVIOUS
<1>3. /\ t \in Seq(S) /\ Len(t) = n + 1 /\ t[n + 1] = e
      /\ \A i \in 1..n : t[i] = s[i]
  BY <1>1, <1>2, AppendProperties
<1>4. DOMAIN t = 1..(n + 1) /\ DOMAIN s = 1..n
  BY <1>1, <1>3, LenProperties
<1>5. ToSet(t) = ToSet(s) \cup {e}
  <2>1. ASSUME NEW i \in DOMAIN t PROVE t[i] \in ToSet(s) \cup {e}
    BY <1>3, <1>4 DEF ToSet
  <2>2. ASSUME NEW i \in DOMAIN s PROVE s[i] \in ToSet(t)
    BY <1>3, <1>4 DEF ToSet
  <2>3. e \in ToSet(t)
    BY <1>3, <1>4 DEF ToSet
  <2> QED
    BY <2>1, <2>2, <2>3 DEF ToSet
<1> QED
  BY <1>2, <1>3, <1>4, <1>5

LEMMA FrontAt ==
  ASSUME NEW S, NEW s \in Seq(S), s # <<>>
  PROVE  /\ Front(s) \in Seq(S) /\ Last(s) \in S
         /\ Len(s) \in DOMAIN s /\ Last(s) = s[Len(s)]
         /\ \A i \in DOMAIN Front(s) : i \in DOMAIN s /\ Front(s)[i] = s[i] /\ i < Len(s)
         /\ ToSet(s) \subseteq ToSet(Front(s)) \cup {Last(s)}
<1>1. PICK n \in Nat : n = Len(s)
  BY LenProperties
<1>2. n > 0 /\ DOMAIN s = 1..n
  BY <1>1, LenProperties, EmptySeq
<1>3. PICK t : t = SubSeq(s, 1, n - 1)
  OBVIOUS
<1>4. t \in Seq(S) /\ Len(t) = n - 1 /\ \A i \in 1..(n - 1) : t[i] = s[i]
  <2>1. PICK a \in Int, b \in Int : a = 1 /\ b = n - 1
    BY <1>2
  <2>2. \A i \in a..b : s[i] \in S
    BY <1>1, <1>2, <2>1, ElementOfSeq
  <2>3. /\ t \in Seq(S) /\ Len(t) = IF a <= b THEN b - a + 1 ELSE 0
        /\ \A i \in 1..(b - a + 1) : t[i] = s[a + i - 1]
    BY <1>3, <2>1, <2>2, SubSeqProperties
  <2> QED
    BY <1>2, <2>1, <2>3
<1>5. DOMAIN t = 1..(n - 1)
  BY <1>4, LenProperties
<1>6. Front(s) = t /\ Last(s) = s[n]
  BY <1>1, <1>3 DEF Front, Last
<1>7. s[n] \in S
  BY <1>1, <1>2, ElementOfSeq
<1>8. ASSUME NEW i \in DOMAIN s PROVE s[i] \in ToSet(t) \cup {s[n]}
  BY <1>2, <1>4, <1>5 DEF ToSet
<1>9. ToSet(s) \subseteq ToSet(t) \cup {s[n]}
  BY <1>8 DEF ToSet
<1> QED
  BY <1>1, <1>2, <1>4, <1>5, <1>6, <1>7, <1>9

LEMMA ConvertType ==
  ASSUME backend \in Backend, NEW c \in Calls
  PROVE  Convert(c) \in EventType \cup {None} /\ (Convert(c) = None <=> c = "noise")
<1>1. c \in AllCalls /\ None \notin EventType
  BY AdaptersAssumption
<1>2. DOMAIN Plain = {"exec", "open", "connect"}
  BY DEF Plain
<1>3. CASE c \in DOMAIN Plain
  BY <1>1, <1>2, <1>3 DEF Convert, Plain, EventType
<1>4. CASE c \notin DOMAIN Plain
  <2>1. Convert(c) = Otherwise[backend][c] /\ c \in {"setuid", "exit", "noise"}
    BY <1>1, <1>2, <1>4 DEF Convert, AllCalls
  <2>2. CASE backend = "tetragon"
    BY <1>1, <2>1, <2>2 DEF Otherwise, EventType
  <2>3. CASE backend = "falco"
    BY <1>1, <2>1, <2>3 DEF Otherwise, EventType
  <2>4. CASE backend = "auditd"
    BY <1>1, <2>1, <2>4 DEF Otherwise, EventType
  <2> QED
    BY <2>2, <2>3, <2>4 DEF Backend
<1> QED
  BY <1>3, <1>4

LEMMA RecTypes ==
  ASSUME TypeOK
  PROVE  /\ \A i \in DOMAIN buffer : buffer[i].rec \in Nat
         /\ \A i \in DOMAIN sent : sent[i].rec \in Nat /\ sent[i].conn \in Nat
         /\ made \in Nat /\ conn \in Nat
<1>1. buffer \in Seq(Event) /\ sent \in Seq(Event)
  BY DEF TypeOK, EventTypes
<1>2. ASSUME NEW i \in DOMAIN buffer PROVE buffer[i].rec \in Nat
  <2>1. buffer[i] \in Event
    BY <1>1, ElementAt
  <2> QED
    BY <2>1 DEF Event
<1>3. ASSUME NEW i \in DOMAIN sent PROVE sent[i].rec \in Nat /\ sent[i].conn \in Nat
  <2>1. sent[i] \in Event
    BY <1>1, ElementAt
  <2> QED
    BY <2>1 DEF Event
<1> QED
  BY <1>2, <1>3 DEF TypeOK, TaskTypes

LEMMA EventOfType ==
  ASSUME TypeOK, NEW rec \in Nat, NEW type \in EventType
  PROVE  /\ EventOf(rec, type) \in Event /\ EventOf(rec, type) # None
         /\ EventOf(rec, type).rec = rec /\ EventOf(rec, type).conn = conn
<1>1. EventOf(rec, type) \in Event
  BY DEF EventOf, Event, TypeOK, TaskTypes
<1> QED
  BY <1>1, AdaptersAssumption DEF EventOf

-----------------------------------------------------------------------------
(***************************************************************************)
(* Reading the log, and writing it                                         *)
(***************************************************************************)
\* A step of the reader: one line, of one part or two, makes one event or none.
ReadOf(f, p, l, type) ==
  /\ IsLog /\ pc = "next" /\ reader # None
  /\ f = files[reader.file] /\ p = reader.pos /\ p + l <= Len(f)
  /\ f[p + 1].part = "rest" => type = None
  /\ f[p + 1].part = "whole" => l = 1 /\ type = Convert(f[p + 1].call)
  /\ l = 2 => f[p + 1].part = "head"
  /\ reader' = [reader EXCEPT !.pos = p + l]
  /\ IF type = None THEN UNCHANGED <<pc, held>>
     ELSE pc' = "send" /\ held' = EventOf(f[p + 1].rec, type)
  /\ UNCHANGED <<backend, buffer, logVars, queued, closed, history>>

LEMMA ReaderFile ==
  ASSUME TypeOK, reader # None
  PROVE  /\ files[reader.file] \in Seq(Pieces) /\ reader.pos \in Nat
         /\ reader \in Position /\ reader.file \in DOMAIN files
<1>1. reader.file \in DOMAIN files /\ reader \in Position
  BY DEF TypeOK, ReaderInFile, LogTypes
<1>2. files[reader.file] \in Seq(Pieces)
  BY <1>1, LenProperties, ElementOfSeq DEF TypeOK, LogTypes
<1> QED
  BY <1>1, <1>2 DEF Position

\* The line that is read next: in the reader's file, of one part, or of two if the
\* first is a head.
LEMMA UnreadIs ==
  ASSUME TypeOK, reader # None, Unread # <<>>
  PROVE  \E f \in Seq(Pieces), p \in Nat, l \in {1, 2}, q \in Pieces :
           /\ f = files[reader.file] /\ p = reader.pos /\ p + l <= Len(f)
           /\ q = f[p + 1] /\ Unread[1] = q
           /\ l = LineLen /\ (l = 2 => q.part = "head")
<1>2. PICK f \in Seq(Pieces), p \in Nat : f = files[reader.file] /\ p = reader.pos
  BY ReaderFile
<1>3. PICK m \in Nat : m = Len(f) /\ DOMAIN f = 1..m
  BY LenProperties
<1>4. p <= m
  BY <1>2, <1>3 DEF TypeOK, ReaderInFile
<1>5. PICK u : u = Unread
  OBVIOUS
<1>6. Len(u) = m - p /\ p < m /\ u[1] = f[p + 1]
  <2>1. u = SubSeq(f, p + 1, m)
    BY <1>2, <1>3, <1>5 DEF Unread
  <2>2. PICK a \in Int : a = p + 1
    OBVIOUS
  <2>3. \A i \in a..m : f[i] \in Pieces
    BY <1>3, <2>2, ElementOfSeq
  <2>4. /\ u \in Seq(Pieces) /\ Len(u) = IF a <= m THEN m - a + 1 ELSE 0
        /\ \A i \in 1..(m - a + 1) : u[i] = f[a + i - 1]
    BY <1>3, <2>1, <2>2, <2>3, SubSeqProperties
  <2>5. a <= m
    <3>1. Len(u) # 0
      BY <1>5, <2>4, EmptySeq
    <3> QED
      BY <2>4, <3>1
  <2>6. u[1] = f[a]
    BY <1>3, <2>4, <2>5
  <2> QED
    BY <1>3, <1>4, <2>2, <2>4, <2>5, <2>6
<1>7. PICK q \in Pieces : q = f[p + 1]
  BY <1>3, <1>6, ElementOfSeq
<1>8. PICK l \in {1, 2} : l = LineLen
  BY DEF LineLen
<1>9. l = IF q.part = "head" /\ m - p > 1 THEN 2 ELSE 1
  BY <1>5, <1>6, <1>7, <1>8 DEF LineLen
<1>10. p + l <= m /\ (l = 2 => q.part = "head")
  BY <1>6, <1>9
<1>11. Unread[1] = q
  BY <1>5, <1>6, <1>7
<1> QED
  BY <1>2, <1>3, <1>7, <1>8, <1>10, <1>11

LEMMA ReadIs ==
  ASSUME TypeOK, Read
  PROVE  \E f \in Seq(Pieces), p \in Nat, l \in {1, 2}, type \in EventType \cup {None} :
           ReadOf(f, p, l, type)
<1>1. IsLog /\ pc = "next" /\ reader # None /\ Unread # <<>>
  BY DEF Read
<1>2. PICK f \in Seq(Pieces), p \in Nat, l \in {1, 2}, q \in Pieces :
        /\ f = files[reader.file] /\ p = reader.pos /\ p + l <= Len(f)
        /\ q = f[p + 1] /\ Unread[1] = q
        /\ l = LineLen /\ (l = 2 => q.part = "head")
  BY <1>1, UnreadIs
<1>3. PICK type \in Parsed : Take(type, l)
  BY <1>2 DEF Read
<1>4. Parsed = CASE q.part = "rest" -> {None}
                 [] q.part = "whole" \/ l = 2 -> {Convert(q.call)}
                 [] OTHER -> CutOff(q.call)
  BY <1>2 DEF Parsed
<1>5. q.part \in {"whole", "head", "rest"} /\ q.call \in Calls
  BY DEF Pieces
<1>6. Convert(q.call) \in EventType \cup {None}
  BY <1>5, ConvertType DEF TypeOK, TaskTypes
<1>7. CutOff(q.call) \subseteq EventType \cup {None}
  BY <1>6 DEF CutOff, EventType
<1>8. type \in EventType \cup {None}
  BY <1>3, <1>4, <1>5, <1>6, <1>7
<1>9. q.part = "rest" => type = None
  BY <1>2, <1>3, <1>4
<1>10. q.part = "whole" => l = 1 /\ type = Convert(q.call)
  BY <1>2, <1>3, <1>4
<1>11. /\ reader' = [reader EXCEPT !.pos = p + l]
       /\ IF type = None THEN UNCHANGED <<pc, held>>
          ELSE pc' = "send" /\ held' = EventOf(q.rec, type)
       /\ UNCHANGED <<backend, buffer, logVars, queued, closed, history>>
  BY <1>2, <1>3 DEF Take
<1> QED
  BY <1>1, <1>2, <1>8, <1>9, <1>10, <1>11 DEF ReadOf

\* A step of the reader that drops a line, or its first part.
DropOf(f, p, l) ==
  /\ pc = "next" /\ pc' = "pause" /\ reader # None
  /\ f = files[reader.file] /\ p = reader.pos /\ p + l <= Len(f)
  /\ l = 2 => f[p + 1].part = "head"
  /\ reader' = [reader EXCEPT !.pos = p + l]
  /\ dropped' = dropped \cup {f[p + 1].rec}
  /\ UNCHANGED <<backend, held, buffer, logVars, queued, closed, conn, made, received, start,
                 sent>>

LEMMA DropIs ==
  ASSUME TypeOK, ReadFailsInLine
  PROVE  \E f \in Seq(Pieces), p \in Nat, l \in {1, 2} : DropOf(f, p, l)
<1>1. /\ pc = "next" /\ pc' = "pause" /\ reader # None /\ Unread # <<>>
      /\ UNCHANGED <<backend, held, buffer, logVars, queued, closed, conn, made, received, start,
                     sent>>
  BY DEF ReadFailsInLine
<1>2. PICK f \in Seq(Pieces), p \in Nat, n \in {1, 2}, q \in Pieces :
        /\ f = files[reader.file] /\ p = reader.pos /\ p + n <= Len(f)
        /\ q = f[p + 1] /\ Unread[1] = q
        /\ n = LineLen /\ (n = 2 => q.part = "head")
  BY <1>1, UnreadIs
<1>3. PICK l \in 1..n : reader' = [reader EXCEPT !.pos = @ + l]
  BY <1>2 DEF ReadFailsInLine
<1>4. PICK m \in Nat : m = Len(f)
  BY LenProperties
<1>5. l \in {1, 2} /\ (l = 2 => n = 2) /\ p + l <= m
  BY <1>2, <1>4
<1>6. dropped' = dropped \cup {q.rec} /\ reader' = [reader EXCEPT !.pos = p + l]
  BY <1>2, <1>3 DEF ReadFailsInLine
<1> QED
  BY <1>1, <1>2, <1>4, <1>5, <1>6 DEF DropOf

\* The files after a piece is written: those there were, and a piece at the end
\* of the last.
LEMMA AppendPieceAt ==
  ASSUME TypeOK, NEW p \in Pieces, AppendPiece(p)
  PROVE  /\ files' \in Seq(Seq(Pieces)) /\ files' # <<>>
         /\ DOMAIN files' = DOMAIN files /\ Len(files) \in DOMAIN files
         /\ files[Len(files)] \in Seq(Pieces)
         /\ \A n \in DOMAIN files :
              files'[n] = IF n = Len(files) THEN Append(files[n], p) ELSE files[n]
<1>1. PICK n \in Nat : n = Len(files) /\ DOMAIN files = 1..n /\ n > 0
  BY LenProperties, EmptySeq DEF TypeOK, LogTypes
<1>2. files[n] \in Seq(Pieces)
  BY <1>1, ElementOfSeq DEF TypeOK, LogTypes
<1>3. PICK t \in Seq(Pieces) : t = Append(files[n], p)
  BY <1>2, AppendProperties
<1>4. files' = [files EXCEPT ![n] = t]
  BY <1>1, <1>3 DEF AppendPiece
<1>5. files' \in Seq(Seq(Pieces)) /\ Len(files') = n
  BY <1>1, <1>3, <1>4, ExceptSeq DEF TypeOK, LogTypes
<1>6. DOMAIN files' = DOMAIN files /\ files' # <<>>
  BY <1>1, <1>4, <1>5, EmptySeq
<1>7. \A k \in DOMAIN files : files'[k] = IF k = n THEN t ELSE files[k]
  BY <1>4
<1> QED
  BY <1>1, <1>2, <1>3, <1>5, <1>6, <1>7

\* What the writer appends: a new line, in one part or the first of two, or the
\* rest of the last line.
LEMMA WriterStep ==
  ASSUME TypeOK,
         LogRest \/ (\E c \in Calls, part \in {"whole", "head"} : Log(c, part))
  PROVE  \E p \in Pieces :
           /\ AppendPiece(p) /\ IsLog
           /\ \/ p.part = "rest" /\ p.rec = made /\ UNCHANGED made
              \/ p.rec = made + 1 /\ made' = made + 1 /\ p.part # "rest" /\ ~Unfinished
<1>1. CASE LogRest
  <2>1. Last(files) \in Seq(Pieces)
    BY FrontAt DEF TypeOK, LogTypes
  <2>2. Last(Last(files)) \in Pieces
    BY <1>1, <2>1, FrontAt DEF LogRest, Unfinished
  <2>3. PICK p : p = Piece(made, "rest", Last(Last(files)).call)
    OBVIOUS
  <2>4. p \in Pieces /\ p.part = "rest" /\ p.rec = made
    BY <2>2, <2>3 DEF Piece, Pieces, TypeOK, TaskTypes
  <2> QED
    BY <1>1, <2>3, <2>4 DEF LogRest
<1>2. ASSUME NEW c \in Calls, NEW part \in {"whole", "head"}, Log(c, part)
      PROVE  \E p \in Pieces :
               /\ AppendPiece(p) /\ IsLog
               /\ p.rec = made + 1 /\ made' = made + 1 /\ p.part # "rest" /\ ~Unfinished
  <2>1. PICK p : p = Piece(made + 1, part, c)
    OBVIOUS
  <2>2. p \in Pieces /\ p.part # "rest" /\ p.rec = made + 1
    BY <2>1 DEF Piece, Pieces, TypeOK, TaskTypes
  <2> QED
    BY <1>2, <2>1, <2>2 DEF Log
<1> QED
  BY <1>1, <1>2

-----------------------------------------------------------------------------
(***************************************************************************)
(* Types                                                                   *)
(***************************************************************************)
LEMMA InitTypeOK == Init => TypeOK
<1> SUFFICES ASSUME Init PROVE TypeOK
  OBVIOUS
<1>1. <<>> \in Seq(Event) /\ <<>> \in Seq(Pieces)
  OBVIOUS
<1>2. PICK f \in Seq(Pieces) : f = <<>>
  BY <1>1
<1>3. << f >> \in Seq(Seq(Pieces)) /\ << f >> # <<>>
  OBVIOUS
<1>4. TaskTypes /\ EventTypes
  BY <1>1 DEF Init, TaskTypes, EventTypes
<1>5. LogTypes /\ ReaderInFile
  BY <1>2, <1>3 DEF Init, LogTypes, ReaderInFile
<1>6. OneBackend
  BY DEF Init, OneBackend
<1> QED
  BY <1>4, <1>5, <1>6 DEF TypeOK

LEMMA StepTaskTypes ==
  ASSUME TypeOK, Next
  PROVE  TaskTypes'
<1> USE DEF TypeOK, TaskTypes, history
<1>1. CASE Send \/ SendFails \/ Resume
  BY <1>1 DEF Send, SendFails, Resume
<1>2. CASE Pop
  <2>1. Last(buffer) \in Event
    BY <1>2, FrontAt DEF Pop, EventTypes
  <2> QED
    BY <1>2, <2>1, AdaptersAssumption DEF Pop
<1>3. CASE Connect \/ ConnectFails \/ (\E c \in Calls : Response(c)) \/ StreamEnds \/ StreamFails
  BY <1>3 DEF Connect, ConnectFails, Response, StreamEnds, StreamFails
<1>4. CASE Open \/ OpenFails \/ ReadFails \/ ReadFailsInLine
  BY <1>4 DEF Open, OpenFails, ReadFails, ReadFailsInLine
<1>5. CASE Read
  <2>1. PICK f \in Seq(Pieces), p \in Nat, l \in {1, 2}, type \in EventType \cup {None} :
          ReadOf(f, p, l, type)
    BY <1>5, ReadIs
  <2>2. f[p + 1].rec \in Nat
    <3>1. PICK k : k = p + 1
      OBVIOUS
    <3>2. k \in 1..Len(f)
      BY <2>1, <3>1, LenProperties DEF ReadOf
    <3>3. f[k] \in Pieces
      BY <3>2, ElementOfSeq
    <3> QED
      BY <3>1, <3>3 DEF Pieces
  <2>3. type # None => EventOf(f[p + 1].rec, type) \in Event /\ EventOf(f[p + 1].rec, type) # None
    BY <2>2, EventOfType
  <2> QED
    BY <2>1, <2>3 DEF ReadOf
<1>6. CASE (\E c \in Calls, part \in {"whole", "head"} : Log(c, part)) \/ LogRest
  BY <1>6 DEF Log, LogRest, AppendPiece
<1>7. CASE CreateLog \/ Rotate \/ Close
  BY <1>7 DEF CreateLog, Rotate, Close
<1>8. CASE Consume
  BY <1>8 DEF Consume
<1> QED
  BY <1>1, <1>2, <1>3, <1>4, <1>5, <1>6, <1>7, <1>8 DEF Next

LEMMA StepEventTypes ==
  ASSUME TypeOK, Next
  PROVE  EventTypes'
<1>1. ASSUME UNCHANGED <<buffer, sent, received>> PROVE EventTypes'
  BY <1>1 DEF TypeOK, EventTypes
<1>2. CASE Send
  <2>1. held \in Event
    BY <1>2 DEF Send, TypeOK, TaskTypes
  <2>2. Append(sent, held) \in Seq(Event)
    BY <2>1, AppendProperties DEF TypeOK, EventTypes
  <2> QED
    BY <1>2, <2>2 DEF Send, TypeOK, EventTypes
<1>3. CASE Pop
  BY <1>3, FrontAt DEF Pop, history, TypeOK, EventTypes
<1>4. ASSUME NEW c \in Calls, Response(c) PROVE EventTypes'
  <2>1. PICK type \in EventType \cup {None} : type = Convert(c)
    BY ConvertType DEF TypeOK, TaskTypes
  <2>2. CASE type = None
    BY <1>1, <1>4, <2>1, <2>2 DEF Response
  <2>3. CASE type # None
    <3>1. PICK e \in Event : e = EventOf(made + 1, type)
      BY <2>3, EventOfType DEF TypeOK, TaskTypes
    <3>2. buffer' = Append(buffer, e) /\ received' = received \cup {e} /\ sent' = sent
      BY <1>4, <2>1, <2>3, <3>1 DEF Response
    <3>3. buffer' \in Seq(Event)
      BY <3>2, AppendProperties DEF TypeOK, EventTypes
    <3> QED
      BY <3>2, <3>3 DEF TypeOK, EventTypes
  <2> QED
    BY <2>2, <2>3
<1>5. CASE Read
  BY <1>1, <1>5, ReadIs DEF ReadOf, history
<1> QED
  BY <1>1, <1>2, <1>3, <1>4, <1>5
     DEF Next, history, SendFails, Resume, Connect, ConnectFails, StreamEnds, StreamFails, Open,
         OpenFails, ReadFails, ReadFailsInLine, Log, LogRest, AppendPiece, CreateLog, Rotate,
         Consume, Close

LEMMA StepLogTypes ==
  ASSUME TypeOK, Next
  PROVE  LogTypes' /\ ReaderInFile'
<1>1. ASSUME UNCHANGED <<files, reader, start>>, exists' \in BOOLEAN
      PROVE  LogTypes' /\ ReaderInFile'
  BY <1>1 DEF TypeOK, LogTypes, ReaderInFile
<1>2. CASE Open
  <2>1. PICK n \in Nat : n = Len(files) /\ n \in DOMAIN files
    BY LenProperties, FrontAt DEF TypeOK, LogTypes
  <2>2. Last(files) = files[n] /\ Last(files) \in Seq(Pieces)
    BY <2>1, FrontAt DEF TypeOK, LogTypes
  <2>3. PICK m \in Nat : m = Len(files[n])
    BY <2>2, LenProperties
  <2>4. reader' = [file |-> n, pos |-> m] /\ start' = m
    BY <1>2, <2>1, <2>2, <2>3 DEF Open
  <2> QED
    BY <1>2, <2>1, <2>3, <2>4 DEF Open, logVars, TypeOK, LogTypes, ReaderInFile, Position
<1>3. ASSUME NEW f \in Seq(Pieces), NEW p \in Nat, NEW l \in {1, 2}, reader # None,
             f = files[reader.file], p = reader.pos, p + l <= Len(f),
             reader' = [reader EXCEPT !.pos = p + l], UNCHANGED <<files, exists, start>>
      PROVE  LogTypes' /\ ReaderInFile'
  <2>1. PICK r \in Position :
          r = reader /\ r.file \in DOMAIN files /\ files[r.file] = f /\ r.pos = p
    BY <1>3, ReaderFile
  <2>2. reader' = [r EXCEPT !.pos = p + l]
    BY <1>3, <2>1
  <2>3. reader'.file = r.file /\ reader'.pos = p + l /\ reader' \in Position
    BY <2>1, <2>2 DEF Position
  <2>4. start <= p /\ start \in Nat
    BY <1>3, <2>1 DEF TypeOK, LogTypes, ReaderInFile
  <2>5. start <= p + l
    BY <2>4
  <2> QED
    BY <1>3, <2>1, <2>3, <2>5 DEF TypeOK, LogTypes, ReaderInFile
<1>4. ASSUME NEW p \in Pieces, AppendPiece(p) PROVE LogTypes' /\ ReaderInFile'
  <2>1. files' \in Seq(Seq(Pieces)) /\ files' # <<>> /\ DOMAIN files' = DOMAIN files
    BY <1>4, AppendPieceAt
  <2>2. UNCHANGED <<exists, reader, start>>
    BY <1>4 DEF AppendPiece
  <2>3. ASSUME reader # None PROVE reader.pos <= Len(files'[reader.file])
    <3>1. PICK f \in Seq(Pieces) : f = files[reader.file] /\ reader.file \in DOMAIN files
      BY <2>3, ReaderFile
    <3>2. files'[reader.file] = f \/ files'[reader.file] = Append(f, p)
      BY <1>4, <3>1, AppendPieceAt
    <3>3. PICK m \in Nat : m = Len(f) /\ Len(Append(f, p)) = m + 1
      BY LenProperties, AppendProperties
    <3>4. PICK k \in Nat : k = reader.pos /\ k <= m
      BY <2>3, <3>1, <3>3, ReaderFile DEF TypeOK, ReaderInFile
    <3> QED
      BY <3>2, <3>3, <3>4
  <2> QED
    BY <2>1, <2>2, <2>3 DEF TypeOK, LogTypes, ReaderInFile
<1>5. CASE (\E c \in Calls, part \in {"whole", "head"} : Log(c, part)) \/ LogRest
  BY <1>4, <1>5, WriterStep
<1>6. CASE Rotate
  <2>. <<>> \in Seq(Pieces)
    OBVIOUS
  <2>1. PICK e \in Seq(Pieces) : e = <<>>
    OBVIOUS
  <2>2. files' = Append(files, e) /\ UNCHANGED <<exists, reader, start>>
    BY <1>6, <2>1 DEF Rotate, history
  <2>3. files' \in Seq(Seq(Pieces)) /\ files' # <<>>
    BY <2>2, AppendProperties DEF TypeOK, LogTypes
  <2>4. \A n \in DOMAIN files : n \in DOMAIN files' /\ files'[n] = files[n]
    BY <2>2, AppendAt DEF TypeOK, LogTypes
  <2> QED
    BY <2>2, <2>3, <2>4 DEF TypeOK, LogTypes, ReaderInFile
<1>7. CASE Read
  BY <1>3, <1>7, ReadIs DEF ReadOf, logVars, history
<1>8. CASE ReadFailsInLine
  BY <1>3, <1>8, DropIs DEF DropOf, logVars
<1> QED
  BY <1>1, <1>2, <1>5, <1>6, <1>7, <1>8
     DEF Next, history, logVars, Send, SendFails, Resume, Pop, Connect, ConnectFails, Response,
         StreamEnds, StreamFails, OpenFails, ReadFails, CreateLog, Consume, Close, TypeOK,
         LogTypes

LEMMA StepOneBackend ==
  ASSUME TypeOK, Next
  PROVE  OneBackend'
<1>1. CASE IsLog
  <2>1. backend # "tetragon" /\ buffer = <<>> /\ pc # "stream" /\ received = {} /\ conn = 0
    BY <1>1 DEF TypeOK, OneBackend, IsLog
  <2>2. backend' # "tetragon" /\ buffer' = <<>> /\ pc' # "stream" /\ received' = {} /\ conn' = 0
    <3>1. CASE Read
      BY <2>1, <3>1, ReadIs DEF ReadOf, history
    <3> QED
      BY <2>1, <3>1
         DEF Next, history, Send, SendFails, Resume, Pop, Connect, ConnectFails, Response,
             StreamEnds, StreamFails, Open, OpenFails, ReadFails, ReadFailsInLine, Log, LogRest,
             AppendPiece, CreateLog, Rotate, Consume, Close
  <2> QED
    BY <2>2 DEF OneBackend, IsLog
<1>2. CASE ~IsLog
  <2>1. backend = "tetragon" /\ reader = None
    BY <1>2 DEF TypeOK, OneBackend, IsLog
  <2>2. backend' = "tetragon" /\ reader' = None
    BY <2>1
       DEF Next, history, IsLog, Send, SendFails, Resume, Pop, Connect, ConnectFails, Response,
           StreamEnds, StreamFails, Open, OpenFails, Read, ReadFails, ReadFailsInLine, Log,
           LogRest, CreateLog, Rotate, Consume, Close
  <2> QED
    BY <2>2 DEF OneBackend, IsLog
<1> QED
  BY <1>1, <1>2

LEMMA StepTypeOK == TypeOK /\ [Next]_vars => TypeOK'
<1>1. TypeOK /\ UNCHANGED vars => TypeOK'
  BY DEF vars, logVars, history, TypeOK, TaskTypes, EventTypes, LogTypes, ReaderInFile,
         OneBackend, IsLog
<1> QED
  BY <1>1, StepTaskTypes, StepEventTypes, StepLogTypes, StepOneBackend DEF TypeOK

-----------------------------------------------------------------------------
(***************************************************************************)
(* One event for one record                                                *)
(***************************************************************************)
LEMMA InitInvariant ==
  Init => Made /\ Apart /\ ByConnection /\ LinesInOrder /\ InLogOrder /\ NothingIsLost
<1> SUFFICES ASSUME Init
             PROVE  Made /\ Apart /\ ByConnection /\ LinesInOrder /\ InLogOrder /\ NothingIsLost
  OBVIOUS
<1>1. Made /\ Apart /\ ByConnection
  BY DEF Init, Made, Apart, ByConnection
<1>2. LinesInOrder
  BY DEF Init, LinesInOrder, Lines
<1>3. InLogOrder
  BY DEF Init, InLogOrder
<1>4. NothingIsLost
  BY DEF Init, NothingIsLost, Due
<1> QED
  BY <1>1, <1>2, <1>3, <1>4

\* Most steps make and send nothing; a new line only makes a record.
LEMMA Quiet ==
  ASSUME TypeOK, Made, Apart, ByConnection,
         UNCHANGED <<backend, buffer, sent, conn>>, held' \in {held, None},
         made' \in {made, made + 1}
  PROVE  Made' /\ Apart' /\ ByConnection'
<1>1. Made'
  <2>1. ASSUME NEW r \in Nat, r <= made PROVE r <= made'
    BY <2>1 DEF TypeOK, TaskTypes
  <2>2. \A i \in DOMAIN buffer : buffer[i].rec \in Nat
    BY RecTypes
  <2>3. \A i \in DOMAIN sent : sent[i].rec \in Nat
    BY RecTypes
  <2>4. held # None => held.rec \in Nat
    BY DEF TypeOK, TaskTypes, Event
  <2> QED
    BY <2>1, <2>2, <2>3, <2>4 DEF Made
<1>2. Apart'
  BY DEF Apart
<1>3. ByConnection'
  BY DEF ByConnection, IsLog
<1> QED
  BY <1>1, <1>2, <1>3

\* The line at which the reader is.
LEMMA LineRead ==
  ASSUME TypeOK, LinesInOrder, NEW f \in Seq(Pieces), NEW p \in Nat, NEW l \in {1, 2},
         NEW type \in EventType \cup {None}, ReadOf(f, p, l, type)
  PROVE  /\ p + 1 \in DOMAIN f /\ f[p + 1] \in Pieces /\ f[p + 1].rec <= made /\ Lines(f)
         /\ held = None
<1>1. PICK k : k = p + 1
  OBVIOUS
<1>2. k \in 1..Len(f)
  BY <1>1, LenProperties DEF ReadOf
<1>3. k \in DOMAIN f /\ f[k] \in Pieces
  BY <1>2, LenProperties, ElementOfSeq
<1>4. Lines(f)
  BY ReaderFile DEF ReadOf, LinesInOrder
<1>5. f[k].rec <= made
  BY <1>3, <1>4 DEF Lines
<1>6. held = None
  BY DEF ReadOf, TypeOK, TaskTypes
<1> QED
  BY <1>1, <1>3, <1>4, <1>5, <1>6

\* An event that is read has a later record than all that were sent.
LEMMA EventRead ==
  ASSUME TypeOK, LinesInOrder, InLogOrder, NEW f \in Seq(Pieces), NEW p \in Nat,
         NEW l \in {1, 2}, NEW type \in EventType, type # None, ReadOf(f, p, l, type)
  PROVE  /\ held' \in Event /\ held'.rec = f[p + 1].rec /\ f[p + 1].part # "rest"
         /\ \A i \in DOMAIN sent : sent[i].rec < held'.rec
<1>1. PICK q \in Pieces : q = f[p + 1]
  BY LineRead
<1>2. held' = EventOf(q.rec, type) /\ q.part # "rest"
  BY <1>1 DEF ReadOf
<1>3. held' \in Event /\ held'.rec = q.rec
  BY <1>1, <1>2, EventOfType DEF Pieces
<1>4. \A i \in DOMAIN sent : Ahead(sent[i].rec)
  BY DEF ReadOf, InLogOrder
<1>5. PICK k : k = p + 1 /\ k \in DOMAIN f /\ k > p
  BY LineRead
<1>6. \A i \in DOMAIN sent : sent[i].rec < q.rec
  BY <1>1, <1>2, <1>4, <1>5 DEF ReadOf, Ahead
<1> QED
  BY <1>1, <1>2, <1>3, <1>6

LEMMA StepApart ==
  ASSUME TypeOK, Made, Apart, ByConnection, LinesInOrder, InLogOrder, [Next]_vars
  PROVE  Made' /\ Apart' /\ ByConnection'
<1>0. buffer \in Seq(Event) /\ sent \in Seq(Event) /\ (held # None => held \in Event)
  BY DEF TypeOK, EventTypes, TaskTypes
<1>1. CASE Send
  <2>1. held # None /\ held \in Event
    BY <1>1, <1>0 DEF Send, TypeOK, TaskTypes
  <2>t. PICK t : t = Append(sent, held)
    OBVIOUS
  <2>2. /\ \A i \in DOMAIN t : t[i] = IF i \in DOMAIN sent THEN sent[i] ELSE held
        /\ \A i, j \in DOMAIN t : i < j => i \in DOMAIN sent
    BY <1>0, <2>1, <2>t, AppendAt
  <2>3. sent' = t /\ held' = None /\ UNCHANGED <<backend, buffer, conn, made>>
    BY <1>1, <2>t DEF Send
  <2>4. Made'
    BY <2>1, <2>2, <2>3 DEF Made
  <2>5. Apart'
    BY <2>1, <2>2, <2>3 DEF Apart
  <2>6. ByConnection'
    <3>1. conn <= conn
      BY DEF TypeOK, TaskTypes
    <3> QED
      BY <2>1, <2>2, <2>3, <3>1 DEF ByConnection, IsLog
  <2> QED
    BY <2>4, <2>5, <2>6
<1>2. CASE Pop
  <2>1. PICK b \in Seq(Event), n \in DOMAIN buffer :
          /\ b = Front(buffer) /\ Last(buffer) = buffer[n]
          /\ \A i \in DOMAIN b : i \in DOMAIN buffer /\ b[i] = buffer[i] /\ i < n
    BY <1>0, <1>2, FrontAt DEF Pop
  <2>2. buffer' = b /\ held' = buffer[n] /\ UNCHANGED <<backend, conn, made, sent>>
    BY <1>2, <2>1 DEF Pop, history
  <2>3. Made'
    BY <2>1, <2>2 DEF Made
  <2>4. Apart'
    BY <2>1, <2>2 DEF Apart
  <2>5. ByConnection'
    BY <2>1, <2>2 DEF ByConnection, IsLog
  <2> QED
    BY <2>3, <2>4, <2>5
<1>3. CASE Connect
  <2>1. buffer = <<>> /\ held = None /\ conn' = conn + 1 /\ conn \in Nat
        /\ UNCHANGED <<backend, buffer, held, sent, made>>
    BY <1>3 DEF Connect, TypeOK, TaskTypes
  <2>2. \A i \in DOMAIN sent : sent[i].conn \in Nat
    BY RecTypes
  <2>3. Made' /\ Apart'
    BY <2>1 DEF Made, Apart
  <2>4. ASSUME NEW i \in DOMAIN sent, sent[i].conn <= conn PROVE sent[i].conn <= conn'
    BY <2>1, <2>2, <2>4
  <2>5. ByConnection'
    BY <2>1, <2>4 DEF ByConnection, IsLog
  <2> QED
    BY <2>3, <2>5
<1>4. ASSUME NEW c \in Calls, Response(c) PROVE Made' /\ Apart' /\ ByConnection'
  <2>1. PICK type \in EventType \cup {None} : type = Convert(c)
    BY ConvertType DEF TypeOK, TaskTypes
  <2>2. made' = made + 1 /\ UNCHANGED <<backend, held, sent, conn>> /\ held = None
    BY <1>4 DEF Response, TypeOK, TaskTypes
  <2>3. CASE type = None
    <3>1. UNCHANGED buffer
      BY <1>4, <2>1, <2>3 DEF Response
    <3> QED
      BY <2>2, <3>1, Quiet
  <2>4. CASE type # None
    <3>1. PICK e \in Event : e = EventOf(made + 1, type) /\ e.rec = made + 1 /\ e.conn = conn
      BY <2>4, EventOfType DEF TypeOK, TaskTypes
    <3>b. PICK b : b = Append(buffer, e)
      OBVIOUS
    <3>2. /\ \A i \in DOMAIN b : b[i] = IF i \in DOMAIN buffer THEN buffer[i] ELSE e
          /\ \A i, j \in DOMAIN b : i < j => i \in DOMAIN buffer
      BY <1>0, <3>b, AppendAt
    <3>3. buffer' = b
      BY <1>4, <2>1, <2>4, <3>1, <3>b DEF Response
    <3>4. \A i \in DOMAIN buffer : buffer[i].rec # e.rec /\ buffer[i].rec <= made'
      <4>1. \A i \in DOMAIN buffer : buffer[i].rec \in Nat /\ buffer[i].rec <= made
        BY RecTypes DEF Made
      <4> QED
        BY <2>2, <3>1, <4>1 DEF TypeOK, TaskTypes
    <3>5. \A i \in DOMAIN sent : sent[i].rec # e.rec /\ sent[i].rec <= made'
      <4>1. \A i \in DOMAIN sent : sent[i].rec \in Nat /\ sent[i].rec <= made
        BY RecTypes DEF Made
      <4> QED
        BY <2>2, <3>1, <4>1 DEF TypeOK, TaskTypes
    <3>6. e.rec <= made'
      BY <2>2, <3>1 DEF TypeOK, TaskTypes
    <3>7. Made'
      BY <2>2, <3>2, <3>3, <3>4, <3>5, <3>6 DEF Made
    <3>8. Apart'
      BY <2>2, <3>2, <3>3, <3>4, <3>5 DEF Apart
    <3>9. ByConnection'
      BY <2>2, <3>1, <3>2, <3>3 DEF ByConnection, IsLog
    <3> QED
      BY <3>7, <3>8, <3>9
  <2> QED
    BY <2>3, <2>4
<1>5. CASE Read
  <2>1. PICK f \in Seq(Pieces), p \in Nat, l \in {1, 2}, type \in EventType \cup {None} :
          ReadOf(f, p, l, type)
    BY <1>5, ReadIs
  <2>2. UNCHANGED <<backend, buffer, sent, conn, made>> /\ IsLog
    BY <2>1 DEF ReadOf, history
  <2>3. CASE type = None
    BY <2>1, <2>2, <2>3, Quiet DEF ReadOf
  <2>4. CASE type # None
    <3>1. PICK q \in Pieces : q = f[p + 1] /\ q.rec <= made
      BY <2>1, LineRead
    <3>2. held' \in Event /\ held'.rec = q.rec /\ \A i \in DOMAIN sent : sent[i].rec < q.rec
      BY <2>1, <2>4, <3>1, EventRead
    <3>3. buffer = <<>>
      BY <2>2 DEF TypeOK, OneBackend
    <3>4. \A i \in DOMAIN sent : sent[i].rec # q.rec
      <4>1. \A i \in DOMAIN sent : sent[i].rec \in Nat
        BY RecTypes
      <4> QED
        BY <3>1, <3>2, <4>1 DEF Pieces
    <3>5. Made' /\ Apart'
      BY <2>2, <3>1, <3>2, <3>3, <3>4 DEF Made, Apart
    <3>6. ByConnection'
      BY <2>2 DEF ByConnection, IsLog
    <3> QED
      BY <3>5, <3>6
  <2> QED
    BY <2>3, <2>4
<1>6. CASE UNCHANGED vars
  BY <1>6, Quiet DEF vars, history
<1>7. CASE (\E c \in Calls, part \in {"whole", "head"} : Log(c, part)) \/ LogRest
  BY <1>7, Quiet DEF Log, LogRest, AppendPiece
<1>8. CASE \/ SendFails \/ Resume \/ ConnectFails \/ StreamEnds \/ StreamFails \/ Open
           \/ OpenFails \/ ReadFails \/ ReadFailsInLine \/ CreateLog \/ Rotate \/ Consume \/ Close
  <2>1. UNCHANGED <<backend, buffer, sent, conn, made>> /\ held' \in {held, None}
    BY <1>8
       DEF history, SendFails, Resume, ConnectFails, StreamEnds, StreamFails, Open, OpenFails,
           ReadFails, ReadFailsInLine, CreateLog, Rotate, Consume, Close
  <2> QED
    BY <2>1, Quiet
<1> QED
  BY <1>1, <1>2, <1>3, <1>4, <1>5, <1>6, <1>7, <1>8 DEF Next

-----------------------------------------------------------------------------
(***************************************************************************)
(* The order of the log                                                    *)
(***************************************************************************)
LEMMA StepLines ==
  ASSUME TypeOK, LinesInOrder, [Next]_vars
  PROVE  LinesInOrder'
\* More records change nothing for the lines there are.
<1>1. ASSUME NEW f \in Seq(Pieces), Lines(f), made' \in {made, made + 1} PROVE Lines(f)'
  <2>1. ASSUME NEW i \in DOMAIN f PROVE f[i].rec <= made'
    <3>1. f[i] \in Pieces /\ f[i].rec <= made
      BY <1>1, ElementAt DEF Lines
    <3>2. f[i].rec \in Nat
      BY <3>1 DEF Pieces
    <3> QED
      BY <1>1, <3>1, <3>2 DEF TypeOK, TaskTypes
  <2> QED
    BY <1>1, <2>1 DEF Lines
<1>2. \A n \in DOMAIN files : files[n] \in Seq(Pieces) /\ Lines(files[n])
  BY LenProperties, ElementOfSeq DEF TypeOK, LogTypes, LinesInOrder
<1>3. ASSUME UNCHANGED <<files>>, made' \in {made, made + 1} PROVE LinesInOrder'
  BY <1>1, <1>2, <1>3 DEF LinesInOrder
<1>4. CASE Rotate
  <2>1. PICK e \in Seq(Pieces) : e = <<>>
    <3>. <<>> \in Seq(Pieces)
      OBVIOUS
    <3> QED
      OBVIOUS
  <2>2. files' = Append(files, e) /\ made' = made
    BY <1>4, <2>1 DEF Rotate, history
  <2>3. Lines(e)'
    BY <2>1 DEF Lines
  <2>4. \A n \in DOMAIN files' : files'[n] = IF n \in DOMAIN files THEN files[n] ELSE e
    BY <2>2, AppendAt DEF TypeOK, LogTypes
  <2> QED
    BY <1>1, <1>2, <2>2, <2>3, <2>4 DEF LinesInOrder
<1>5. CASE LogRest \/ (\E c \in Calls, part \in {"whole", "head"} : Log(c, part))
  <2>1. PICK p \in Pieces :
          /\ AppendPiece(p)
          /\ \/ p.part = "rest" /\ p.rec = made /\ UNCHANGED made
             \/ p.rec = made + 1 /\ made' = made + 1 /\ p.part # "rest" /\ ~Unfinished
    BY <1>5, WriterStep
  <2>2. PICK n \in DOMAIN files, f \in Seq(Pieces) : n = Len(files) /\ f = files[n]
    BY <2>1, AppendPieceAt
  <2>t. PICK t \in Seq(Pieces) : t = Append(f, p) /\ files'[n] = t
    BY <2>1, <2>2, AppendPieceAt, AppendProperties
  <2>3. /\ \A i \in DOMAIN t : t[i] = IF i \in DOMAIN f THEN f[i] ELSE p
        /\ \A i, j \in DOMAIN t : i < j => i \in DOMAIN f
    BY <2>t, AppendAt
  <2>4. Lines(f) /\ Lines(f)'
    BY <1>1, <1>2, <2>1, <2>2
  <2>5. p.rec <= made' /\ \A i \in DOMAIN f : f[i].rec < p.rec \/ p.part = "rest"
    <3>1. ASSUME NEW i \in DOMAIN f PROVE f[i].rec \in Nat /\ f[i].rec <= made
      <4>1. f[i] \in Pieces
        BY ElementAt
      <4> QED
        BY <2>4, <4>1 DEF Lines, Pieces
    <3> QED
      BY <2>1, <3>1 DEF TypeOK, TaskTypes
  <2>6. ASSUME NEW i \in DOMAIN t, t[i].part = "head", i < Len(t) PROVE t[i + 1].part = "rest"
    <3>1. PICK m \in Nat : /\ m = Len(f) /\ Len(t) = m + 1
                         /\ DOMAIN f = 1..m /\ DOMAIN t = 1..(m + 1)
      BY <2>t, LenProperties, AppendProperties
    <3>2. CASE i < m
      <4>1. i \in DOMAIN f /\ i + 1 \in DOMAIN f
        BY <3>1, <3>2
      <4>2. f[i].part = "head" /\ t[i + 1] = f[i + 1]
        BY <2>3, <2>6, <4>1, <3>1
      <4> QED
        BY <2>4, <3>1, <3>2, <4>1, <4>2 DEF Lines
    <3>3. CASE i = m
      <4>1. i \in DOMAIN f /\ f[m].part = "head" /\ t[i + 1] = p /\ m # 0
        BY <2>3, <2>6, <3>1, <3>3
      <4>2. f # <<>>
        BY <3>1, <4>1, EmptySeq
      <4>3. Last(files) = f /\ Last(f) = f[m]
        BY <2>2, <3>1 DEF Last
      <4>4. Unfinished
        BY <4>1, <4>2, <4>3 DEF Unfinished
      <4> QED
        BY <2>1, <4>1, <4>4
    <3> QED
      BY <2>6, <3>1, <3>2, <3>3
  <2>7. Lines(t)'
    <3>1. \A i \in DOMAIN t : t[i].rec <= made'
      BY <2>3, <2>4, <2>5 DEF Lines
    <3>2. ASSUME NEW i \in DOMAIN t, NEW j \in DOMAIN t,
                 i < j, t[i].part # "rest", t[j].part # "rest"
          PROVE  t[i].rec < t[j].rec
      BY <2>3, <2>4, <2>5, <3>2 DEF Lines
    <3> QED
      BY <2>6, <3>1, <3>2 DEF Lines
  <2>8. DOMAIN files' = DOMAIN files /\ \A k \in DOMAIN files : k # n => files'[k] = files[k]
    BY <2>1, <2>2, AppendPieceAt
  <2> QED
    BY <1>1, <1>2, <2>1, <2>2, <2>t, <2>7, <2>8 DEF LinesInOrder
<1>6. CASE Read
  BY <1>3, <1>6, ReadIs DEF ReadOf, logVars, history
<1>7. CASE UNCHANGED vars
  BY <1>3, <1>7 DEF vars, logVars, history
<1>8. CASE \E c \in Calls : Response(c)
  BY <1>3, <1>8 DEF Response, logVars
<1>9. CASE \/ Send \/ SendFails \/ Resume \/ Pop \/ Connect \/ ConnectFails \/ StreamEnds
           \/ StreamFails \/ Open \/ OpenFails \/ ReadFails \/ ReadFailsInLine \/ CreateLog
           \/ Consume \/ Close
  <2>1. UNCHANGED <<files, made>>
    BY <1>9
       DEF logVars, history, Send, SendFails, Resume, Pop, Connect, ConnectFails, StreamEnds,
           StreamFails, Open, OpenFails, ReadFails, ReadFailsInLine, CreateLog, Consume, Close
  <2> QED
    BY <1>3, <2>1
<1> QED
  BY <1>4, <1>5, <1>6, <1>7, <1>8, <1>9 DEF Next
\* What is written is later than all that was read.
LEMMA WrittenAhead ==
  ASSUME TypeOK, reader # None, NEW r \in Nat, r <= made, Ahead(r),
         \/ LogRest \/ Rotate
         \/ \E c \in Calls, part \in {"whole", "head"} : Log(c, part)
  PROVE  /\ UNCHANGED reader
         /\ \A k \in DOMAIN files'[reader.file] :
              k > reader.pos /\ files'[reader.file][k].part # "rest"
                => r < files'[reader.file][k].rec
<1>1. PICK n \in DOMAIN files, f \in Seq(Pieces) : n = reader.file /\ f = files[n]
  BY ReaderFile
<1>2. \A k \in DOMAIN f : k > reader.pos /\ f[k].part # "rest" => r < f[k].rec
  BY <1>1 DEF Ahead
<1>3. CASE Rotate
  <2>1. <<>> \in Seq(Pieces) /\ files \in Seq(Seq(Pieces))
    BY DEF TypeOK, LogTypes
  <2>2. files'[n] = f /\ UNCHANGED reader
    BY <1>1, <1>3, <2>1, AppendAt DEF Rotate
  <2> QED
    BY <1>1, <1>2, <2>2
<1>4. CASE LogRest \/ (\E c \in Calls, part \in {"whole", "head"} : Log(c, part))
  <2>1. PICK p \in Pieces :
          /\ AppendPiece(p)
          /\ \/ p.part = "rest"
             \/ p.rec = made + 1
    BY <1>4, WriterStep
  <2>2. UNCHANGED reader
    BY <2>1 DEF AppendPiece
  <2>3. files'[n] = f \/ files'[n] = Append(f, p)
    BY <1>1, <2>1, AppendPieceAt
  <2>4. p.part = "rest" \/ r < p.rec
    BY <2>1 DEF TypeOK, TaskTypes
  <2>5. PICK t : t = Append(f, p)
    OBVIOUS
  <2>6. \A k \in DOMAIN t : t[k] = IF k \in DOMAIN f THEN f[k] ELSE p
    BY <2>5, AppendAt
  <2>7. \A k \in DOMAIN t : k > reader.pos /\ t[k].part # "rest" => r < t[k].rec
    BY <1>2, <2>4, <2>6
  <2> QED
    BY <1>1, <1>2, <2>2, <2>3, <2>5, <2>7
<1> QED
  BY <1>3, <1>4

LEMMA StepInLogOrder ==
  ASSUME TypeOK, Made, LinesInOrder, InLogOrder, [Next]_vars
  PROVE  InLogOrder'
<1> SUFFICES ASSUME IsLog PROVE InLogOrder'
  <2>1. UNCHANGED backend
    <3>1. CASE Read
      BY <3>1, ReadIs DEF ReadOf
    <3> QED
      BY <3>1
         DEF vars, Next, Send, SendFails, Resume, Pop, Connect, ConnectFails, Response,
             StreamEnds, StreamFails, Open, OpenFails, ReadFails, ReadFailsInLine, Log, LogRest,
             AppendPiece, CreateLog, Rotate, Consume, Close
  <2> QED
    BY <2>1 DEF InLogOrder, IsLog
<1>0. /\ reader = None => sent = <<>> /\ held = None
      /\ reader # None => /\ \A i \in DOMAIN sent : Ahead(sent[i].rec)
                          /\ held # None => Ahead(held.rec)
      /\ \A i, j \in DOMAIN sent : i < j => sent[i].rec < sent[j].rec
      /\ held # None => \A i \in DOMAIN sent : sent[i].rec < held.rec
  BY DEF InLogOrder
<1>1. ASSUME UNCHANGED <<sent, reader, files>>, held' \in {held, None} PROVE InLogOrder'
  BY <1>0, <1>1 DEF InLogOrder, Ahead
<1>2. CASE Send
  <2>1. held # None /\ held \in Event /\ sent \in Seq(Event) /\ reader # None
    BY <1>0, <1>2 DEF Send, TypeOK, TaskTypes, EventTypes
  <2>2. PICK t : t = Append(sent, held)
    OBVIOUS
  <2>3. /\ \A i \in DOMAIN t : t[i] = IF i \in DOMAIN sent THEN sent[i] ELSE held
        /\ \A i, j \in DOMAIN t : i < j => i \in DOMAIN sent
    BY <2>1, <2>2, AppendAt
  <2>4. sent' = t /\ held' = None /\ UNCHANGED <<reader, files>>
    BY <1>2, <2>2 DEF Send, logVars
  <2>5. \A i \in DOMAIN t : Ahead(t[i].rec)
    BY <1>0, <2>1, <2>3
  <2>6. \A i, j \in DOMAIN t : i < j => t[i].rec < t[j].rec
    BY <1>0, <2>1, <2>3
  <2> QED
    BY <2>1, <2>4, <2>5, <2>6 DEF InLogOrder, Ahead
<1>3. CASE Open
  <2>1. UNCHANGED <<sent, held>> /\ sent = <<>> /\ held = None /\ reader' # None
    <3>1. reader' \in Position
      BY <1>3, StepLogTypes, AdaptersAssumption DEF Open, LogTypes, Next, Position
    <3> QED
      BY <1>0, <1>3, <3>1, AdaptersAssumption DEF Open
  <2> QED
    BY <2>1 DEF InLogOrder
<1>4. CASE Read
  <2>1. PICK f \in Seq(Pieces), p \in Nat, l \in {1, 2}, type \in EventType \cup {None} :
          ReadOf(f, p, l, type)
    BY <1>4, ReadIs
  <2>2. PICK r \in Position :
              r = reader /\ r.file \in DOMAIN files /\ files[r.file] = f /\ r.pos = p
    BY <2>1, ReaderFile DEF ReadOf
  <2>3. reader' = [r EXCEPT !.pos = p + l] /\ UNCHANGED <<files, sent>> /\ reader # None
    BY <2>1, <2>2 DEF ReadOf, logVars, history
  <2>4. /\ reader'.file = r.file /\ reader'.pos = p + l /\ reader' # None
        /\ files'[reader'.file] = f
    BY <2>2, <2>3, AdaptersAssumption DEF Position
  <2>5. \A k \in DOMAIN f : k > p + l => k > p /\ k > p + 1
    BY LenProperties
  <2>6. \A i \in DOMAIN sent : Ahead(sent[i].rec)'
    BY <1>0, <2>2, <2>3, <2>4, <2>5 DEF Ahead
  <2>7. CASE type = None
    <3>1. held' = None
      BY <2>1, <2>7, LineRead DEF ReadOf
    <3> QED
      BY <1>0, <2>3, <2>4, <2>6, <3>1 DEF InLogOrder
  <2>8. CASE type # None
    <3>1. PICK q \in Pieces, k \in DOMAIN f : k = p + 1 /\ q = f[k] /\ Lines(f)
      BY <2>1, LineRead
    <3>2. /\ held'.rec = q.rec /\ q.part # "rest"
          /\ \A i \in DOMAIN sent : sent[i].rec < held'.rec
      BY <2>1, <2>8, <3>1, EventRead
    <3>3. \A j \in DOMAIN f : j > p + l /\ f[j].part # "rest" => q.rec < f[j].rec
      BY <2>5, <3>1, <3>2 DEF Lines
    <3>4. Ahead(held.rec)'
      BY <2>4, <3>2, <3>3 DEF Ahead
    <3> QED
      BY <1>0, <2>3, <2>4, <2>6, <3>2, <3>4 DEF InLogOrder
  <2> QED
    BY <2>7, <2>8
<1>5. CASE \/ LogRest \/ Rotate
           \/ \E c \in Calls, part \in {"whole", "head"} : Log(c, part)
  <2>1. UNCHANGED <<sent, held, reader>>
    BY <1>5 DEF LogRest, Rotate, Log, AppendPiece, history
  <2>2. \A i \in DOMAIN sent : sent[i].rec \in Nat /\ sent[i].rec <= made
    BY RecTypes DEF Made
  <2>3. held # None => held.rec \in Nat /\ held.rec <= made
    BY DEF TypeOK, TaskTypes, Event, Made
  <2>4. ASSUME reader # None, NEW i \in DOMAIN sent PROVE Ahead(sent[i].rec)'
    BY <1>0, <1>5, <2>1, <2>2, <2>4, WrittenAhead DEF Ahead
  <2>5. ASSUME reader # None, held # None PROVE Ahead(held.rec)'
    BY <1>0, <1>5, <2>1, <2>3, <2>5, WrittenAhead DEF Ahead
  <2> QED
    BY <1>0, <2>1, <2>4, <2>5 DEF InLogOrder
<1>6. CASE UNCHANGED vars
  BY <1>1, <1>6 DEF vars, logVars, history
<1>7. CASE SendFails \/ Resume \/ OpenFails \/ ReadFails \/ CreateLog \/ Consume \/ Close
  BY <1>1, <1>7
     DEF logVars, history, SendFails, Resume, OpenFails, ReadFails, CreateLog, Consume, Close
<1>8. ~(Pop \/ Connect \/ ConnectFails \/ (\E c \in Calls : Response(c)) \/ StreamEnds
          \/ StreamFails)
  BY DEF IsLog, TypeOK, OneBackend, Pop, Connect, ConnectFails, Response, StreamEnds, StreamFails
<1>9. CASE ReadFailsInLine
  <2>1. PICK f \in Seq(Pieces), p \in Nat, l \in {1, 2} : DropOf(f, p, l)
    BY <1>9, DropIs
  <2>2. PICK r \in Position :
              r = reader /\ r.file \in DOMAIN files /\ files[r.file] = f /\ r.pos = p
    BY <2>1, ReaderFile DEF DropOf
  <2>3. /\ reader' = [r EXCEPT !.pos = p + l] /\ UNCHANGED <<files, sent, held>>
        /\ reader # None /\ held = None
    BY <2>1, <2>2 DEF DropOf, logVars, TypeOK, TaskTypes
  <2>4. /\ reader'.file = r.file /\ reader'.pos = p + l /\ reader' # None
        /\ files'[reader'.file] = f
    BY <2>2, <2>3, AdaptersAssumption DEF Position
  <2>5. \A k \in DOMAIN f : k > p + l => k > p
    BY LenProperties
  <2>6. \A i \in DOMAIN sent : Ahead(sent[i].rec)'
    BY <1>0, <2>2, <2>3, <2>4, <2>5 DEF Ahead
  <2> QED
    BY <1>0, <2>3, <2>4, <2>6 DEF InLogOrder
<1> QED
  BY <1>2, <1>3, <1>4, <1>5, <1>6, <1>7, <1>8, <1>9 DEF Next

-----------------------------------------------------------------------------
(***************************************************************************)
(* Nothing is lost                                                         *)
(***************************************************************************)
OnItsWay == ToSet(buffer) \cup {held} \cup ToSet(sent)

Passed(k) ==
  /\ k \in (start + 1)..reader.pos
  /\ files[reader.file][k].part = "whole" /\ files[reader.file][k].call # "noise"
  /\ files[reader.file][k].rec \notin dropped

LineEvent(k) ==
  EventOf(files[reader.file][k].rec, Convert(files[reader.file][k].call))

LEMMA LostMeans ==
  NothingIsLost <=>
    (pc # "stopped" =>
       /\ ~IsLog => received \subseteq OnItsWay
       /\ IsLog /\ reader # None => \A k : Passed(k) => LineEvent(k) \in OnItsWay)
  BY DEF NothingIsLost, Due, OnItsWay, Passed, LineEvent

LEMMA LostMeansThen ==
  NothingIsLost' <=>
    (pc' # "stopped" =>
       /\ ~IsLog' => received' \subseteq OnItsWay'
       /\ IsLog' /\ reader' # None => \A k : Passed(k)' => LineEvent(k)' \in OnItsWay')
  BY DEF NothingIsLost, Due, OnItsWay, Passed, LineEvent

\* Outside of Send and Pop events only join those on their way.
LEMMA StaysOnItsWay ==
  ASSUME TypeOK, [Next]_vars, pc' # "stopped"
  PROVE  \A e \in OnItsWay : e # None => e \in OnItsWay'
<1>1. ASSUME UNCHANGED <<buffer, held, sent>> PROVE OnItsWay' = OnItsWay
  BY <1>1 DEF OnItsWay
<1>2. CASE Send
  <2>1. held \in Event /\ sent \in Seq(Event)
    BY <1>2 DEF Send, TypeOK, TaskTypes, EventTypes
  <2>2. ToSet(Append(sent, held)) = ToSet(sent) \cup {held}
    BY <2>1, AppendAt
  <2> QED
    BY <1>2, <2>2 DEF Send, OnItsWay
<1>3. CASE Pop
  <2>1. buffer \in Seq(Event) /\ buffer # <<>> /\ held = None
    BY <1>3 DEF Pop, TypeOK, TaskTypes, EventTypes
  <2>2. ToSet(buffer) \subseteq ToSet(Front(buffer)) \cup {Last(buffer)}
    BY <2>1, FrontAt
  <2> QED
    BY <1>3, <2>1, <2>2 DEF Pop, OnItsWay, history
<1>4. ASSUME NEW c \in Calls, Response(c) PROVE OnItsWay \subseteq OnItsWay'
  <2>1. PICK type \in EventType \cup {None} : type = Convert(c)
    BY ConvertType DEF TypeOK, TaskTypes
  <2>2. CASE type = None
    BY <1>1, <1>4, <2>1, <2>2 DEF Response
  <2>3. CASE type # None
    <3>1. PICK e \in Event : e = EventOf(made + 1, type)
      BY <2>3, EventOfType DEF TypeOK, TaskTypes
    <3>2. ToSet(Append(buffer, e)) = ToSet(buffer) \cup {e}
      BY AppendAt DEF TypeOK, EventTypes
    <3> QED
      BY <1>4, <2>1, <2>3, <3>1, <3>2 DEF Response, OnItsWay
  <2> QED
    BY <2>2, <2>3
<1>5. CASE Read
  <2>1. held = None /\ UNCHANGED <<buffer, sent>>
    BY <1>5, ReadIs DEF ReadOf, history, TypeOK, TaskTypes
  <2> QED
    BY <2>1 DEF OnItsWay
<1>6. CASE UNCHANGED vars
  BY <1>1, <1>6 DEF vars, history
<1>7. ~SendFails
  BY DEF SendFails
<1> QED
  BY <1>1, <1>2, <1>3, <1>4, <1>5, <1>6, <1>7
     DEF Next, history, Resume, Connect, ConnectFails, StreamEnds, StreamFails, Open, OpenFails,
         ReadFails, ReadFailsInLine, Log, LogRest, AppendPiece, CreateLog, Rotate, Consume, Close

\* Every file there was is still there, with every piece it had.
LEMMA PiecesStay ==
  ASSUME TypeOK, [Next]_vars, NEW n \in DOMAIN files, NEW k \in DOMAIN files[n]
  PROVE  files'[n][k] = files[n][k]
<1>1. files \in Seq(Seq(Pieces)) /\ files[n] \in Seq(Pieces) /\ <<>> \in Seq(Pieces)
  BY ElementAt DEF TypeOK, LogTypes
<1>2. CASE UNCHANGED files
  BY <1>2
<1>3. CASE Rotate
  BY <1>1, <1>3, AppendAt DEF Rotate
<1>4. CASE LogRest \/ (\E c \in Calls, part \in {"whole", "head"} : Log(c, part))
  <2>1. PICK p \in Pieces : AppendPiece(p)
    BY <1>4, WriterStep
  <2>2. files'[n] = files[n] \/ files'[n] = Append(files[n], p)
    BY <2>1, AppendPieceAt
  <2> QED
    BY <1>1, <2>2, AppendAt
<1>5. CASE Read
  BY <1>2, <1>5, ReadIs DEF ReadOf, logVars
<1> QED
  BY <1>2, <1>3, <1>4, <1>5
     DEF vars, logVars, Next, Send, SendFails, Resume, Pop, Connect, ConnectFails, Response,
         StreamEnds, StreamFails, Open, OpenFails, ReadFails, ReadFailsInLine, CreateLog,
         Consume, Close

\* What is dropped stays dropped.
LEMMA DroppedStays == [Next]_vars => dropped \subseteq dropped'
<1> SUFFICES ASSUME [Next]_vars PROVE dropped \subseteq dropped'
  OBVIOUS
<1>1. CASE ReadFailsInLine
  BY <1>1 DEF ReadFailsInLine
<1>2. CASE Read
  BY <1>2 DEF Read, Take, history
<1> QED
  BY <1>1, <1>2
     DEF vars, history, Next, Send, SendFails, Resume, Pop, Connect, ConnectFails, Response,
         StreamEnds, StreamFails, Open, OpenFails, ReadFails, Log, LogRest, AppendPiece,
         CreateLog, Rotate, Consume, Close

\* A line that was passed is on its way still.
LEMMA PassedStays ==
  ASSUME TypeOK, NothingIsLost, [Next]_vars, pc # "stopped", pc' # "stopped", IsLog,
         UNCHANGED <<backend, conn, start>>, reader # None, reader'.file = reader.file,
         NEW k \in (start + 1)..reader.pos, Passed(k)'
  PROVE  LineEvent(k)' \in OnItsWay'
<1>1. PICK n \in DOMAIN files, f \in Seq(Pieces) : n = reader.file /\ f = files[n]
  BY ReaderFile
<1>2. k \in DOMAIN f
  BY <1>1, LenProperties DEF TypeOK, ReaderInFile, LogTypes, Position
<1>3. PICK q \in Pieces : q = f[k] /\ files'[n][k] = q
  BY <1>1, <1>2, PiecesStay, ElementAt
<1>4. Passed(k)
  BY <1>1, <1>3, DroppedStays DEF Passed
<1>5. /\ LineEvent(k)' = EventOf(q.rec, Convert(q.call))
      /\ LineEvent(k) = EventOf(q.rec, Convert(q.call))
  BY <1>1, <1>3 DEF LineEvent, EventOf, Convert
<1>6. LineEvent(k) \in OnItsWay
  BY <1>4, LostMeans
<1>7. LineEvent(k) # None
  <2>1. q.call # "noise" /\ q.call \in Calls /\ q.rec \in Nat
    BY <1>1, <1>3, <1>4 DEF Passed, Pieces
  <2>2. Convert(q.call) \in EventType
    BY <2>1, ConvertType DEF TypeOK, TaskTypes
  <2> QED
    BY <1>5, <2>1, <2>2, EventOfType
<1> QED
  BY <1>5, <1>6, <1>7, StaysOnItsWay

LEMMA StepNothingIsLost ==
  ASSUME TypeOK, LinesInOrder, NothingIsLost, [Next]_vars
  PROVE  NothingIsLost'
<1> SUFFICES ASSUME pc' # "stopped" PROVE NothingIsLost'
  BY DEF NothingIsLost
<1>0. TypeOK'
  BY StepTypeOK
<1>1. pc # "stopped"
  BY ReadIs
     DEF vars, history, Next, Send, SendFails, Resume, Pop, Connect, ConnectFails, Response,
         StreamEnds, StreamFails, Open, OpenFails, ReadOf, ReadFails, ReadFailsInLine, Log,
         LogRest, AppendPiece, CreateLog, Rotate, Consume, Close
<1>2. UNCHANGED backend
  <2>1. CASE Read
    BY <2>1, ReadIs DEF ReadOf
  <2> QED
    BY <2>1
       DEF vars, Next, Send, SendFails, Resume, Pop, Connect, ConnectFails, Response,
           StreamEnds, StreamFails, Open, OpenFails, ReadFails, ReadFailsInLine, Log, LogRest,
           AppendPiece, CreateLog, Rotate, Consume, Close
<1>3. CASE ~IsLog
  <2>1. received \subseteq OnItsWay /\ received \subseteq Event /\ ~IsLog'
    BY <1>1, <1>2, <1>3, LostMeans DEF TypeOK, EventTypes, IsLog
  <2>2. received \subseteq OnItsWay'
    BY <2>1, StaysOnItsWay, AdaptersAssumption
  <2>3. ASSUME UNCHANGED received PROVE received' \subseteq OnItsWay'
    BY <2>2, <2>3
  <2>4. ASSUME NEW c \in Calls, Response(c) PROVE received' \subseteq OnItsWay'
    <3>1. PICK type \in EventType \cup {None} : type = Convert(c)
      BY ConvertType DEF TypeOK, TaskTypes
    <3>2. CASE type = None
      BY <2>2, <2>4, <3>1, <3>2 DEF Response
    <3>3. CASE type # None
      <4>1. PICK e \in Event : e = EventOf(made + 1, type)
        BY <3>3, EventOfType DEF TypeOK, TaskTypes
      <4>2. ToSet(Append(buffer, e)) = ToSet(buffer) \cup {e}
        BY AppendAt DEF TypeOK, EventTypes
      <4>3. e \in OnItsWay'
        BY <2>4, <3>1, <3>3, <4>1, <4>2 DEF Response, OnItsWay
      <4> QED
        BY <2>2, <2>4, <3>1, <3>3, <4>1, <4>3 DEF Response
    <3> QED
      BY <3>2, <3>3
  <2>5. received' \subseteq OnItsWay'
    BY <1>3, <2>3, <2>4
       DEF vars, history, IsLog, Next, Send, SendFails, Resume, Pop, Connect, ConnectFails,
           StreamEnds, StreamFails, Open, OpenFails, Read, ReadFails, ReadFailsInLine, Log,
           LogRest, CreateLog, Rotate, Consume, Close
  <2> QED
    BY <2>1, <2>5, LostMeansThen
<1>4. CASE IsLog
  <2>1. IsLog' /\ conn' = 0 /\ conn = 0
    BY <1>0, <1>2, <1>4 DEF TypeOK, OneBackend, IsLog
  <2> SUFFICES ASSUME reader' # None, NEW k, Passed(k)' PROVE LineEvent(k)' \in OnItsWay'
    BY <2>1, LostMeansThen
  <2>2. CASE Open
    <3>1. PICK m \in Nat : start' = m /\ reader'.pos = m
      BY <1>0, <2>2 DEF Open, TypeOK, LogTypes
    <3> QED
      BY <3>1 DEF Passed
  <2>3. CASE Read
    <3>1. PICK f \in Seq(Pieces), p \in Nat, l \in {1, 2}, type \in EventType \cup {None} :
            ReadOf(f, p, l, type)
      BY <2>3, ReadIs
    <3>2. PICK r \in Position :
              r = reader /\ r.file \in DOMAIN files /\ files[r.file] = f /\ r.pos = p
      BY <3>1, ReaderFile DEF ReadOf
    <3>3. reader' = [r EXCEPT !.pos = p + l] /\ UNCHANGED <<files, start>> /\ reader # None
      BY <3>1, <3>2 DEF ReadOf, logVars, history
    <3>4. reader'.file = r.file /\ reader'.pos = p + l
      BY <3>2, <3>3 DEF Position
    <3>5. PICK s \in Nat : s = start
      BY DEF TypeOK, LogTypes
    <3>6. k \in (s + 1)..(p + l) /\ f[k].part = "whole" /\ f[k].call # "noise"
      BY <3>2, <3>3, <3>4, <3>5 DEF Passed
    <3>7. CASE k <= p
      <4>1. k \in (start + 1)..reader.pos
        BY <3>2, <3>5, <3>6, <3>7
      <4> QED
        BY <1>1, <1>2, <1>4, <2>1, <3>2, <3>3, <3>4, <4>1, PassedStays
    <3>8. CASE k = p + 1
      <4>1. type = Convert(f[k].call) /\ f[k] \in Pieces
        BY <3>1, <3>6, <3>8, LineRead DEF ReadOf
      <4>2. type # None
        BY <3>6, <4>1, ConvertType DEF TypeOK, TaskTypes, Pieces
      <4>3. held' = EventOf(f[k].rec, type)
        BY <3>1, <3>8, <4>2 DEF ReadOf
      <4>4. LineEvent(k)' = EventOf(f[k].rec, type)
        BY <1>2, <2>1, <3>2, <3>3, <3>4, <4>1 DEF LineEvent, EventOf, Convert
      <4> QED
        BY <4>3, <4>4 DEF OnItsWay
    <3>9. CASE k = p + 2 /\ l = 2
      <4>1. f[p + 1].part = "head" /\ p + 2 <= Len(f) /\ p + 1 \in DOMAIN f /\ Lines(f)
        BY <3>1, <3>9, LineRead DEF ReadOf
      <4>2. PICK i \in DOMAIN f : i = p + 1 /\ i < Len(f) /\ i + 1 = k
        BY <3>9, <4>1
      <4>3. f[i + 1].part = "rest"
        BY <4>1, <4>2 DEF Lines
      <4> QED
        BY <3>6, <4>2, <4>3
    <3> QED
      BY <3>6, <3>7, <3>8, <3>9
  <2>4. CASE ReadFailsInLine
    <3>1. PICK f \in Seq(Pieces), p \in Nat, l \in {1, 2} : DropOf(f, p, l)
      BY <2>4, DropIs
    <3>2. PICK r \in Position :
              r = reader /\ r.file \in DOMAIN files /\ files[r.file] = f /\ r.pos = p
      BY <3>1, ReaderFile DEF DropOf
    <3>3. reader' = [r EXCEPT !.pos = p + l] /\ UNCHANGED <<files, start, conn>>
          /\ reader # None
      BY <3>1, <3>2 DEF DropOf, logVars
    <3>4. reader'.file = r.file /\ reader'.pos = p + l
      BY <3>2, <3>3 DEF Position
    <3>5. PICK s \in Nat : s = start
      BY DEF TypeOK, LogTypes
    <3>6. k \in (s + 1)..(p + l) /\ f[k].part = "whole" /\ f[k].rec \notin dropped'
      BY <3>2, <3>3, <3>4, <3>5 DEF Passed
    <3>7. CASE k <= p
      <4>1. k \in (start + 1)..reader.pos
        BY <3>2, <3>5, <3>6, <3>7
      <4> QED
        BY <1>1, <1>2, <1>4, <2>1, <3>2, <3>3, <3>4, <4>1, PassedStays
    <3>8. k # p + 1
      BY <3>1, <3>6 DEF DropOf
    <3>9. CASE k = p + 2 /\ l = 2
      <4>1. f[p + 1].part = "head" /\ p + 2 <= Len(f) /\ Lines(f)
        BY <3>1, <3>2, <3>9 DEF DropOf, LinesInOrder
      <4>2. PICK m \in Nat : m = Len(f) /\ DOMAIN f = 1..m
        BY LenProperties
      <4>3. PICK i \in DOMAIN f : i = p + 1 /\ i < Len(f) /\ i + 1 = k
        BY <3>9, <4>1, <4>2
      <4>4. f[i + 1].part = "rest"
        BY <4>1, <4>3 DEF Lines
      <4> QED
        BY <3>6, <4>3, <4>4
    <3> QED
      BY <3>6, <3>7, <3>8, <3>9
  <2>5. CASE UNCHANGED <<reader, start>>
    BY <1>1, <1>2, <1>4, <2>1, <2>5, PassedStays DEF Passed
  <2> QED
    BY <1>4, <2>2, <2>3, <2>4, <2>5
       DEF vars, history, Next, IsLog, Send, SendFails, Resume, Pop, Connect, ConnectFails,
           Response, StreamEnds, StreamFails, OpenFails, ReadFails, Log, LogRest, AppendPiece,
           CreateLog, Rotate, Consume, Close
<1> QED
  BY <1>3, <1>4

-----------------------------------------------------------------------------
(***************************************************************************)
(* The theorems                                                            *)
(***************************************************************************)
LEMMA IInvHolds == Spec => []IInv
<1>1. Init => IInv
  BY InitTypeOK, InitInvariant DEF IInv
<1>2. IInv /\ [Next]_vars => IInv'
  BY StepTypeOK, StepApart, StepLines, StepInLogOrder, StepNothingIsLost DEF IInv
<1> QED
  BY <1>1, <1>2, PTL DEF Spec

\* The adapters' variables have their types: the event about to be sent is there
\* exactly while it is sent, the reader is inside the file it has open, and only
\* Tetragon has a buffer (adapter/).
THEOREM TypeCorrect == Spec => []TypeOK
<1>1. IInv => TypeOK
  BY DEF IInv
<1> QED
  BY <1>1, IInvHolds, PTL

\* No record is sent twice, and none overtakes another of its log, or of an
\* earlier connection (next_event of the three adapters).
THEOREM SentOnceInOrder == Spec => []OncePerRecord
<1>1. IInv => OncePerRecord
  BY DEF IInv, OncePerRecord, Apart, ByConnection, InLogOrder
<1> QED
  BY <1>1, IInvHolds, PTL

\* What Tetragon has reported, and what a log's reader has passed, is in the
\* buffer, about to be sent, or sent, whatever errors come, but for a line that
\* was written in two parts or that read_line failed on (next_event of the three
\* adapters: falco.rs:57-58, auditd.rs:57-58, tetragon.rs:86-89).
THEOREM OnTheWayOrSent == Spec => []NothingIsLost
<1>1. IInv => NothingIsLost
  BY DEF IInv
<1> QED
  BY <1>1, IInvHolds, PTL

=============================================================================
