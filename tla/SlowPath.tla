------------------------------ MODULE SlowPath ------------------------------
(***************************************************************************)
(* The slow path (slow_path/): each daemon's worker embeds an event, mixes *)
(* its vector with the recent ones of the same process, asks Qdrant for    *)
(* similar vectors, raises an alert if there are none, and stores the      *)
(* vector as the baseline of the binary.  The daemons of a cluster share   *)
(* one Qdrant and its collection.                                          *)
(*                                                                         *)
(* A vector is the text it was made from, followed by the texts of the     *)
(* context it was mixed with; a context of nothing but the same text does  *)
(* not change it.  Every request can be answered with an error, or not at  *)
(* all, before or after Qdrant has done what it asks.                      *)
(***************************************************************************)
EXTENDS Integers, Sequences, FiniteSets, SequencesExt

CONSTANTS
  Node,       \* daemons
  Pid, Binary, Text,
  Dim,        \* dimensions of embedders
  Times,      \* timestamps of events, in any order
  Events,     \* events that are analyzed
  Configs,    \* configurations that are loaded
  WindowNs,   \* time_window_secs
  MaxPerPid,  \* MAX_PER_PID
  MaxEvents,  \* bound: events analyzed
  MaxReloads, \* bound: reloads
  None

SlowPathConfig == [enabled : BOOLEAN, dim : Dim, backend : {"qdrant", "usearch"}]

Event == [pid : Pid, binary : Binary, text : Text, at : Times,
          action : {"Allowed", "Logged", "Alerted"}]

Vector == Seq(Text)

\* A collection has at most one point for each binary.
Collection == [dim : Dim, points : [Binary -> Vector \cup {None}]]

ASSUME SlowPathAssumption ==
  /\ None \notin Vector /\ None \notin Event /\ None \notin Collection
  /\ Events \subseteq Event /\ Times \subseteq Nat
  /\ Configs \subseteq SlowPathConfig
  /\ WindowNs \in Nat /\ MaxPerPid \in Nat \ {0}
  /\ MaxEvents \in Nat /\ MaxReloads \in Nat

VARIABLES
  cfg,        \* cfg[n]: the configuration of node n
  available,  \* available[n]: the collection was ensured when it was loaded
  pc,         \* pc[n]: where n's worker is
  ev,         \* ev[n]: the event it analyzes, or None
  vector,     \* vector[n]: its search vector
  store,      \* store[n][p]: the context of process p: [at, text], oldest first
  coll,       \* the collection: [dim, points], or None
  past,       \* history: past[n][p]: all texts embedded since n's last load
  late,       \* the update Qdrant has acknowledged and not applied, or None
  base,       \* history: base[n][b]: the vector n stored last for b, if it is there
  refused,    \* history: Qdrant refused a request of n's last load
  misled,     \* history: Qdrant answered n's last search with an error
  events, reloads  \* history: their numbers

collVars == <<coll, base, late>>
ctxVars == <<store, past>>
counters == <<events, reloads>>
vars == <<cfg, available, pc, ev, vector, collVars, ctxVars, refused, misled, counters>>

NoContext == [p \in Pid |-> <<>>]
NoBase == [b \in Binary |-> None]

Init ==
  /\ \E c \in Configs : cfg = [n \in Node |-> c]
  /\ available = [n \in Node |-> FALSE]
  /\ pc = [n \in Node |-> "new"]
  /\ ev = [n \in Node |-> None] /\ vector = [n \in Node |-> <<>>]
  /\ store = [n \in Node |-> NoContext] /\ past = [n \in Node |-> NoContext]
  /\ coll \in {None} \cup [dim : {c.dim : c \in Configs}, points : {NoBase}]
  /\ base = [n \in Node |-> NoBase] /\ late = None
  /\ refused = [n \in Node |-> FALSE] /\ misled = [n \in Node |-> FALSE]
  /\ events = 0 /\ reloads = 0

-----------------------------------------------------------------------------
(***************************************************************************)
(* SlowPath::new and qdrant_ensure                                         *)
(***************************************************************************)
Ready(n, ok) ==
  /\ pc' = [pc EXCEPT ![n] = "idle"]
  /\ available' = [available EXCEPT ![n] = ok]

Goto(n, label) == pc' = [pc EXCEPT ![n] = label] /\ UNCHANGED available

\* Only an enabled Qdrant has something to ensure.
New(n) ==
  /\ pc[n] = "new"
  /\ IF cfg[n].enabled /\ cfg[n].backend = "qdrant"
     THEN Goto(n, "check") ELSE Ready(n, cfg[n].enabled)
  /\ UNCHANGED <<cfg, ev, vector, collVars, ctxVars, refused, misled, counters>>

Fits(n) == coll # None /\ coll.dim = cfg[n].dim

\* Slip: a collection that exists is taken as it is.
CheckExists(n) ==
  /\ pc[n] = "check"
  /\ IF coll = None THEN Goto(n, "put") ELSE Ready(n, TRUE)
  /\ UNCHANGED <<cfg, ev, vector, collVars, ctxVars, refused, misled, counters>>

\* GET: the collection is missing, is as it should be, or has another dimension.
Check(n) ==
  /\ pc[n] = "check"
  /\ \/ coll = None /\ Goto(n, "put")
     \/ Fits(n) /\ Ready(n, TRUE)
     \/ coll # None /\ ~Fits(n) /\ Goto(n, "delete")
  /\ UNCHANGED <<cfg, ev, vector, collVars, ctxVars, refused, misled, counters>>

\* What Qdrant does with a DELETE, whatever the collection has become since it
\* was checked, and with a PUT, which leaves a collection alone that exists.
Done(n) ==
  IF pc[n] = "delete"
  THEN coll' = None /\ base' = [m \in Node |-> NoBase] /\ late' = None
  ELSE /\ coll' = IF coll = None THEN [dim |-> cfg[n].dim, points |-> NoBase] ELSE coll
       /\ UNCHANGED <<base, late>>

AfterAnswer(n) == IF pc[n] = "delete" THEN Goto(n, "put") ELSE Ready(n, TRUE)

Answered(n) ==
  /\ pc[n] \in {"delete", "put"}
  /\ Done(n) /\ AfterAnswer(n)
  /\ UNCHANGED <<cfg, ev, vector, ctxVars, refused, misled, counters>>

\* An answer that is an error counts as success: the status is not looked at, and
\* that of the GET only for 404.
Refused(n) ==
  /\ pc[n] \in {"check", "delete", "put"}
  /\ AfterAnswer(n) /\ refused' = [refused EXCEPT ![n] = TRUE]
  /\ UNCHANGED <<cfg, ev, vector, collVars, ctxVars, misled, counters>>

\* No answer, done or not: the slow path is off until the next reload.
EnsureFails(n) ==
  /\ pc[n] \in {"check", "delete", "put"}
  /\ Ready(n, FALSE)
  /\ \/ pc[n] # "check" /\ Done(n)
     \/ UNCHANGED collVars
  /\ UNCHANGED <<cfg, ev, vector, ctxVars, refused, misled, counters>>

\* The worker replaces its SlowPath, and the context is gone.
Reload(n, c) ==
  /\ pc[n] = "idle" /\ reloads < MaxReloads /\ reloads' = reloads + 1
  /\ cfg' = [cfg EXCEPT ![n] = c] /\ available' = [available EXCEPT ![n] = FALSE]
  /\ pc' = [pc EXCEPT ![n] = "new"] /\ refused' = [refused EXCEPT ![n] = FALSE]
  /\ store' = [store EXCEPT ![n] = NoContext] /\ past' = [past EXCEPT ![n] = NoContext]
  /\ UNCHANGED <<ev, vector, collVars, misled, events>>

-----------------------------------------------------------------------------
(***************************************************************************)
(* analyze                                                                 *)
(***************************************************************************)
\* Blocked events, and all events while the slow path is off, change nothing.
Analyze(n, e) ==
  /\ pc[n] = "idle" /\ cfg[n].enabled /\ available[n]
  /\ events < MaxEvents /\ events' = events + 1
  /\ Goto(n, "embed") /\ ev' = [ev EXCEPT ![n] = e]
  /\ UNCHANGED <<cfg, vector, collVars, ctxVars, refused, misled, reloads>>

\* The provider fails, or its vector has another dimension than it should.
EmbedFails(n) ==
  /\ pc[n] = "embed"
  /\ Goto(n, "idle") /\ ev' = [ev EXCEPT ![n] = None]
  /\ UNCHANGED <<cfg, vector, collVars, ctxVars, refused, misled, counters>>

\* ContextWindow::push: popped from the front are those before the cutoff, as
\* long as the front is, and those above the cap.
Push(ring, at, text) ==
  LET r == Append(ring, [at |-> at, text |-> text])
      old == {i \in DOMAIN r : \A j \in 1..i : r[j].at < at - WindowNs}
      over == 1..(Len(r) - MaxPerPid)
  IN  SubSeq(r, Cardinality(old \cup over) + 1, Len(r))

Texts(ring) == [i \in DOMAIN ring |-> ring[i].text]

\* blend of a vector with the context vector
Blend(text, ctx) == IF ToSet(ctx) \subseteq {text} THEN <<text>> ELSE <<text>> \o ctx

\* Slip: the event is pushed before the context is read.
EmbedAfterPush(n) ==
  /\ pc[n] = "embed" /\ Goto(n, "search")
  /\ LET e == ev[n]
         ring == Push(store[n][e.pid], e.at, e.text)
     IN  /\ vector' = [vector EXCEPT ![n] = Blend(e.text, Texts(ring))]
         /\ store' = [store EXCEPT ![n][e.pid] = ring]
         /\ past' = [past EXCEPT ![n][e.pid] = Append(@, e.text)]
  /\ UNCHANGED <<cfg, ev, collVars, refused, misled, counters>>

\* The context is read, then the event is pushed.
Embed(n) ==
  /\ pc[n] = "embed" /\ Goto(n, "search")
  /\ LET e == ev[n]
         ring == store[n][e.pid]
     IN  /\ vector' = [vector EXCEPT ![n] = Blend(e.text, Texts(ring))]
         /\ store' = [store EXCEPT ![n][e.pid] = Push(ring, e.at, e.text)]
         /\ past' = [past EXCEPT ![n][e.pid] = Append(@, e.text)]
  /\ UNCHANGED <<cfg, ev, collVars, refused, misled, counters>>

\* What a search for the vector of n can find: nothing in uSearch, and nothing
\* where the collection does not fit, since an answer without a result is read
\* as no scores; the vector itself if it is stored; others at will.
Found(n) ==
  LET stored == IF cfg[n].backend = "qdrant" /\ Fits(n)
                THEN {coll.points[b] : b \in Binary} \ {None} ELSE {}
  IN  CASE vector[n] \in stored -> {TRUE} [] stored = {} -> {FALSE} [] OTHER -> BOOLEAN

\* If nothing is found the action becomes Alerted, if it was Allowed.
Search(n) ==
  /\ pc[n] = "search" /\ Goto(n, "upsert")
  /\ \E found \in Found(n) :
       ev' = IF ~found /\ ev[n].action = "Allowed"
             THEN [ev EXCEPT ![n].action = "Alerted"] ELSE ev
  /\ UNCHANGED <<cfg, vector, collVars, ctxVars, refused, misled, counters>>

\* An error in JSON is read as no scores too, and nothing has been found.
SearchRefused(n) ==
  /\ pc[n] = "search" /\ cfg[n].backend = "qdrant" /\ Goto(n, "upsert")
  /\ ev' = IF ev[n].action = "Allowed" THEN [ev EXCEPT ![n].action = "Alerted"] ELSE ev
  /\ misled' = [misled EXCEPT ![n] = TRUE]
  /\ UNCHANGED <<cfg, vector, collVars, ctxVars, refused, counters>>

\* No answer, or one that is not JSON, is no anomaly.
SearchFails(n) ==
  /\ pc[n] = "search" /\ cfg[n].backend = "qdrant" /\ Goto(n, "upsert")
  /\ UNCHANGED <<cfg, ev, vector, collVars, ctxVars, refused, misled, counters>>

\* The result is ignored, an error as well.  Qdrant is not asked to wait until the
\* update is applied; no more than one waits (bound).
Upsert(n) ==
  /\ pc[n] = "upsert" /\ Goto(n, "idle")
  /\ ev' = [ev EXCEPT ![n] = None] /\ vector' = [vector EXCEPT ![n] = <<>>]
  /\ misled' = [misled EXCEPT ![n] = FALSE]
  /\ \/ /\ cfg[n].backend = "qdrant" /\ Fits(n) /\ late = None
        /\ late' = [node |-> n, binary |-> ev[n].binary, vector |-> vector[n]]
     \/ UNCHANGED late
  /\ UNCHANGED <<cfg, coll, base, ctxVars, refused, counters>>

Baseline(n, b, v) ==
  base' = [m \in Node |-> [base[m] EXCEPT ![b] = IF m = n THEN v ELSE None]]

\* Slip: a binary keeps its first baseline.
StoreFirst(u) ==
  /\ coll' = [coll EXCEPT !.points[u.binary] = IF @ = None THEN u.vector ELSE @]
  /\ Baseline(u.node, u.binary, u.vector)

\* The point of the binary is replaced, for all nodes.
Store(u) ==
  /\ coll' = [coll EXCEPT !.points[u.binary] = u.vector]
  /\ Baseline(u.node, u.binary, u.vector)

Apply ==
  /\ late # None
  /\ Store(late) /\ late' = None
  /\ UNCHANGED <<cfg, available, pc, ev, vector, ctxVars, refused, misled, counters>>

NodeStep(n) ==
  \/ New(n) \/ Check(n) \/ Answered(n) \/ Refused(n) \/ EnsureFails(n)
  \/ \E c \in Configs : Reload(n, c)
  \/ \E e \in Events : Analyze(n, e)
  \/ EmbedFails(n) \/ Embed(n) \/ Search(n) \/ SearchRefused(n) \/ SearchFails(n)
  \/ Upsert(n)

Next == (\E n \in Node : NodeStep(n)) \/ Apply

Spec == Init /\ [][Next]_vars

-----------------------------------------------------------------------------
\* What an event is mixed with are the latest events of the same process before
\* it, at most MAX_PER_PID, and never the event itself ("so the current event
\* doesn't pollute its own search", slow_path/mod.rs:82), whatever order their
\* timestamps have and however the slow path is reloaded.
ContextIsPast ==
  \A n \in Node : pc[n] \in {"search", "upsert"} =>
    LET before == Front(past[n][ev[n].pid])
    IN  \E k \in 0..Len(before) :
          /\ k <= MaxPerPid
          /\ vector[n] = Blend(ev[n].text, SubSeq(before, Len(before) - k + 1, Len(before)))

\* When all daemons have settled on one dimension, and Qdrant refused none of
\* their requests, the collection has it: though each of them checks first and
\* deletes later, and others create the collection in between, the last one
\* leaves it as all need it.
SettledCollectionFits ==
  (\A n \in Node : /\ pc[n] \notin {"new", "check", "delete", "put"}
                   /\ available[n] /\ cfg[n].backend = "qdrant" /\ ~refused[n]
                   /\ \A m \in Node : cfg[m].dim = cfg[n].dim)
    => \A n \in Node : Fits(n)

\* What a daemon has stored, Qdrant has applied and nobody has replaced or deleted
\* since is no anomaly when the daemon sees it again, unless Qdrant answers the
\* search with an error: a vector is stored as it is searched for.
RepeatsAreNormal ==
  [][\A n \in Node :
       (/\ pc[n] = "search" /\ ev'[n] # ev[n] /\ ~misled'[n]
        /\ cfg[n].backend = "qdrant" /\ Fits(n))
         => base[n][ev[n].binary] # vector[n]]_vars

=============================================================================
