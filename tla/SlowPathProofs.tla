--------------------------- MODULE SlowPathProofs ---------------------------
(***************************************************************************)
(* Proofs about SlowPath, for any number of daemons, processes, binaries   *)
(* and texts: what a vector is mixed with, that what a daemon stored is    *)
(* found again, and that daemons of one dimension leave a collection that  *)
(* fits them.                                                              *)
(***************************************************************************)
EXTENDS SlowPath, FiniteSetTheorems, SequenceTheorems, TLAPS

-----------------------------------------------------------------------------
(***************************************************************************)
(* Types                                                                   *)
(***************************************************************************)
Ensuring  == {"new", "check", "delete", "put"}
Analyzing == {"embed", "search", "upsert"}

Pushed == [at : Times, text : Text]

Update == [node : Node, binary : Binary, vector : Vector]

NodeTypes ==
  /\ cfg \in [Node -> Configs]
  /\ available \in [Node -> BOOLEAN]
  /\ refused \in [Node -> BOOLEAN] /\ misled \in [Node -> BOOLEAN]
  /\ pc \in [Node -> Ensuring \cup {"idle"} \cup Analyzing]

EventTypes ==
  /\ ev \in [Node -> Event \cup {None}]
  /\ \A n \in Node : pc[n] \in Analyzing => ev[n] # None
  /\ vector \in [Node -> Vector]

CollTypes ==
  /\ coll \in Collection \cup {None}
  /\ base \in [Node -> [Binary -> Vector \cup {None}]]
  /\ late \in Update \cup {None} /\ (late # None => coll # None)

ContextTypes ==
  /\ store \in [Node -> [Pid -> Seq(Pushed)]]
  /\ past \in [Node -> [Pid -> Seq(Text)]]

CounterTypes == events \in Nat /\ reloads \in Nat

TypeOK == NodeTypes /\ EventTypes /\ CollTypes /\ ContextTypes /\ CounterTypes

-----------------------------------------------------------------------------
(***************************************************************************)
(* The inductive invariant                                                 *)
(***************************************************************************)
\* The context of a process is what was pushed last, and not too much of it.
Suffix(ring, texts) ==
  /\ Len(ring) <= MaxPerPid /\ Len(ring) <= Len(texts)
  /\ \A i \in DOMAIN ring : ring[i].text = texts[Len(texts) - Len(ring) + i]

Windows == \A n \in Node, p \in Pid : Suffix(store[n][p], past[n][p])

\* A baseline that nobody has replaced or deleted is the point of its binary.
Baselines ==
  \A n \in Node, b \in Binary :
    base[n][b] # None => coll # None /\ coll.points[b] = base[n][b]

\* What the collection may rely on: a node that it fits; a node that has yet to
\* look at it, or to delete it; a node about to create it, if it is gone; a node
\* that a request has failed, or that has no use for it.
Vouches(n) ==
  \/ Fits(n)
  \/ pc[n] \in {"new", "check", "delete"}
  \/ coll = None /\ pc[n] = "put"
  \/ refused[n]
  \/ pc[n] \notin Ensuring /\ ~available[n]
  \/ cfg[n].backend # "qdrant"

Ensured == Node # {} => \E n \in Node : Vouches(n)

IInv == TypeOK /\ Windows /\ ContextIsPast /\ Baselines /\ Ensured

-----------------------------------------------------------------------------
(***************************************************************************)
(* The context window                                                      *)
(***************************************************************************)
\* ContextWindow::push drops what is oldest, and at least what is too much.
LEMMA PushIs ==
  ASSUME NEW ring \in Seq(Pushed), NEW at \in Times, NEW text \in Text
  PROVE  \E d \in 0..(Len(ring) + 1) :
           /\ Push(ring, at, text) \in Seq(Pushed)
           /\ Len(Push(ring, at, text)) = Len(ring) + 1 - d
           /\ Len(ring) + 1 - d <= MaxPerPid
           /\ \A i \in 1..(Len(ring) + 1 - d) :
                Push(ring, at, text)[i].text
                  = IF d + i = Len(ring) + 1 THEN text ELSE ring[d + i].text
<1>1. PICK x \in Pushed : x = [at |-> at, text |-> text]
  BY DEF Pushed
<1>2. PICK r \in Seq(Pushed) : r = Append(ring, x)
  BY AppendProperties
<1>3. PICK n \in Nat : n = Len(ring)
  BY LenProperties
<1>4. /\ Len(r) = n + 1 /\ r[n + 1] = x /\ \A i \in 1..n : r[i] = ring[i]
  BY <1>2, <1>3, AppendProperties
<1>5. PICK old : old = {i \in DOMAIN r : \A j \in 1..i : r[j].at < at - WindowNs}
  OBVIOUS
<1>6. PICK over : over = 1..(Len(r) - MaxPerPid)
  OBVIOUS
<1>7. MaxPerPid \in Nat \ {0}
  BY SlowPathAssumption
<1>8. old \cup over \subseteq 1..(n + 1) /\ over \subseteq old \cup over
  BY <1>4, <1>5, <1>6, <1>7
<1>9. IsFiniteSet(1..(n + 1)) /\ Cardinality(1..(n + 1)) = n + 1
  BY FS_Interval
<1>10. PICK d : d = Cardinality(old \cup over)
  OBVIOUS
<1>11. IsFiniteSet(old \cup over) /\ d \in Nat /\ d <= n + 1
  <2>1. IsFiniteSet(old \cup over) /\ d <= Cardinality(1..(n + 1))
    BY <1>8, <1>9, <1>10, FS_Subset
  <2> QED
    BY <1>9, <1>10, <2>1, FS_CardinalityType
<1>12. n + 1 - d <= MaxPerPid
  <2>1. Cardinality(over) <= d
    BY <1>8, <1>10, <1>11, FS_Subset
  <2>2. Cardinality(over) = IF 1 > n + 1 - MaxPerPid THEN 0 ELSE n + 1 - MaxPerPid
    <3>1. PICK b \in Int : b = n + 1 - MaxPerPid
      BY <1>7
    <3>2. Len(r) - MaxPerPid = b
      BY <1>4, <1>7, <3>1
    <3>3. Cardinality(1..b) = IF 1 > b THEN 0 ELSE b - 1 + 1
      BY FS_Interval
    <3> QED
      BY <1>6, <3>1, <3>2, <3>3
  <2> QED
    BY <1>7, <1>11, <2>1, <2>2
<1>13. PICK u : u = SubSeq(r, d + 1, n + 1)
  OBVIOUS
<1>14. Push(ring, at, text) = u
  BY <1>1, <1>2, <1>4, <1>5, <1>6, <1>10, <1>13 DEF Push
<1>15. /\ u \in Seq(Pushed) /\ Len(u) = n + 1 - d
       /\ \A i \in 1..(n + 1 - d) : u[i] = r[d + i]
  <2>1. \A i \in (d + 1)..(n + 1) : r[i] \in Pushed
    BY <1>4, <1>11
  <2>2. PICK a \in Int, b \in Int : a = d + 1 /\ b = n + 1
    BY <1>11
  <2>3. /\ u \in Seq(Pushed) /\ Len(u) = IF a <= b THEN b - a + 1 ELSE 0
        /\ \A i \in 1..(b - a + 1) : u[i] = r[a + i - 1]
    BY <1>13, <2>1, <2>2, SubSeqProperties
  <2>4. b - a + 1 = n + 1 - d /\ (a > b => n + 1 - d = 0)
    BY <1>11, <2>2
  <2>5. Len(u) = n + 1 - d
    BY <1>11, <2>2, <2>3, <2>4
  <2>6. \A i \in 1..(n + 1 - d) : a + i - 1 = d + i
    BY <1>11, <2>2
  <2> QED
    BY <2>3, <2>4, <2>5, <2>6
<1>16. \A i \in 1..(n + 1 - d) :
         u[i].text = IF d + i = n + 1 THEN text ELSE ring[d + i].text
  BY <1>1, <1>4, <1>11, <1>15
<1> QED
  BY <1>3, <1>11, <1>12, <1>14, <1>15, <1>16

\* The context stays a suffix of what was pushed.
LEMMA PushKeepsSuffix ==
  ASSUME NEW ring \in Seq(Pushed), NEW texts \in Seq(Text), Suffix(ring, texts),
         NEW at \in Times, NEW text \in Text
  PROVE  Suffix(Push(ring, at, text), Append(texts, text))
<1>1. PICK n \in Nat, m \in Nat : n = Len(ring) /\ m = Len(texts)
  OBVIOUS
<1>2. PICK d \in 0..(n + 1) :
        /\ Push(ring, at, text) \in Seq(Pushed)
        /\ Len(Push(ring, at, text)) = n + 1 - d
        /\ n + 1 - d <= MaxPerPid
        /\ \A i \in 1..(n + 1 - d) :
             Push(ring, at, text)[i].text = IF d + i = n + 1 THEN text ELSE ring[d + i].text
  BY <1>1, PushIs
<1>3. PICK u \in Seq(Pushed) : u = Push(ring, at, text)
  BY <1>2
<1>4. PICK t : t = Append(texts, text)
  OBVIOUS
<1>t. t \in Seq(Text) /\ Len(t) = m + 1 /\ t[m + 1] = text /\ \A i \in 1..m : t[i] = texts[i]
  BY <1>1, <1>4, AppendProperties
<1>5. n <= m /\ \A i \in 1..n : ring[i].text = texts[m - n + i]
  BY <1>1, LenProperties DEF Suffix
<1>6. ASSUME NEW i \in 1..(n + 1 - d) PROVE u[i].text = t[(m + 1) - (n + 1 - d) + i]
  <2>1. (m + 1) - (n + 1 - d) + i = m - n + (d + i)
    BY <1>1, <1>2
  <2>2. CASE d + i = n + 1
    <3>1. m - n + (d + i) = m + 1
      BY <1>1, <1>2, <2>2
    <3> QED
      BY <1>2, <1>3, <1>t, <2>1, <2>2, <3>1
  <2>3. CASE d + i # n + 1
    <3>1. d + i \in 1..n /\ m - n + (d + i) \in 1..m
      BY <1>1, <1>2, <1>5, <2>3
    <3>2. u[i].text = ring[d + i].text
      BY <1>2, <1>3, <2>3
    <3>3. ring[d + i].text = texts[m - n + (d + i)]
      BY <1>5, <3>1
    <3> QED
      BY <1>t, <2>1, <3>1, <3>2, <3>3
  <2> QED
    BY <2>2, <2>3
<1>7. Len(u) = n + 1 - d /\ DOMAIN u = 1..(n + 1 - d)
  BY <1>2, <1>3, LenProperties
<1>8. n + 1 - d \in Nat /\ n + 1 - d <= m + 1
  BY <1>1, <1>2, <1>5
<1>9. PICK k \in Nat : k = n + 1 - d
  BY <1>8
<1> QED
  BY <1>2, <1>3, <1>4, <1>t, <1>6, <1>7, <1>8, <1>9 DEF Suffix

\* A suffix's texts are the last ones.
LEMMA SuffixTexts ==
  ASSUME NEW ring \in Seq(Pushed), NEW texts \in Seq(Text), Suffix(ring, texts)
  PROVE  /\ Texts(ring) \in Seq(Text)
         /\ Len(ring) \in 0..Len(texts) /\ Len(ring) <= MaxPerPid
         /\ Texts(ring) = SubSeq(texts, Len(texts) - Len(ring) + 1, Len(texts))
<1>1. PICK n \in Nat, m \in Nat : n = Len(ring) /\ m = Len(texts)
  OBVIOUS
<1>2. /\ n <= m /\ n <= MaxPerPid /\ DOMAIN ring = 1..n
      /\ \A i \in 1..n : ring[i].text = texts[m - n + i]
  BY <1>1, LenProperties DEF Suffix
<1>3. PICK t : t = Texts(ring)
  OBVIOUS
<1>4. t = [i \in 1..n |-> ring[i].text]
  BY <1>2, <1>3 DEF Texts
<1>5. t \in Seq(Text) /\ Len(t) = n
  <2>1. \A i \in 1..n : ring[i] \in Pushed
    BY <1>1
  <2>2. \A i \in 1..n : ring[i].text \in Text
    BY <2>1 DEF Pushed
  <2> QED
    BY <1>4, <2>2, IsASeq
<1>6. PICK u : u = SubSeq(texts, m - n + 1, m)
  OBVIOUS
<1>7. /\ u \in Seq(Text) /\ Len(u) = n
      /\ \A i \in 1..n : u[i] = texts[m - n + i]
  <2>1. \A i \in (m - n + 1)..m : texts[i] \in Text
    BY <1>1, <1>2, ElementOfSeq
  <2>. m - n + 1 \in Int
    BY <1>1
  <2>2. PICK a \in Int : a = m - n + 1
    OBVIOUS
  <2>3. /\ u \in Seq(Text) /\ Len(u) = IF a <= m THEN m - a + 1 ELSE 0
        /\ \A i \in 1..(m - a + 1) : u[i] = texts[a + i - 1]
    BY <1>1, <1>6, <2>1, <2>2, SubSeqProperties
  <2> QED
    BY <1>1, <1>2, <2>2, <2>3
<1>8. \A i \in 1..n : t[i] = u[i]
  BY <1>2, <1>4, <1>7
<1>9. t = u
  BY <1>5, <1>7, <1>8, SeqEqual
<1> QED
  BY <1>1, <1>2, <1>3, <1>5, <1>6, <1>9

\* What was there before the last text.
LEMMA FrontOfAppend ==
  ASSUME NEW S, NEW s \in Seq(S), NEW e \in S
  PROVE  Front(Append(s, e)) = s
<1>n. PICK n \in Nat : n = Len(s)
  BY LenProperties
<1>t. PICK t : t = Append(s, e)
  OBVIOUS
<1>1. t \in Seq(S) /\ Len(t) = n + 1 /\ \A i \in 1..n : t[i] = s[i]
  BY <1>n, <1>t, AppendProperties
<1>u. PICK u : u = SubSeq(t, 1, n)
  OBVIOUS
<1>2. u \in Seq(S) /\ Len(u) = n /\ \A i \in 1..n : u[i] = t[i]
  <2>1. \A i \in 1..n : t[i] \in S
    BY <1>n, <1>1, ElementOfSeq
  <2>2. PICK a \in Int : a = 1
    OBVIOUS
  <2>3. /\ u \in Seq(S) /\ Len(u) = IF a <= n THEN n - a + 1 ELSE 0
        /\ \A i \in 1..(n - a + 1) : u[i] = t[a + i - 1]
    BY <1>n, <1>u, <2>1, <2>2, SubSeqProperties
  <2> QED
    BY <1>n, <2>2, <2>3
<1>3. u = s
  BY <1>n, <1>1, <1>2, SeqEqual
<1> QED
  BY <1>n, <1>t, <1>u, <1>1, <1>2, <1>3 DEF Front

LEMMA TextsType ==
  ASSUME NEW ring \in Seq(Pushed)
  PROVE  Texts(ring) \in Seq(Text)
<1>1. PICK n \in Nat : n = Len(ring)
  BY LenProperties
<1>2. DOMAIN ring = 1..n /\ \A i \in 1..n : ring[i] \in Pushed
  BY <1>1, LenProperties, ElementOfSeq
<1>3. \A i \in 1..n : ring[i].text \in Text
  BY <1>2 DEF Pushed
<1>4. [i \in 1..n |-> ring[i].text] \in Seq(Text)
  BY <1>3, IsASeq
<1> QED
  BY <1>2, <1>4 DEF Texts

LEMMA BlendType ==
  ASSUME NEW text \in Text, NEW ctx \in Seq(Text)
  PROVE  Blend(text, ctx) \in Vector
  BY DEF Blend, Vector

-----------------------------------------------------------------------------
(***************************************************************************)
(* Types                                                                   *)
(***************************************************************************)
LEMMA InitTypeOK == Init => TypeOK
<1> SUFFICES ASSUME Init PROVE TypeOK
  OBVIOUS
<1>1. NoContext \in [Pid -> Seq(Pushed)] /\ NoContext \in [Pid -> Seq(Text)]
  BY DEF NoContext
<1>2. NoBase \in [Binary -> Vector \cup {None}]
  BY DEF NoBase
<1>3. NodeTypes
  BY DEF Init, NodeTypes, Ensuring
<1>4. EventTypes
  <2>1. <<>> \in Vector
    BY DEF Vector
  <2> QED
    BY <2>1 DEF Init, EventTypes, Analyzing
<1>5. CollTypes
  <2>1. \A c \in Configs : c.dim \in Dim
    BY SlowPathAssumption DEF SlowPathConfig
  <2> QED
    BY <1>2, <2>1 DEF Init, CollTypes, Collection
<1>6. ContextTypes
  BY <1>1 DEF Init, ContextTypes
<1> QED
  BY <1>3, <1>4, <1>5, <1>6 DEF TypeOK, Init, CounterTypes

\* An analyzed event, field by field.
LEMMA EventFields ==
  ASSUME TypeOK, NEW n \in Node, pc[n] \in Analyzing
  PROVE  /\ ev[n] \in Event /\ ev[n].pid \in Pid /\ ev[n].binary \in Binary
         /\ ev[n].text \in Text /\ ev[n].at \in Times
  BY DEF TypeOK, EventTypes, Event

LEMMA StepNodeTypes ==
  ASSUME TypeOK, Next
  PROVE  NodeTypes'
<1> USE DEF TypeOK, NodeTypes, Ensuring, Analyzing, Goto, Ready
<1>1. ASSUME NEW n \in Node, New(n) PROVE NodeTypes'
  <2>1. cfg[n].enabled \in BOOLEAN
    BY SlowPathAssumption DEF SlowPathConfig
  <2> QED
    BY <1>1, <2>1 DEF New
<1>2. ASSUME NEW n \in Node, Check(n) PROVE NodeTypes'
  BY <1>2 DEF Check
<1>3. ASSUME NEW n \in Node, Answered(n) \/ Refused(n) PROVE NodeTypes'
  BY <1>3 DEF Answered, Refused, AfterAnswer
<1>4. ASSUME NEW n \in Node, EnsureFails(n) PROVE NodeTypes'
  BY <1>4 DEF EnsureFails
<1>5. ASSUME NEW n \in Node, NEW c \in Configs, Reload(n, c) PROVE NodeTypes'
  BY <1>5 DEF Reload
<1>6. ASSUME NEW n \in Node, NEW e \in Events, Analyze(n, e) PROVE NodeTypes'
  BY <1>6 DEF Analyze
<1>7. ASSUME NEW n \in Node, EmbedFails(n) \/ Embed(n) PROVE NodeTypes'
  BY <1>7 DEF EmbedFails, Embed
<1>8. ASSUME NEW n \in Node, Search(n) \/ SearchRefused(n) \/ SearchFails(n) \/ Upsert(n)
      PROVE  NodeTypes'
  BY <1>8 DEF Search, SearchRefused, SearchFails, Upsert
<1>9. CASE Apply
  BY <1>9 DEF Apply
<1> QED
  BY <1>1, <1>2, <1>3, <1>4, <1>5, <1>6, <1>7, <1>8, <1>9 DEF Next, NodeStep

LEMMA StepEventTypes ==
  ASSUME TypeOK, Next
  PROVE  EventTypes'
<1> USE DEF TypeOK, NodeTypes, EventTypes, Ensuring, Analyzing, Goto, Ready
<1>1. ASSUME NEW n \in Node, New(n) \/ Check(n) \/ EnsureFails(n) PROVE EventTypes'
  BY <1>1 DEF New, Check, EnsureFails
<1>2. ASSUME NEW n \in Node, Answered(n) \/ Refused(n) PROVE EventTypes'
  BY <1>2 DEF Answered, Refused, AfterAnswer
<1>3. ASSUME NEW n \in Node, NEW c \in Configs, Reload(n, c) PROVE EventTypes'
  BY <1>3 DEF Reload
<1>4. ASSUME NEW n \in Node, NEW e \in Events, Analyze(n, e) PROVE EventTypes'
  <2>1. e \in Event /\ e # None
    BY SlowPathAssumption
  <2> QED
    BY <1>4, <2>1 DEF Analyze
<1>5. ASSUME NEW n \in Node, EmbedFails(n) PROVE EventTypes'
  BY <1>5 DEF EmbedFails
<1>6. ASSUME NEW n \in Node, Embed(n) PROVE EventTypes'
  <2>1. pc[n] \in Analyzing
    BY <1>6 DEF Embed
  <2>2. PICK ring : ring = store[n][ev[n].pid]
    OBVIOUS
  <2>3. ring \in Seq(Pushed)
    BY <2>1, <2>2, EventFields DEF ContextTypes
  <2>4. Texts(ring) \in Seq(Text)
    BY <2>3, TextsType
  <2>5. Blend(ev[n].text, Texts(ring)) \in Vector
    BY <2>1, <2>4, BlendType, EventFields
  <2>6. vector' \in [Node -> Vector]
    BY <1>6, <2>2, <2>5 DEF Embed
  <2> QED
    BY <1>6, <2>6 DEF Embed
<1>7. ASSUME NEW n \in Node, Search(n) \/ SearchRefused(n) PROVE EventTypes'
  <2>1. pc[n] \in Analyzing
    BY <1>7 DEF Search, SearchRefused
  <2>2. [ev[n] EXCEPT !.action = "Alerted"] \in Event /\ ev[n] # None
    BY <2>1, EventFields, SlowPathAssumption DEF Event
  <2>3. ev' = [ev EXCEPT ![n] = [ev[n] EXCEPT !.action = "Alerted"]] \/ ev' = ev
    BY <1>7 DEF Search, SearchRefused
  <2>4. ev' \in [Node -> Event \cup {None}] /\ \A m \in Node : ev[m] # None => ev'[m] # None
    BY <2>2, <2>3, SlowPathAssumption
  <2> QED
    BY <1>7, <2>4 DEF Search, SearchRefused
<1>8. ASSUME NEW n \in Node, SearchFails(n) PROVE EventTypes'
  BY <1>8 DEF SearchFails
<1>9. ASSUME NEW n \in Node, Upsert(n) PROVE EventTypes'
  <2>1. <<>> \in Vector
    BY DEF Vector
  <2> QED
    BY <1>9, <2>1 DEF Upsert
<1>10. CASE Apply
  BY <1>10 DEF Apply
<1> QED
  BY <1>1, <1>2, <1>3, <1>4, <1>5, <1>6, <1>7, <1>8, <1>9, <1>10 DEF Next, NodeStep

\* What a request does to the collection.
LEMMA DoneCollTypes ==
  ASSUME TypeOK, NEW n \in Node, Done(n)
  PROVE  CollTypes'
<1>1. NoBase \in [Binary -> Vector \cup {None}]
  BY DEF NoBase
<1>2. cfg[n].dim \in Dim
  BY SlowPathAssumption DEF TypeOK, NodeTypes, SlowPathConfig
<1>3. [dim |-> cfg[n].dim, points |-> NoBase] \in Collection
  BY <1>1, <1>2 DEF Collection
<1> QED
  BY <1>1, <1>3 DEF Done, TypeOK, CollTypes

\* An update that waits, and what it does to the collection.
LEMMA LateIs ==
  ASSUME TypeOK, late # None
  PROVE  /\ late \in Update /\ late.node \in Node /\ late.binary \in Binary
         /\ late.vector \in Vector /\ coll # None /\ coll \in Collection
  BY DEF TypeOK, CollTypes, Update

LEMMA StoreIs ==
  ASSUME TypeOK, late # None, Store(late)
  PROVE  /\ coll' \in Collection /\ coll'.dim = coll.dim
         /\ coll'.points[late.binary] = late.vector
         /\ \A b \in Binary : b # late.binary => coll'.points[b] = coll.points[b]
         /\ base' \in [Node -> [Binary -> Vector \cup {None}]]
         /\ \A m \in Node, b \in Binary :
              base'[m][b] = IF b # late.binary THEN base[m][b]
                            ELSE IF m = late.node THEN late.vector ELSE None
<1>1. PICK n \in Node, b \in Binary, v \in Vector :
        n = late.node /\ b = late.binary /\ v = late.vector
  BY LateIs
<1>2. coll \in Collection
  BY LateIs
<1>3. coll' = [coll EXCEPT !.points[b] = v]
  BY <1>1 DEF Store
<1>4. base' = [m \in Node |-> [base[m] EXCEPT ![b] = IF m = n THEN v ELSE None]]
  BY <1>1 DEF Store, Baseline
<1>5. /\ coll' \in Collection /\ coll'.dim = coll.dim /\ coll'.points[b] = v
      /\ \A c \in Binary : c # b => coll'.points[c] = coll.points[c]
  BY <1>2, <1>3 DEF Collection
<1>6. \A m \in Node : base[m] \in [Binary -> Vector \cup {None}]
  BY DEF TypeOK, CollTypes
<1>7. base' \in [Node -> [Binary -> Vector \cup {None}]]
  BY <1>4, <1>6
<1>8. \A m \in Node, c \in Binary :
        base'[m][c] = IF c # b THEN base[m][c] ELSE IF m = n THEN v ELSE None
  BY <1>4, <1>6
<1> QED
  BY <1>1, <1>5, <1>7, <1>8

LEMMA StepCollTypes ==
  ASSUME TypeOK, Next
  PROVE  CollTypes'
<1>1. ASSUME UNCHANGED collVars PROVE CollTypes'
  BY <1>1 DEF TypeOK, CollTypes, collVars
<1>2. ASSUME NEW n \in Node, Answered(n) \/ EnsureFails(n) PROVE CollTypes'
  BY <1>1, <1>2, DoneCollTypes DEF Answered, EnsureFails
<1>3. ASSUME NEW n \in Node, Upsert(n) PROVE CollTypes'
  <2>1. pc[n] \in Analyzing
    BY <1>3 DEF Upsert, Analyzing
  <2>2. [node |-> n, binary |-> ev[n].binary, vector |-> vector[n]] \in Update
    BY <2>1, EventFields DEF Update, TypeOK, EventTypes
  <2>3. late' = late \/ (late' \in Update /\ coll # None)
    BY <1>3, <2>2 DEF Upsert, Fits
  <2> QED
    BY <1>3, <2>3 DEF Upsert, TypeOK, CollTypes
<1>4. CASE Apply
  <2>1. coll' \in Collection /\ base' \in [Node -> [Binary -> Vector \cup {None}]]
    BY <1>4, StoreIs DEF Apply
  <2> QED
    BY <1>4, <2>1 DEF Apply, CollTypes
<1> QED
  BY <1>1, <1>2, <1>3, <1>4
     DEF Next, NodeStep, New, Check, Refused, Reload, Analyze, EmbedFails, Embed, Search,
         SearchRefused, SearchFails

-----------------------------------------------------------------------------
(***************************************************************************)
(* The context: its types, and what a vector is mixed with                 *)
(***************************************************************************)
\* Embed pushes to the context of one process of one node.
LEMMA EmbedPushes ==
  ASSUME TypeOK, NEW n \in Node, Embed(n)
  PROVE  \E p \in Pid, ring \in Seq(Pushed), t \in Seq(Text) :
           /\ p = ev[n].pid
           /\ ring = Push(store[n][p], ev[n].at, ev[n].text)
           /\ t = Append(past[n][p], ev[n].text)
           /\ store' = [store EXCEPT ![n][p] = ring] /\ past' = [past EXCEPT ![n][p] = t]
<1>1. PICK p \in Pid : p = ev[n].pid /\ ev[n].text \in Text /\ ev[n].at \in Times
  BY EventFields DEF Embed, Analyzing
<1>2. store[n] \in [Pid -> Seq(Pushed)] /\ past[n] \in [Pid -> Seq(Text)]
  BY DEF TypeOK, ContextTypes
<1>3. PICK ring \in Seq(Pushed) : ring = Push(store[n][p], ev[n].at, ev[n].text)
  BY <1>1, <1>2, PushIs
<1>4. PICK t \in Seq(Text) : t = Append(past[n][p], ev[n].text)
  BY <1>1, <1>2, AppendProperties
<1>5. store' = [store EXCEPT ![n][p] = ring] /\ past' = [past EXCEPT ![n][p] = t]
  BY <1>1, <1>2, <1>3, <1>4 DEF Embed, TypeOK, ContextTypes
<1> QED
  BY <1>1, <1>3, <1>4, <1>5

LEMMA StepContextTypes ==
  ASSUME TypeOK, Next
  PROVE  ContextTypes'
<1>1. ASSUME UNCHANGED ctxVars PROVE ContextTypes'
  BY <1>1 DEF TypeOK, ContextTypes, ctxVars
<1>2. ASSUME NEW n \in Node, NEW c \in Configs, Reload(n, c) PROVE ContextTypes'
  <2>1. NoContext \in [Pid -> Seq(Pushed)] /\ NoContext \in [Pid -> Seq(Text)]
    BY DEF NoContext
  <2> QED
    BY <1>2, <2>1 DEF Reload, TypeOK, ContextTypes
<1>3. ASSUME NEW n \in Node, Embed(n) PROVE ContextTypes'
  <2>1. PICK p \in Pid, ring \in Seq(Pushed), t \in Seq(Text) :
          store' = [store EXCEPT ![n][p] = ring] /\ past' = [past EXCEPT ![n][p] = t]
    BY <1>3, EmbedPushes
  <2> QED
    BY <2>1 DEF TypeOK, ContextTypes
<1> QED
  BY <1>1, <1>2, <1>3
     DEF Next, NodeStep, New, Check, Answered, Refused, EnsureFails, Analyze, EmbedFails, Search,
         SearchRefused, SearchFails, Upsert, Apply

LEMMA StepTypeOK == TypeOK /\ [Next]_vars => TypeOK'
<1> SUFFICES ASSUME TypeOK, [Next]_vars PROVE TypeOK'
  OBVIOUS
<1>1. CASE UNCHANGED vars
  BY <1>1
     DEF vars, collVars, ctxVars, counters, TypeOK, NodeTypes, EventTypes, CollTypes,
         ContextTypes, CounterTypes
<1>2. CASE Next
  <2>1. CounterTypes'
    <3>1. ASSUME NEW n \in Node, NEW c \in Configs, Reload(n, c) PROVE CounterTypes'
      BY <3>1 DEF TypeOK, CounterTypes, Reload
    <3>2. ASSUME NEW n \in Node, NEW e \in Events, Analyze(n, e) PROVE CounterTypes'
      BY <3>2 DEF TypeOK, CounterTypes, Analyze
    <3>3. ASSUME UNCHANGED counters PROVE CounterTypes'
      BY <3>3 DEF TypeOK, CounterTypes, counters
    <3> QED
      BY <1>2, <3>1, <3>2, <3>3
         DEF Next, NodeStep, New, Check, Answered, Refused, EnsureFails, EmbedFails, Embed,
             Search, SearchRefused, SearchFails, Upsert, Apply
  <2> QED
    BY <1>2, <2>1, StepNodeTypes, StepEventTypes, StepCollTypes, StepContextTypes DEF TypeOK
<1> QED
  BY <1>1, <1>2

LEMMA InitWindows == Init => Windows /\ ContextIsPast /\ Baselines /\ Ensured
<1> SUFFICES ASSUME Init PROVE Windows /\ ContextIsPast /\ Baselines /\ Ensured
  OBVIOUS
<1>1. Windows
  <2>1. Suffix(<<>>, <<>>)
    BY SlowPathAssumption DEF Suffix
  <2> QED
    BY <2>1 DEF Init, Windows, NoContext
<1>2. ContextIsPast
  BY DEF Init, ContextIsPast
<1>3. Baselines
  BY DEF Init, Baselines, NoBase
<1>4. Ensured
  BY DEF Init, Ensured, Vouches
<1> QED
  BY <1>1, <1>2, <1>3, <1>4

LEMMA StepWindows ==
  ASSUME TypeOK, Windows, [Next]_vars
  PROVE  Windows'
<1>1. ASSUME UNCHANGED ctxVars PROVE Windows'
  BY <1>1 DEF ctxVars, Windows
<1>2. ASSUME NEW n \in Node, NEW c \in Configs, Reload(n, c) PROVE Windows'
  <2>1. Suffix(<<>>, <<>>)
    BY SlowPathAssumption DEF Suffix
  <2> QED
    BY <1>2, <2>1 DEF Reload, Windows, NoContext, TypeOK, ContextTypes
<1>3. ASSUME NEW n \in Node, Embed(n) PROVE Windows'
  <2>1. PICK p \in Pid, ring \in Seq(Pushed), t \in Seq(Text) :
          /\ p = ev[n].pid
          /\ ring = Push(store[n][p], ev[n].at, ev[n].text)
          /\ t = Append(past[n][p], ev[n].text)
          /\ store' = [store EXCEPT ![n][p] = ring] /\ past' = [past EXCEPT ![n][p] = t]
    BY <1>3, EmbedPushes
  <2>2. store[n][p] \in Seq(Pushed) /\ past[n][p] \in Seq(Text) /\ Suffix(store[n][p], past[n][p])
    BY DEF TypeOK, ContextTypes, Windows
  <2>3. ev[n].text \in Text /\ ev[n].at \in Times
    BY <1>3, EventFields DEF Embed, Analyzing
  <2>4. Suffix(ring, t)
    BY <2>1, <2>2, <2>3, PushKeepsSuffix
  <2> QED
    BY <2>1, <2>4 DEF Windows, TypeOK, ContextTypes
<1> QED
  BY <1>1, <1>2, <1>3
     DEF vars, Next, NodeStep, New, Check, Answered, Refused, EnsureFails, Analyze,
         EmbedFails, Search, SearchRefused, SearchFails, Upsert, Apply

\* The vector of n is mixed with the last texts before its own.
MixedWithPast(n) ==
  LET before == Front(past[n][ev[n].pid])
  IN  \E k \in 0..Len(before) :
        /\ k <= MaxPerPid
        /\ vector[n] = Blend(ev[n].text, SubSeq(before, Len(before) - k + 1, Len(before)))

LEMMA EmbedMixes ==
  ASSUME TypeOK, Windows, NEW n \in Node, Embed(n)
  PROVE  MixedWithPast(n)'
<1>1. PICK p \in Pid, ring \in Seq(Pushed), t \in Seq(Text) :
        /\ p = ev[n].pid
        /\ ring = Push(store[n][p], ev[n].at, ev[n].text)
        /\ t = Append(past[n][p], ev[n].text)
        /\ store' = [store EXCEPT ![n][p] = ring] /\ past' = [past EXCEPT ![n][p] = t]
  BY EmbedPushes
<1>2. PICK r \in Seq(Pushed), s \in Seq(Text) : r = store[n][p] /\ s = past[n][p]
  BY DEF TypeOK, ContextTypes
<1>3. Suffix(r, s)
  BY <1>2 DEF Windows
<1>4. PICK text \in Text : text = ev[n].text
  BY EventFields DEF Embed, Analyzing
<1>5. past'[n][p] = t /\ ev' = ev /\ vector'[n] = Blend(text, Texts(r))
  <2>1. past'[n][p] = t
    BY <1>1 DEF TypeOK, ContextTypes
  <2>2. ev' = ev /\ vector' = [vector EXCEPT ![n] = Blend(ev[n].text, Texts(store[n][ev[n].pid]))]
    BY DEF Embed
  <2>3. vector'[n] = Blend(text, Texts(r))
    BY <1>1, <1>2, <1>4, <2>2 DEF TypeOK, EventTypes
  <2> QED
    BY <2>1, <2>2, <2>3
<1>6. Front(t) = s
  BY <1>1, <1>2, <1>4, FrontOfAppend
<1>7. PICK k : k = Len(r)
  OBVIOUS
<1>8. k \in 0..Len(s) /\ k <= MaxPerPid /\ Texts(r) = SubSeq(s, Len(s) - k + 1, Len(s))
  BY <1>3, <1>7, SuffixTexts
<1> QED
  BY <1>1, <1>4, <1>5, <1>6, <1>8 DEF MixedWithPast

LEMMA StepContextIsPast ==
  ASSUME TypeOK, Windows, ContextIsPast, [Next]_vars
  PROVE  ContextIsPast'
<1>1. \A n \in Node : pc[n] \in {"search", "upsert"} => MixedWithPast(n)
  BY DEF ContextIsPast, MixedWithPast
<1>2. ASSUME NEW m \in Node, pc'[m] \in {"search", "upsert"}, pc[m] \in {"search", "upsert"},
             past'[m] = past[m], vector'[m] = vector[m],
             ev'[m].pid = ev[m].pid, ev'[m].text = ev[m].text
      PROVE  MixedWithPast(m)'
  BY <1>1, <1>2 DEF MixedWithPast
<1>3. \A n \in Node : pc'[n] \in {"search", "upsert"} => MixedWithPast(n)'
  <2> SUFFICES ASSUME NEW m \in Node, pc'[m] \in {"search", "upsert"} PROVE MixedWithPast(m)'
    OBVIOUS
  <2> USE DEF TypeOK, NodeTypes, Goto, Ready
  <2>1. CASE UNCHANGED vars
    BY <1>2, <2>1 DEF vars, ctxVars
  <2>2. ASSUME NEW n \in Node,
               New(n) \/ Check(n) \/ Answered(n) \/ Refused(n) \/ EnsureFails(n) \/ EmbedFails(n)
        PROVE  MixedWithPast(m)'
    <3>1. UNCHANGED <<vector, past>> /\ m # n /\ pc'[m] = pc[m]
      BY <2>2 DEF New, Check, Answered, Refused, EnsureFails, EmbedFails, AfterAnswer, ctxVars
    <3>2. ev'[m] = ev[m]
      BY <2>2, <3>1 DEF New, Check, Answered, Refused, EnsureFails, EmbedFails, EventTypes
    <3> QED
      BY <1>2, <3>1, <3>2
  <2>3. ASSUME NEW n \in Node, NEW c \in Configs, Reload(n, c) PROVE MixedWithPast(m)'
    <3>1. m # n /\ pc'[m] = pc[m] /\ UNCHANGED <<vector, ev>> /\ past'[m] = past[m]
      BY <2>3 DEF Reload, ContextTypes
    <3> QED
      BY <1>2, <3>1
  <2>4. ASSUME NEW n \in Node, NEW e \in Events, Analyze(n, e) PROVE MixedWithPast(m)'
    <3>1. m # n /\ pc'[m] = pc[m] /\ UNCHANGED <<vector, past>> /\ ev'[m] = ev[m]
      BY <2>4 DEF Analyze, ctxVars, EventTypes
    <3> QED
      BY <1>2, <3>1
  <2>5. ASSUME NEW n \in Node, Embed(n) PROVE MixedWithPast(m)'
    <3>1. CASE m = n
      BY <2>5, <3>1, EmbedMixes
    <3>2. CASE m # n
      <4>1. pc'[m] = pc[m] /\ UNCHANGED ev /\ vector'[m] = vector[m] /\ past'[m] = past[m]
        BY <2>5, <3>2 DEF Embed, ContextTypes, EventTypes
      <4> QED
        BY <1>2, <4>1
    <3> QED
      BY <3>1, <3>2
  <2>6. ASSUME NEW n \in Node, Search(n) \/ SearchRefused(n) PROVE MixedWithPast(m)'
    <3>1. UNCHANGED <<vector, past>> /\ pc[m] \in {"search", "upsert"}
      BY <2>6 DEF Search, SearchRefused, ctxVars
    <3>2. ev' = [ev EXCEPT ![n].action = "Alerted"] \/ ev' = ev
      BY <2>6 DEF Search, SearchRefused
    <3>3. ev[m] \in Event
      BY <3>1, EventFields DEF Analyzing
    <3>4. ev'[m].pid = ev[m].pid /\ ev'[m].text = ev[m].text
      BY <3>2, <3>3 DEF EventTypes, Event
    <3> QED
      BY <1>2, <3>1, <3>4
  <2>7. ASSUME NEW n \in Node, SearchFails(n) PROVE MixedWithPast(m)'
    BY <1>2, <2>7 DEF SearchFails, ctxVars
  <2>8. ASSUME NEW n \in Node, Upsert(n) PROVE MixedWithPast(m)'
    <3>1. m # n /\ pc'[m] = pc[m] /\ UNCHANGED past
      BY <2>8 DEF Upsert, ctxVars
    <3>2. vector'[m] = vector[m] /\ ev'[m] = ev[m]
      BY <2>8, <3>1 DEF Upsert, EventTypes
    <3> QED
      BY <1>2, <3>1, <3>2
  <2>9. CASE Apply
    BY <1>2, <2>9 DEF Apply, ctxVars
  <2> QED
    BY <2>1, <2>2, <2>3, <2>4, <2>5, <2>6, <2>7, <2>8, <2>9 DEF Next, NodeStep
<1> QED
  BY <1>3 DEF ContextIsPast, MixedWithPast

-----------------------------------------------------------------------------
(***************************************************************************)
(* The collection                                                          *)
(***************************************************************************)
LEMMA StepBaselines ==
  ASSUME TypeOK, Baselines, [Next]_vars
  PROVE  Baselines'
<1>1. ASSUME UNCHANGED collVars PROVE Baselines'
  BY <1>1 DEF collVars, Baselines
<1>2. ASSUME NEW n \in Node, Done(n) PROVE Baselines'
  <2>1. CASE pc[n] = "delete"
    BY <1>2, <2>1 DEF Done, Baselines, NoBase
  <2>2. CASE pc[n] # "delete"
    BY <1>2, <2>2 DEF Done, Baselines
  <2> QED
    BY <2>1, <2>2
<1>3. CASE Apply
  <2>1. coll' # None
    BY <1>3, StoreIs, SlowPathAssumption DEF Apply
  <2>2. ASSUME NEW m \in Node, NEW c \in Binary, base'[m][c] # None
        PROVE  coll'.points[c] = base'[m][c]
    <3>1. CASE c = late.binary
      BY <1>3, <2>2, <3>1, StoreIs DEF Apply
    <3>2. CASE c # late.binary
      <4>1. base'[m][c] = base[m][c] /\ coll'.points[c] = coll.points[c]
        BY <1>3, <3>2, StoreIs DEF Apply
      <4> QED
        BY <2>2, <4>1 DEF Baselines
    <3> QED
      BY <3>1, <3>2
  <2> QED
    BY <2>1, <2>2 DEF Baselines
<1>4. ASSUME NEW n \in Node, Upsert(n) PROVE Baselines'
  BY <1>4 DEF Upsert, Baselines
<1>5. ASSUME NEW n \in Node, Answered(n) \/ EnsureFails(n) PROVE Baselines'
  BY <1>1, <1>2, <1>5 DEF Answered, EnsureFails
<1> QED
  BY <1>1, <1>3, <1>4, <1>5
     DEF vars, Next, NodeStep, New, Check, Refused, Reload, Analyze, EmbedFails, Embed, Search,
         SearchRefused, SearchFails

\* Whoever vouches for the collection keeps vouching, until another deletes or
\* replaces it, who then vouches.
LEMMA StepEnsured ==
  ASSUME TypeOK, Ensured, [Next]_vars
  PROVE  Ensured'
<1> SUFFICES ASSUME Node # {} PROVE \E n \in Node : Vouches(n)'
  BY DEF Ensured
<1>0. PICK w \in Node : Vouches(w)
  BY DEF Ensured
<1> USE DEF TypeOK, NodeTypes, Goto, Ready, Ensuring
\* What leaves the collection and the state of w alone.
<1>1. ASSUME coll' = coll \/ (coll # None /\ coll' # None /\ coll'.dim = coll.dim),
             UNCHANGED <<cfg[w], pc[w], available[w], refused[w]>>
      PROVE  Vouches(w)'
  BY <1>0, <1>1 DEF Vouches, Fits
<1>2. CASE UNCHANGED vars
  BY <1>1, <1>2 DEF vars, collVars
<1>3. ASSUME NEW n \in Node, New(n) PROVE Vouches(w)'
  <2>1. CASE n = w
    BY <1>3, <2>1 DEF New, Vouches
  <2>2. CASE n # w
    BY <1>1, <1>3, <2>2 DEF New, collVars
  <2> QED
    BY <2>1, <2>2
<1>4. ASSUME NEW n \in Node, Check(n) PROVE Vouches(w)'
  <2>1. CASE n = w
    BY <1>4, <2>1 DEF Check, Vouches, Fits, collVars
  <2>2. CASE n # w
    BY <1>1, <1>4, <2>2 DEF Check, collVars
  <2> QED
    BY <2>1, <2>2
<1>5. ASSUME NEW n \in Node, Answered(n) PROVE \E m \in Node : Vouches(m)'
  <2>1. CASE pc[n] = "delete"
    <3>1. Vouches(n)'
      BY <1>5, <2>1 DEF Answered, Done, AfterAnswer, Vouches
    <3> QED
      BY <3>1
  <2>2. CASE pc[n] # "delete" /\ coll = None
    <3>1. coll' = [dim |-> cfg[n].dim, points |-> NoBase] /\ cfg' = cfg
      BY <1>5, <2>2 DEF Answered, Done
    <3>2. coll' \in Collection
      BY <1>5, <3>1, DoneCollTypes, SlowPathAssumption
         DEF Answered, CollTypes, Collection, SlowPathConfig, NoBase
    <3>3. Vouches(n)'
      BY <3>1, <3>2, SlowPathAssumption DEF Vouches, Fits
    <3> QED
      BY <3>3
  <2>3. CASE pc[n] # "delete" /\ coll # None
    <3>1. coll' = coll
      BY <1>5, <2>3 DEF Answered, Done
    <3>2. CASE n = w
      BY <1>0, <1>5, <2>3, <3>1, <3>2 DEF Answered, AfterAnswer, Vouches, Fits
    <3>3. CASE n # w
      BY <1>1, <1>5, <2>3, <3>1, <3>3 DEF Answered, AfterAnswer
    <3> QED
      BY <3>2, <3>3
  <2> QED
    BY <2>1, <2>2, <2>3
<1>6. ASSUME NEW n \in Node, Refused(n) PROVE Vouches(w)'
  <2>1. CASE n = w
    BY <1>6, <2>1 DEF Refused, Vouches
  <2>2. CASE n # w
    BY <1>1, <1>6, <2>2 DEF Refused, AfterAnswer, collVars
  <2> QED
    BY <2>1, <2>2
<1>7. ASSUME NEW n \in Node, EnsureFails(n) PROVE Vouches(n)'
  BY <1>7 DEF EnsureFails, Vouches
<1>8. ASSUME NEW n \in Node, NEW c \in Configs, Reload(n, c) PROVE Vouches(w)'
  <2>1. CASE n = w
    BY <1>8, <2>1 DEF Reload, Vouches
  <2>2. CASE n # w
    BY <1>1, <1>8, <2>2 DEF Reload, collVars
  <2> QED
    BY <2>1, <2>2
\* An analysis is at nobody's expense: its node is not ensuring.
<1>9. ASSUME NEW n \in Node, pc[n] \in Analyzing \cup {"idle"}, pc'[n] \in Analyzing \cup {"idle"},
             pc' = [pc EXCEPT ![n] = pc'[n]], UNCHANGED <<cfg, available, refused>>,
             coll' = coll \/ (coll # None /\ coll' # None /\ coll'.dim = coll.dim)
      PROVE  Vouches(w)'
  <2>1. CASE n = w
    BY <1>0, <1>9, <2>1 DEF Vouches, Fits, Analyzing
  <2>2. CASE n # w
    BY <1>1, <1>9, <2>2
  <2> QED
    BY <2>1, <2>2
<1>10. ASSUME NEW n \in Node, NEW e \in Events, Analyze(n, e) PROVE Vouches(w)'
  BY <1>9, <1>10 DEF Analyze, Analyzing, collVars
<1>11. ASSUME NEW n \in Node, \/ EmbedFails(n) \/ Embed(n)
                              \/ Search(n) \/ SearchRefused(n) \/ SearchFails(n)
       PROVE  Vouches(w)'
  BY <1>9, <1>11 DEF EmbedFails, Embed, Search, SearchRefused, SearchFails, Analyzing, collVars
<1>12. ASSUME NEW n \in Node, Upsert(n) PROVE Vouches(w)'
  BY <1>9, <1>12 DEF Upsert, Analyzing
<1>13. CASE Apply
  <2>1. coll # None /\ coll' # None /\ coll'.dim = coll.dim
    BY <1>13, LateIs, StoreIs, SlowPathAssumption DEF Apply
  <2> QED
    BY <1>1, <1>13, <2>1 DEF Apply
<1> QED
  BY <1>2, <1>3, <1>4, <1>5, <1>6, <1>7, <1>8, <1>10, <1>11, <1>12, <1>13
  DEF Next, NodeStep

-----------------------------------------------------------------------------
(***************************************************************************)
(* The theorems                                                            *)
(***************************************************************************)
LEMMA IInvHolds == Spec => []IInv
<1>1. Init => IInv
  BY InitTypeOK, InitWindows DEF IInv
<1>2. IInv /\ [Next]_vars => IInv'
  BY StepTypeOK, StepWindows, StepContextIsPast, StepBaselines, StepEnsured DEF IInv
<1> QED
  BY <1>1, <1>2, PTL DEF Spec

\* The slow path's variables have their types: a worker that analyzes has an
\* event, a collection has one vector or none for each binary, and a context is
\* a sequence of timestamps and texts (slow_path/mod.rs, slow_path/context.rs).
THEOREM TypeCorrect == Spec => []TypeOK
<1>1. IInv => TypeOK
  BY DEF IInv
<1> QED
  BY <1>1, IInvHolds, PTL

\* A vector is mixed with the latest events of its process before its own, and
\* never with the event itself (analyze reads the context before it pushes).
THEOREM MixedWithThePast == Spec => []ContextIsPast
<1>1. IInv => ContextIsPast
  BY DEF IInv
<1> QED
  BY <1>1, IInvHolds, PTL

\* Daemons that have settled on one dimension, none of them refused, have a
\* collection of that dimension, whoever deleted it and created it last
\* (qdrant_ensure).
THEOREM CollectionFitsAll == Spec => []SettledCollectionFits
<1>1. IInv => SettledCollectionFits
  <2> SUFFICES ASSUME IInv, NEW n \in Node,
                      \A m \in Node : /\ pc[m] \notin {"new", "check", "delete", "put"}
                                      /\ available[m] /\ cfg[m].backend = "qdrant" /\ ~refused[m]
                                      /\ \A o \in Node : cfg[o].dim = cfg[m].dim
               PROVE  Fits(n)
    BY DEF SettledCollectionFits
  <2>1. PICK w \in Node : Vouches(w)
    BY DEF IInv, Ensured
  <2>2. Fits(w)
    BY <2>1 DEF Vouches, Ensuring
  <2> QED
    BY <2>2 DEF Fits
<1> QED
  BY <1>1, IInvHolds, PTL

\* What a node stored last for a binary, and nobody replaced or deleted, is found
\* when the node searches for it again: an alert means that Qdrant answered the
\* search with an error (search, upsert).
THEOREM RepeatsAreFound == Spec => RepeatsAreNormal
<1>1. IInv /\ [Next]_vars =>
        [\A n \in Node :
           (/\ pc[n] = "search" /\ ev'[n] # ev[n] /\ ~misled'[n]
            /\ cfg[n].backend = "qdrant" /\ Fits(n))
             => base[n][ev[n].binary] # vector[n]]_vars
  <2> SUFFICES ASSUME IInv, [Next]_vars, NEW n \in Node, pc[n] = "search", ev'[n] # ev[n],
                      ~misled'[n], cfg[n].backend = "qdrant", Fits(n),
                      base[n][ev[n].binary] = vector[n]
               PROVE  FALSE
    OBVIOUS
  <2>1. Search(n)
    <3>1. ~UNCHANGED ev
      OBVIOUS
    <3>2. ASSUME NEW m \in Node, ev' = [ev EXCEPT ![m] = ev'[m]] PROVE m = n
      BY <3>2 DEF IInv, TypeOK, EventTypes
    <3>3. ASSUME NEW m \in Node, NEW e \in Events, Analyze(m, e) PROVE FALSE
      BY <3>2, <3>3 DEF IInv, TypeOK, EventTypes, Analyze
    <3>4. ASSUME NEW m \in Node, EmbedFails(m) \/ Upsert(m) PROVE FALSE
      BY <3>2, <3>4 DEF IInv, TypeOK, EventTypes, EmbedFails, Upsert
    <3>5. ASSUME NEW m \in Node, Search(m) PROVE m = n
      BY <3>2, <3>5 DEF IInv, TypeOK, EventTypes, Search
    <3>6. ASSUME NEW m \in Node, SearchRefused(m) PROVE FALSE
      <4>1. m = n
        BY <3>2, <3>6 DEF IInv, TypeOK, EventTypes, SearchRefused
      <4> QED
        BY <3>6, <4>1 DEF SearchRefused, IInv, TypeOK, NodeTypes
    <3> QED
      BY <3>1, <3>3, <3>4, <3>5, <3>6
         DEF vars, Next, NodeStep, New, Check, Answered, Refused, EnsureFails, Reload, Embed,
             SearchFails, Apply
  <2>2. ev[n].binary \in Binary /\ vector[n] \in Vector
    BY EventFields DEF IInv, TypeOK, EventTypes, Analyzing
  <2>3. vector[n] # None
    BY <2>2, SlowPathAssumption
  <2>4. vector[n] = coll.points[ev[n].binary]
    BY <2>2, <2>3 DEF IInv, Baselines
  <2>5. vector[n] \in {coll.points[b] : b \in Binary} \ {None}
    BY <2>2, <2>3, <2>4
  <2>6. Found(n) = {TRUE}
    BY <2>5 DEF Found
  <2>7. ev' = ev
    BY <2>1, <2>6 DEF Search
  <2> QED
    BY <2>7
<1> QED
  BY <1>1, IInvHolds, PTL DEF Spec, RepeatsAreNormal

=============================================================================
