------------------------------ MODULE TuiProofs ------------------------------
(***************************************************************************)
(* Proofs about Tui, for any session: any events, proposals and fields, and *)
(* lists of any length.  What a key does is done to what the screen shows. *)
(***************************************************************************)
EXTENDS ProcessTree, FiniteSetTheorems, FunctionTheorems, NaturalsInduction,
        SequenceTheorems, WellFoundedInduction, TLAPS

-----------------------------------------------------------------------------
(***************************************************************************)
(* Ascending numbers                                                       *)
(***************************************************************************)
\* How many members of S are not above n.
Rank(S, n) == Cardinality({m \in S : m <= n})

LEMMA RankType ==
  ASSUME NEW S \in SUBSET Nat, IsFiniteSet(S), NEW n \in S
  PROVE  /\ IsFiniteSet({m \in S : m <= n})
         /\ Rank(S, n) \in Nat /\ 1 <= Rank(S, n) /\ Rank(S, n) <= Cardinality(S)
<1>1. PICK B : B = {m \in S : m <= n}
  OBVIOUS
<1>2. B \subseteq S /\ n \in B
  BY <1>1
<1>3. IsFiniteSet(B) /\ Cardinality(B) <= Cardinality(S)
  BY <1>2, FS_Subset
<1>4. Cardinality(B) \in Nat /\ Cardinality(B) # 0
  BY <1>2, <1>3, FS_CardinalityType, FS_EmptySet
<1> QED
  BY <1>1, <1>3, <1>4 DEF Rank

LEMMA RankRises ==
  ASSUME NEW S \in SUBSET Nat, IsFiniteSet(S), NEW a \in S, NEW b \in S, a < b
  PROVE  Rank(S, a) < Rank(S, b)
<1>1. PICK A, B : A = {m \in S : m <= a} /\ B = {m \in S : m <= b}
  OBVIOUS
<1>2. IsFiniteSet(A) /\ IsFiniteSet(B)
  BY <1>1, RankType
<1>3. b \in B /\ A \subseteq B \ {b}
  <2>1. b \in Nat /\ b \in B
    BY <1>1
  <2>2. ASSUME NEW m \in A PROVE m \in B /\ m # b
    <3>1. m \in S /\ m \in Nat /\ m <= a /\ a \in Nat
      BY <1>1
    <3>2. m <= b /\ m # b
      BY <2>1, <3>1
    <3> QED
      BY <1>1, <3>1, <3>2
  <2> QED
    BY <2>1, <2>2
<1>4. IsFiniteSet(B \ {b}) /\ Cardinality(B \ {b}) = Cardinality(B) - 1
  BY <1>2, <1>3, FS_RemoveElement
<1>5. Cardinality(A) <= Cardinality(B \ {b})
  BY <1>3, <1>4, FS_Subset
<1>6. Cardinality(A) \in Nat /\ Cardinality(B) \in Nat
  BY <1>2, FS_CardinalityType
<1>7. Cardinality(A) < Cardinality(B)
  BY <1>4, <1>5, <1>6
<1> QED
  BY <1>1, <1>7 DEF Rank

\* One member of S has each rank.
LEMMA RankIsUnique ==
  ASSUME NEW S \in SUBSET Nat, IsFiniteSet(S), NEW a \in S, NEW b \in S,
         Rank(S, a) = Rank(S, b)
  PROVE  a = b
<1>1. Rank(S, a) \in Nat /\ Rank(S, b) \in Nat
  BY RankType
<1>2. ~(a < b) /\ ~(b < a)
  BY <1>1, RankRises
<1> QED
  BY <1>2

LEMMA AscendingIs ==
  ASSUME NEW S \in SUBSET Nat, IsFiniteSet(S)
  PROVE  /\ Cardinality(S) \in Nat /\ Ascending(S) \in Seq(S)
         /\ Len(Ascending(S)) = Cardinality(S)
         /\ \A k \in 1..Cardinality(S) : /\ Ascending(S)[k] \in S
                                         /\ Rank(S, Ascending(S)[k]) = k
<1>1. PICK c \in Nat : c = Cardinality(S)
  BY FS_CardinalityType
<1>2. PICK T : T = 1..c
  OBVIOUS
<1>3. IsFiniteSet(T) /\ Cardinality(T) = c
  <2>1. 1 \in Int /\ c \in Int /\ (IF 1 > c THEN 0 ELSE c - 1 + 1) = c
    OBVIOUS
  <2> QED
    BY <1>2, <2>1, FS_Interval
<1>4. PICK f : f = [n \in S |-> Rank(S, n)]
  OBVIOUS
<1>5. f \in [S -> T]
  <2>1. ASSUME NEW n \in S PROVE Rank(S, n) \in T
    <3>1. PICK r \in Nat : r = Rank(S, n) /\ 1 <= r /\ r <= c
      BY <1>1, RankType
    <3> QED
      BY <1>2, <3>1
  <2> QED
    BY <1>4, <2>1
<1>6. f \in Injection(S, T)
  <2>1. ASSUME NEW a \in S, NEW b \in S, f[a] = f[b] PROVE a = b
    BY <1>4, <2>1, RankIsUnique
  <2> QED
    BY <1>5, <2>1 DEF Injection, IsInjective
<1>7. f \in Surjection(S, T)
  BY <1>1, <1>3, <1>6, FS_Injection
<1>8. \A k \in T : \E n \in S : Rank(S, n) = k
  BY <1>4, <1>7 DEF Surjection
<1>9. PICK g : g = Ascending(S)
  OBVIOUS
<1>10. g = [k \in 1..c |-> CHOOSE n \in S : Rank(S, n) = k]
  BY <1>1, <1>9 DEF Ascending, Rank
<1>11. \A k \in 1..c : g[k] \in S /\ Rank(S, g[k]) = k
  BY <1>2, <1>8, <1>10
<1>12. g \in [1..c -> S]
  BY <1>10, <1>11
<1>13. g \in Seq(S) /\ Len(g) = c
  <2>1. \A k \in 1..c : (CHOOSE n \in S : Rank(S, n) = k) \in S
    BY <1>10, <1>11
  <2>2. [k \in 1..c |-> CHOOSE n \in S : Rank(S, n) = k] \in Seq(S)
    BY <2>1, IsASeq
  <2>3. g \in Seq(S)
    BY <1>10, <2>2
  <2>4. DOMAIN g = 1..c
    BY <1>10
  <2> QED
    BY <2>3, <2>4, LenProperties
<1> QED
  BY <1>1, <1>9, <1>11, <1>13

\* A greater number comes last.
LEMMA AscendingAdd ==
  ASSUME NEW S \in SUBSET Nat, IsFiniteSet(S), NEW n \in Nat, \A m \in S : m < n
  PROVE  /\ IsFiniteSet(S \cup {n}) /\ Cardinality(S \cup {n}) = Cardinality(S) + 1
         /\ \A k \in 1..Cardinality(S) : Ascending(S \cup {n})[k] = Ascending(S)[k]
<1>1. PICK R \in SUBSET Nat : R = S \cup {n}
  OBVIOUS
<1>2. IsFiniteSet(R) /\ Cardinality(R) = Cardinality(S) + 1
  BY <1>1, FS_AddElement
<1>3. PICK c \in Nat : c = Cardinality(S)
  BY FS_CardinalityType
<1>4. ASSUME NEW k \in 1..c PROVE Ascending(R)[k] = Ascending(S)[k]
  <2>1. k \in 1..Cardinality(R)
    BY <1>2, <1>3, <1>4
  <2>2. PICK a \in R : a = Ascending(R)[k] /\ Rank(R, a) = k
    BY <1>2, <2>1, AscendingIs
  <2>3. PICK b \in S : b = Ascending(S)[k] /\ Rank(S, b) = k
    BY <1>3, <1>4, AscendingIs
  <2>4. {m \in R : m <= b} = {m \in S : m <= b}
    BY <1>1
  <2>5. Rank(R, b) = k /\ b \in R
    BY <1>1, <2>3, <2>4 DEF Rank
  <2> QED
    BY <1>2, <2>2, <2>3, <2>5, RankIsUnique
<1> QED
  BY <1>1, <1>2, <1>3, <1>4

-----------------------------------------------------------------------------
(***************************************************************************)
(* Filtered lists                                                          *)
(***************************************************************************)
\* The indexes of the wanted rows.
Hits(list, wanted) == {i \in DOMAIN list : list[i] \in wanted}

LEMMA HitsFinite ==
  ASSUME NEW S, NEW list \in Seq(S), NEW wanted
  PROVE  /\ Hits(list, wanted) \in SUBSET Nat /\ IsFiniteSet(Hits(list, wanted))
         /\ Hits(list, wanted) \subseteq DOMAIN list
<1>1. PICK n \in Nat : n = Len(list)
  BY LenProperties
<1>2. PICK D : D = 1..n
  OBVIOUS
<1>3. DOMAIN list = D
  BY <1>1, <1>2, LenProperties
<1>4. IsFiniteSet(D)
  <2>1. 1 \in Int /\ n \in Int
    OBVIOUS
  <2> QED
    BY <1>2, <2>1, FS_Interval
<1>5. Hits(list, wanted) \subseteq D /\ D \subseteq Nat
  BY <1>2, <1>3 DEF Hits
<1> QED
  BY <1>3, <1>4, <1>5, FS_Subset

LEMMA FilteredIs ==
  ASSUME NEW S, NEW list \in Seq(S), NEW wanted
  PROVE  LET I == Hits(list, wanted)
             l == Filtered(list, wanted)
         IN  /\ l \in Seq(S) /\ Len(l) = Cardinality(I) /\ Len(l) \in Nat
             /\ \A k \in 1..Len(l) : Ascending(I)[k] \in I /\ l[k] = list[Ascending(I)[k]]
<1>1. PICK I : I = Hits(list, wanted)
  OBVIOUS
<1>2. I \in SUBSET Nat /\ IsFiniteSet(I) /\ I \subseteq DOMAIN list
  BY <1>1, HitsFinite
<1>a. PICK at, c : at = Ascending(I) /\ c = Cardinality(I)
  OBVIOUS
<1>3. c \in Nat /\ at \in Seq(I) /\ Len(at) = c /\ \A k \in 1..c : at[k] \in I
  BY <1>2, <1>a, AscendingIs
<1>4. DOMAIN at = 1..c
  BY <1>3, LenProperties
<1>5. PICK l : l = Filtered(list, wanted)
  OBVIOUS
<1>6. l = [k \in 1..c |-> list[at[k]]]
  BY <1>1, <1>a, <1>4, <1>5 DEF Filtered, Hits
<1>7. l \in Seq(S)
  <2>1. \A i \in DOMAIN list : list[i] \in S
    BY LenProperties, ElementOfSeq
  <2>2. \A k \in 1..c : list[at[k]] \in S
    BY <1>2, <1>3, <2>1
  <2>3. l \in [1..c -> S]
    BY <1>6, <2>2
  <2> QED
    BY <1>3, <2>3
<1>8. Len(l) = c
  <2>1. PICK m \in Nat : m = Len(l) /\ DOMAIN l = 1..m
    BY <1>7, LenProperties
  <2>2. 1..m = 1..c
    BY <1>6, <2>1
  <2>3. m = c
    BY <1>3, <2>2
  <2> QED
    BY <2>1, <2>3
<1> QED
  BY <1>1, <1>a, <1>3, <1>5, <1>6, <1>7, <1>8

\* A row that is appended comes after those that are there.
LEMMA FilteredAppend ==
  ASSUME NEW S, NEW list \in Seq(S), NEW e \in S, NEW wanted
  PROVE  /\ Len(Filtered(list, wanted)) <= Len(Filtered(Append(list, e), wanted))
         /\ \A k \in 1..Len(Filtered(list, wanted)) :
              Filtered(Append(list, e), wanted)[k] = Filtered(list, wanted)[k]
<1>1. PICK n \in Nat : n = Len(list) /\ DOMAIN list = 1..n
  BY LenProperties
<1>2. PICK t : t = Append(list, e)
  OBVIOUS
<1>3. t \in Seq(S) /\ Len(t) = n + 1 /\ \A i \in 1..n : t[i] = list[i]
  BY <1>1, <1>2, AppendProperties
<1>4. DOMAIN t = 1..(n + 1)
  BY <1>3, LenProperties
<1>5. PICK I, J : I = Hits(list, wanted) /\ J = Hits(t, wanted)
  OBVIOUS
<1>6. I \in SUBSET Nat /\ IsFiniteSet(I) /\ I \subseteq 1..n
  BY <1>1, <1>5, HitsFinite
<1>7. J = I \/ J = I \cup {n + 1}
  BY <1>1, <1>3, <1>4, <1>5 DEF Hits
<1>8. PICK c \in Nat : c = Cardinality(I)
  BY <1>6, FS_CardinalityType
<1>9. c <= Cardinality(J) /\ Cardinality(J) \in Nat
      /\ \A k \in 1..c : Ascending(J)[k] = Ascending(I)[k]
  <2>1. CASE J = I
    BY <1>8, <2>1
  <2>2. CASE J = I \cup {n + 1}
    <3>1. n + 1 \in Nat /\ \A m \in I : m < n + 1
      BY <1>6
    <3>2. /\ Cardinality(J) = c + 1
          /\ \A k \in 1..c : Ascending(J)[k] = Ascending(I)[k]
      BY <1>6, <1>8, <2>2, <3>1, AscendingAdd
    <3> QED
      BY <3>2
  <2> QED
    BY <1>7, <2>1, <2>2
<1>10. PICK u, v : u = Filtered(list, wanted) /\ v = Filtered(t, wanted)
  OBVIOUS
<1>11. Len(u) = c /\ \A k \in 1..c : Ascending(I)[k] \in I /\ u[k] = list[Ascending(I)[k]]
  BY <1>5, <1>8, <1>10, FilteredIs
<1>12. Len(v) = Cardinality(J) /\ \A k \in 1..Cardinality(J) : v[k] = t[Ascending(J)[k]]
  BY <1>3, <1>5, <1>10, FilteredIs
<1>13. ASSUME NEW k \in 1..c PROVE v[k] = u[k]
  <2>1. PICK i \in I : i = Ascending(I)[k] /\ u[k] = list[i]
    BY <1>11
  <2>2. k \in 1..Cardinality(J)
    BY <1>8, <1>9
  <2>3. v[k] = t[i]
    BY <1>9, <1>12, <2>1, <2>2
  <2> QED
    BY <1>3, <1>6, <2>1, <2>3
<1> QED
  BY <1>2, <1>9, <1>10, <1>11, <1>12, <1>13

\* Who wants more gets more.
LEMMA FilteredGrows ==
  ASSUME NEW S, NEW list \in Seq(S), NEW few, NEW many, few \subseteq many
  PROVE  Len(Filtered(list, few)) <= Len(Filtered(list, many))
<1>1. PICK I, J : I = Hits(list, few) /\ J = Hits(list, many)
  OBVIOUS
<1>2. IsFiniteSet(J) /\ I \subseteq J
  BY <1>1, HitsFinite DEF Hits
<1>3. Cardinality(I) <= Cardinality(J)
  BY <1>2, FS_Subset
<1> QED
  BY <1>1, <1>3, FilteredIs

-----------------------------------------------------------------------------
(***************************************************************************)
(* Types and the inductive invariant                                       *)
(***************************************************************************)
EventLists == {"Events", "Incidents"}

Popup == [on : {"Events", "Incidents", "Pending"}, idx : Nat]

LoopTypes ==
  /\ session \in Sessions
  /\ pc \in {"frame", "select", "quit"}
  /\ typed \in BOOLEAN /\ arrived \in BOOLEAN /\ ended \in BOOLEAN

Mode == {"normal", "filtering"}

Filter == {"All", "Blocked", "Alerted"}

View == [tab : Tab, at : [List -> Nat], popup : Popup \cup {None}, mode : Mode,
         query : BOOLEAN, filter : Filter]

ViewTypes == view \in View

DataTypes ==
  /\ rows \in [EventLists -> Seq(ListRow)] /\ shifted \in BOOLEAN
  /\ DOMAIN procs \subseteq Pid /\ \A p \in DOMAIN procs : procs[p] \in Pid \cup {0}

ReviewTypes ==
  /\ dir \subseteq session.proposals /\ due \in BOOLEAN
  /\ pending \in Seq(Nat) /\ shown \in Nat \cup {None}

Editor == [editing : BOOLEAN, buf : Value, modified : BOOLEAN]

EditTypes ==
  /\ value \in [Fields -> Value]
  /\ text \in [session.present -> Value] /\ saved \in [session.present -> Value]
  /\ editor \in Editor

TypeOK == LoopTypes /\ ViewTypes /\ DataTypes /\ ReviewTypes /\ EditTypes

\* As long as a list has dropped nothing its cursor is on a row, or on the first
\* place.
Cursor(l) ==
  /\ Len(rows[l]) <= Cap
  /\ Len(rows[l]) < Cap => view.at[l] = 0 \/ view.at[l] < Len(Listed(l))

Cursors == \A l \in EventLists : Cursor(l)

PendingCursor == pending # <<>> => view.at["Pending"] < Len(pending)

\* A popup was opened on a row, if its list had not dropped any.
PopupInList ==
  (view.popup # None /\ view.popup.on # "Pending" /\ ~shifted)
    => (Len(rows[view.popup.on]) < Cap => view.popup.idx < Len(Listed(view.popup.on)))

IInv == /\ TypeOK /\ Cursors /\ PendingCursor /\ DecisionFollowsDisplay
        /\ PopupInList /\ PopupKeepsRow /\ UnsavedIsMarked

-----------------------------------------------------------------------------
(***************************************************************************)
(* Every variable keeps its type                                           *)
(***************************************************************************)
LEMMA SessionTypes ==
  ASSUME LoopTypes
  PROVE  /\ session.events \subseteq Event /\ session.proposals \subseteq Nat
         /\ IsFiniteSet(session.proposals)
         /\ session.fields \in Seq(STRING) /\ session.present \subseteq Fields
<1>1. session \in Session /\ IsFiniteSet(session.proposals)
  BY TuiAssumption DEF LoopTypes
<1>2. session.present \subseteq Fields
  BY TuiAssumption DEF LoopTypes, Fields
<1> QED
  BY <1>1, <1>2 DEF Session

\* What a step may do to a cursor.
LEMMA ViewAt ==
  ASSUME NEW v \in View, NEW l \in List, NEW n \in Nat
  PROVE  /\ [v EXCEPT !.at[l] = n] \in View
         /\ [v EXCEPT !.at[l] = n].at[l] = n
         /\ \A m \in List : m # l => [v EXCEPT !.at[l] = n].at[m] = v.at[m]
         /\ [v EXCEPT !.at[l] = n].popup = v.popup
         /\ [v EXCEPT !.at[l] = n].query = v.query
         /\ [v EXCEPT !.at[l] = n].filter = v.filter
<1>1. v.at \in [List -> Nat]
  BY DEF View
<1>2. PICK a : a = [v.at EXCEPT ![l] = n]
  OBVIOUS
<1>3. a \in [List -> Nat] /\ a[l] = n /\ \A m \in List : m # l => a[m] = v.at[m]
  BY <1>1, <1>2
<1>4. PICK w : w = [v EXCEPT !.at[l] = n]
  OBVIOUS
<1>5. w = [v EXCEPT !.at = a]
  BY <1>2, <1>4
<1>6. w \in View /\ w.at = a /\ w.popup = v.popup /\ w.query = v.query /\ w.filter = v.filter
  BY <1>3, <1>5 DEF View
<1> QED
  BY <1>3, <1>4, <1>6

LEMMA InitTypeOK == Init => TypeOK
<1> SUFFICES ASSUME Init PROVE TypeOK
  OBVIOUS
<1>1. LoopTypes
  BY DEF Init, LoopTypes
<1>2. ViewTypes
  BY DEF Init, ViewTypes, View, Tab, List, Mode, Filter
<1>3. DataTypes
  <2>1. rows = [Events |-> <<>>, Incidents |-> <<>>] /\ procs = <<>> /\ shifted = FALSE
    BY DEF Init
  <2>2. rows \in [EventLists -> Seq(ListRow)]
    <3>1. PICK z : z = <<>>
      OBVIOUS
    <3>2. z \in Seq(ListRow)
      BY <3>1, EmptySeq
    <3>3. rows = [Events |-> z, Incidents |-> z]
      BY <2>1, <3>1
    <3>4. rows = [l \in EventLists |-> z]
      BY <3>3 DEF EventLists
    <3> QED
      BY <3>2, <3>4
  <2>3. DOMAIN procs = {}
    <3>1. procs \in Seq({}) /\ Len(procs) = 0
      BY <2>1, EmptySeq
    <3>2. DOMAIN procs = 1..0
      BY <3>1, LenProperties
    <3> QED
      BY <3>2
  <2> QED
    BY <2>1, <2>2, <2>3 DEF DataTypes
<1>4. ReviewTypes
  <2>1. pending \in Seq(Nat)
    <3>1. pending = <<>>
      BY DEF Init
    <3> QED
      BY <3>1, EmptySeq
  <2> QED
    BY <2>1 DEF Init, ReviewTypes
<1>5. EditTypes
  <2>1. text \in [session.present -> Value] /\ saved \in [session.present -> Value]
    BY DEF Init, Value
  <2>2. value \in [Fields -> Value]
    BY <2>1 DEF Init, Value
  <2>3. editor \in Editor
    BY DEF Init, Editor, Value
  <2> QED
    BY <2>1, <2>2, <2>3 DEF EditTypes
<1> QED
  BY <1>1, <1>2, <1>3, <1>4, <1>5 DEF TypeOK

LEMMA StepLoopTypes ==
  ASSUME LoopTypes, [Next]_vars
  PROVE  LoopTypes' /\ session' = session
<1>1. CASE Turn
  BY <1>1 DEF Turn, Frame, TakeEvent, HandleKey, NoKey, LoopTypes
<1>2. CASE Quit \/ Type \/ Arrive \/ End \/ Elapse \/ UNCHANGED vars
  BY <1>2 DEF Quit, Type, Arrive, End, Elapse, vars, loopVars, LoopTypes
<1>3. CASE \E p \in session.proposals : Stage(p) \/ Vanish(p)
  BY <1>3 DEF Stage, Vanish, loopVars, LoopTypes
<1> QED
  BY <1>1, <1>2, <1>3 DEF Next

\* The pending list is refreshed to a list of numbers, and its cursor with it.
LEMMA RefreshIs ==
  ASSUME LoopTypes, ViewTypes, ReviewTypes, Refresh
  PROVE  /\ pending' \in Seq(Nat) /\ view' \in View
         /\ \A l \in EventLists : view'.at[l] = view.at[l]
         /\ view'.popup = view.popup /\ view'.query = view.query /\ view'.filter = view.filter
         /\ PendingCursor => PendingCursor'
<1>1. CASE UNCHANGED <<pending, view>>
  BY <1>1 DEF ViewTypes, ReviewTypes, PendingCursor
<1>2. CASE RefreshTo(Ascending(dir))
  <2>1. dir \in SUBSET Nat /\ IsFiniteSet(dir)
    BY SessionTypes, FS_Subset DEF ReviewTypes
  <2>2. PICK list : list = Ascending(dir)
    OBVIOUS
  <2>3. list \in Seq(dir)
    BY <2>1, <2>2, AscendingIs
  <2>4. list \in Seq(Nat)
    <3>1. PICK n \in Nat : list \in [1..n -> dir] /\ n = Len(list)
      BY <2>3, LenProperties
    <3>2. list \in [1..n -> Nat]
      BY <2>1, <3>1
    <3> QED
      BY <3>2
  <2>5. PICK n \in Nat : n = Len(list) /\ (list = <<>> <=> n = 0)
    BY <2>4, LenProperties, EmptySeq
  <2>6. PICK at \in Nat : at = view.at["Pending"]
    BY DEF ViewTypes, View, List, Tab
  <2>7. PICK to : to = IF at < n THEN at ELSE IF n = 0 THEN 0 ELSE n - 1
    OBVIOUS
  <2>8. to \in Nat /\ (n # 0 => to < n)
    BY <2>7
  <2>9. pending' = list /\ view' = [view EXCEPT !.at["Pending"] = to]
    BY <1>2, <2>2, <2>5, <2>6, <2>7 DEF RefreshTo
  <2>10. "Pending" \in List /\ \A l \in EventLists : l \in List /\ l # "Pending"
    BY DEF List, Tab, EventLists
  <2>11. /\ view' \in View /\ view'.at["Pending"] = to
         /\ \A l \in EventLists : view'.at[l] = view.at[l]
         /\ view'.popup = view.popup /\ view'.query = view.query /\ view'.filter = view.filter
    BY <2>8, <2>9, <2>10, ViewAt DEF ViewTypes
  <2>12. PendingCursor'
    BY <2>5, <2>8, <2>9, <2>11 DEF PendingCursor
  <2> QED
    BY <2>4, <2>9, <2>11, <2>12
<1> QED
  BY <1>1, <1>2 DEF Refresh

-----------------------------------------------------------------------------
(***************************************************************************)
(* The steps, told apart by what they touch                                *)
(***************************************************************************)
\* Steps that leave what is listed and shown alone.
Quiet ==
  /\ UNCHANGED <<view, opened, dataVars, pending, shown, editVars>>
  /\ pc' = "select" => pc = "select"
  /\ dir' \subseteq session.proposals /\ due' \in BOOLEAN

LEMMA Steps ==
  ASSUME LoopTypes, ReviewTypes, [Next]_vars
  PROVE  Frame \/ (\E e \in session.events : TakeEvent(e)) \/ HandleKey \/ Quiet
<1>1. CASE NoKey
  BY <1>1 DEF NoKey, Quiet, reviewVars, ReviewTypes
<1>2. CASE Quit
  BY <1>2 DEF Quit, Quiet, reviewVars, ReviewTypes
<1>3. CASE Type \/ Arrive \/ End
  BY <1>3 DEF Type, Arrive, End, Quiet, reviewVars, ReviewTypes
<1>4. CASE Elapse
  BY <1>4 DEF Elapse, Quiet, loopVars, ReviewTypes
<1>5. CASE \E p \in session.proposals : Stage(p) \/ Vanish(p)
  BY <1>5 DEF Stage, Vanish, Quiet, loopVars, ReviewTypes
<1>6. CASE UNCHANGED vars
  BY <1>6 DEF Quiet, vars, loopVars, reviewVars, ReviewTypes
<1> QED
  BY <1>1, <1>2, <1>3, <1>4, <1>5, <1>6 DEF Next, Turn

\* A full list drops its first row; the others stay in front of the new one.
LEMMA PushedIs ==
  ASSUME NEW list \in Seq(ListRow), NEW e \in Event
  PROVE  /\ Row(e) \in ListRow
         /\ Pushed(list, e) \in Seq(ListRow)
         /\ Len(list) < Cap => Pushed(list, e) = Append(list, Row(e))
         /\ Len(list) = Cap => Len(Pushed(list, e)) = Cap
<1>1. PICK r : r = Row(e)
  OBVIOUS
<1>2. r \in ListRow
  BY <1>1 DEF Row, Event, ListRow
<1>3. PICK n \in Nat : n = Len(list)
  BY LenProperties
<1>4. PICK l : l = Append(list, r)
  OBVIOUS
<1>5. l \in Seq(ListRow) /\ l # <<>> /\ Len(l) = n + 1
  BY <1>2, <1>3, <1>4, AppendProperties
<1>6. Tail(l) \in Seq(ListRow) /\ Len(Tail(l)) = n
  BY <1>3, <1>5, HeadTailProperties
<1>7. Pushed(list, e) = IF n + 1 > Cap THEN Tail(l) ELSE l
  BY <1>1, <1>4, <1>5 DEF Pushed
<1>8. Cap \in Nat
  BY TuiAssumption
<1>9. CASE n + 1 > Cap
  BY <1>1, <1>2, <1>3, <1>6, <1>7, <1>8, <1>9
<1>10. CASE ~(n + 1 > Cap)
  BY <1>1, <1>2, <1>3, <1>4, <1>5, <1>7, <1>8, <1>10
<1> QED
  BY <1>9, <1>10

\* An event goes to a list or leaves it alone.
LEMMA PushEventIs ==
  ASSUME DataTypes, NEW e \in Event, PushEvent(e)
  PROVE  /\ rows' \in [EventLists -> Seq(ListRow)]
         /\ \A l \in EventLists :
              \/ rows'[l] = rows[l]
              \/ /\ rows'[l] = Pushed(rows[l], e)
                 /\ ~shifted' => ~shifted /\ Len(rows[l]) # Cap
         /\ ~shifted' => ~shifted
         /\ shifted' \in BOOLEAN
         /\ DOMAIN procs' \subseteq Pid /\ \A p \in DOMAIN procs' : procs'[p] \in Pid \cup {0}
<1>1. PICK changed : changed = {"Events"} \cup IF e.action \in {"Blocked", "Alerted", "Killed"}
                                               THEN {"Incidents"} ELSE {}
  OBVIOUS
<1>2. DOMAIN rows = EventLists /\ \A l \in EventLists : rows[l] \in Seq(ListRow)
  BY DEF DataTypes
<1>3. /\ rows' = [l \in EventLists |-> IF l \in changed THEN Pushed(rows[l], e) ELSE rows[l]]
      /\ shifted' = (shifted \/ \E l \in changed : Len(rows[l]) = Cap)
  BY <1>1, <1>2 DEF PushEvent
<1>4. \A l \in EventLists : rows'[l] = IF l \in changed THEN Pushed(rows[l], e) ELSE rows[l]
  BY <1>3
<1>5. rows' \in [EventLists -> Seq(ListRow)]
  <2>1. \A l \in EventLists : Pushed(rows[l], e) \in Seq(ListRow)
    BY <1>2, PushedIs
  <2>2. \A l \in EventLists : rows'[l] \in Seq(ListRow)
    BY <1>2, <1>4, <2>1
  <2> QED
    BY <1>3, <2>2
<1>6. /\ \A l \in EventLists :
              \/ rows'[l] = rows[l]
              \/ /\ rows'[l] = Pushed(rows[l], e)
                 /\ ~shifted' => ~shifted /\ Len(rows[l]) # Cap
      /\ ~shifted' => ~shifted
  BY <1>3, <1>4
<1>7. shifted' \in BOOLEAN
  BY <1>3 DEF DataTypes
<1>8. DOMAIN procs' \subseteq Pid /\ \A p \in DOMAIN procs' : procs'[p] \in Pid \cup {0}
  <2>1. e.pid \in Pid /\ e.ppid \in Pid \cup {0}
    BY DEF Event
  <2>2. procs' = IF e.pid \in DOMAIN procs THEN procs
                  ELSE [p \in DOMAIN procs \cup {e.pid} |->
                          IF p = e.pid THEN e.ppid ELSE procs[p]]
    BY DEF PushEvent
  <2> QED
    BY <2>1, <2>2 DEF DataTypes
<1> QED
  BY <1>5, <1>6, <1>7, <1>8

\* The cursor of the list on the screen goes back, or to another row.
LEMMA ScrollIs ==
  ASSUME ViewTypes, Scroll
  PROVE  \E l \in List, n \in Nat : /\ view' = [view EXCEPT !.at[l] = n]
                                    /\ n <= view.at[l] \/ n < Length(l)
<1>1. PICK l : l = Scrolled
  OBVIOUS
<1>2. l \in List
  BY <1>1 DEF Scrolled, ViewTypes, View, List, Tab
<1>3. PICK at \in Nat : at = view.at[l]
  BY <1>2 DEF ViewTypes, View
<1>4. \/ view' = [view EXCEPT !.at[l] = IF at = 0 THEN 0 ELSE at - 1]
      \/ at + 1 < Length(l) /\ view' = [view EXCEPT !.at[l] = at + 1]
  BY <1>1, <1>3 DEF Scroll
<1>5. CASE view' = [view EXCEPT !.at[l] = IF at = 0 THEN 0 ELSE at - 1]
  <2>1. PICK n : n = IF at = 0 THEN 0 ELSE at - 1
    OBVIOUS
  <2>2. n \in Nat /\ n <= at
    BY <2>1
  <2> QED
    BY <1>2, <1>3, <1>5, <2>1, <2>2
<1>6. CASE at + 1 < Length(l) /\ view' = [view EXCEPT !.at[l] = at + 1]
  <2>1. PICK n \in Nat : n = at + 1
    OBVIOUS
  <2>2. n < Length(l) /\ view' = [view EXCEPT !.at[l] = n]
    BY <1>6, <2>1
  <2> QED
    BY <1>2, <2>2
<1> QED
  BY <1>4, <1>5, <1>6

\* A popup opens on a place of one of three lists.
LEMMA StepViewTypes ==
  ASSUME TypeOK, [Next]_vars
  PROVE  ViewTypes'
<1> USE DEF TypeOK
<1> view \in View
  BY DEF ViewTypes
<1>1. CASE Frame
  BY <1>1, RefreshIs DEF Frame, ViewTypes
<1>2. CASE \E e \in session.events : TakeEvent(e)
  BY <1>2 DEF TakeEvent, ViewTypes
<1>3. CASE Quiet
  BY <1>3 DEF Quiet, ViewTypes
<1>4. CASE HandleKey
  <2>1. CASE PopupKey
    BY <2>1 DEF PopupKey, ViewTypes, View
  <2>2. CASE FilterKey
    <3>1. CASE view' = [view EXCEPT !.query = FALSE, !.mode = "normal"] \/ UNCHANGED view
      BY <3>1 DEF ViewTypes, View, Mode
    <3>2. CASE \E query \in BOOLEAN :
                 view' = [view EXCEPT !.query = query, !.mode = "normal", !.at["Events"] = 0]
      <4>1. PICK query \in BOOLEAN :
                 view' = [view EXCEPT !.query = query, !.mode = "normal", !.at["Events"] = 0]
        BY <3>2
      <4>2. PICK v : v = [view EXCEPT !.query = query, !.mode = "normal"]
        OBVIOUS
      <4>3. v \in View
        BY <4>2 DEF View, Mode
      <4>4. view' = [v EXCEPT !.at["Events"] = 0]
        BY <4>1, <4>2
      <4> QED
        BY <4>3, <4>4, ViewAt DEF ViewTypes, List, Tab
    <3> QED
      BY <2>2, <3>1, <3>2 DEF FilterKey
  <2>3. CASE SwitchTab
    BY <2>3 DEF SwitchTab, ViewTypes, View
  <2>4. CASE Scroll
    <3>1. PICK l \in List, n \in Nat : view' = [view EXCEPT !.at[l] = n]
      BY <2>4, ScrollIs
    <3> QED
      BY <3>1, ViewAt DEF ViewTypes
  <2>5. CASE OpenDetail
    <3>1. view.tab \in {"Events", "Incidents", "Pending"} /\ view.at[view.tab] \in Nat
      BY <2>5 DEF OpenDetail, View, List, Tab
    <3>2. [on |-> view.tab, idx |-> view.at[view.tab]] \in Popup
      BY <3>1 DEF Popup
    <3>3. view' = [view EXCEPT !.popup = [on |-> view.tab, idx |-> view.at[view.tab]]]
      BY <2>5 DEF OpenDetail
    <3> QED
      BY <3>2, <3>3 DEF ViewTypes, View
  <2>6. CASE StartFilter
    BY <2>6 DEF StartFilter, ViewTypes, View, Mode
  <2>7. CASE CycleFilter
    <3>1. PICK f : f = CASE view.filter = "All" -> "Blocked" [] view.filter = "Blocked" -> "Alerted"
                         [] OTHER -> "All"
      OBVIOUS
    <3>2. f \in Filter
      BY <3>1 DEF View, Filter
    <3>3. PICK v : v = [view EXCEPT !.filter = f]
      OBVIOUS
    <3>4. v \in View
      BY <3>2, <3>3 DEF View
    <3>5. view' = [v EXCEPT !.at["Incidents"] = 0]
      <4>1. view' = [view EXCEPT !.at["Incidents"] = 0, !.filter = f]
        BY <2>7, <3>1 DEF CycleFilter, View
      <4> QED
        BY <3>3, <4>1 DEF View
    <3> QED
      BY <3>4, <3>5, ViewAt DEF ViewTypes, List, Tab
  <2>8. CASE EditKey \/ Decide \/ StartEdit \/ Save \/ OtherKey
    BY <2>8 DEF EditKey, Decide, StartEdit, Save, OtherKey, ViewTypes
  <2> QED
    BY <1>4, <2>1, <2>2, <2>3, <2>4, <2>5, <2>6, <2>7, <2>8 DEF HandleKey
<1> QED
  BY <1>1, <1>2, <1>3, <1>4, Steps

\* A key leaves the rows as they are.
LEMMA KeysKeepRows ==
  ASSUME HandleKey
  PROVE  rows' = rows /\ procs' = procs /\ shifted' \in {shifted, FALSE}
<1>1. CASE PopupKey \/ EditKey \/ FilterKey \/ OpenDetail
  BY <1>1 DEF PopupKey, EditKey, FilterKey, OpenDetail, dataVars
<1>2. CASE SwitchTab \/ Scroll \/ StartFilter \/ CycleFilter
  BY <1>2 DEF SwitchTab, Scroll, StartFilter, CycleFilter, dataVars
<1>3. CASE Decide \/ StartEdit \/ Save \/ OtherKey
  BY <1>3 DEF Decide, StartEdit, Save, OtherKey, dataVars
<1> QED
  BY <1>1, <1>2, <1>3 DEF HandleKey

LEMMA StepDataTypes ==
  ASSUME TypeOK, [Next]_vars
  PROVE  DataTypes'
<1>1. CASE Frame
  BY <1>1 DEF Frame, dataVars, TypeOK, DataTypes
<1>2. CASE \E e \in session.events : TakeEvent(e)
  <2>1. PICK e \in session.events : TakeEvent(e)
    BY <1>2
  <2>2. e \in Event /\ PushEvent(e)
    BY <2>1, SessionTypes DEF TakeEvent, TypeOK
  <2> QED
    BY <2>2, PushEventIs DEF TypeOK, DataTypes
<1>3. CASE Quiet
  BY <1>3 DEF Quiet, dataVars, TypeOK, DataTypes
<1>4. CASE HandleKey
  BY <1>4, KeysKeepRows DEF TypeOK, DataTypes
<1> QED
  BY <1>1, <1>2, <1>3, <1>4, Steps DEF TypeOK

\* A key leaves the pending list as it was read.
LEMMA KeysDoNotRefresh ==
  ASSUME HandleKey
  PROVE  /\ pending' = pending /\ shown' = shown /\ pc' = "frame"
         /\ dir' \subseteq dir /\ due' \in {due, TRUE}
<1>1. CASE PopupKey \/ EditKey \/ FilterKey \/ OpenDetail
  BY <1>1 DEF HandleKey, PopupKey, EditKey, FilterKey, OpenDetail, reviewVars
<1>2. CASE SwitchTab \/ Scroll \/ StartFilter \/ CycleFilter
  BY <1>2 DEF HandleKey, SwitchTab, Scroll, StartFilter, CycleFilter, reviewVars
<1>3. CASE Decide \/ StartEdit \/ Save \/ OtherKey
  BY <1>3 DEF HandleKey, Decide, StartEdit, Save, OtherKey, reviewVars
<1> QED
  BY <1>1, <1>2, <1>3 DEF HandleKey

LEMMA RowAtIs ==
  ASSUME NEW S, NEW list \in Seq(S), NEW i \in Nat
  PROVE  /\ i < Len(list) => RowAt(list, i) \in S /\ RowAt(list, i) = list[i + 1]
         /\ ~(i < Len(list)) => RowAt(list, i) = None
<1>1. PICK n \in Nat : n = Len(list)
  BY LenProperties
<1>2. i < n => list[i + 1] \in S
  <2>1. i < n => i + 1 \in 1..n
    OBVIOUS
  <2> QED
    BY <1>1, <2>1, ElementOfSeq
<1> QED
  BY <1>1, <1>2 DEF RowAt

LEMMA StepReviewTypes ==
  ASSUME TypeOK, [Next]_vars
  PROVE  ReviewTypes'
<1>1. session' = session
  BY StepLoopTypes DEF TypeOK
<1>2. CASE Frame
  <2>1. pending' \in Seq(Nat) /\ due' = FALSE /\ dir' = dir
    BY <1>2, RefreshIs DEF Frame, Refresh, TypeOK
  <2>2. view'.at["Pending"] \in Nat
    BY StepViewTypes DEF ViewTypes, View, List, Tab
  <2>3. Highlighted' \in Nat \cup {None}
    BY <2>1, <2>2, RowAtIs DEF Highlighted
  <2>4. shown' = Highlighted'
    BY <1>2 DEF Frame
  <2> QED
    BY <1>1, <2>1, <2>3, <2>4 DEF TypeOK, ReviewTypes
<1>3. CASE \E e \in session.events : TakeEvent(e)
  BY <1>1, <1>3 DEF TakeEvent, reviewVars, TypeOK, ReviewTypes
<1>4. CASE Quiet
  BY <1>1, <1>4 DEF Quiet, TypeOK, ReviewTypes
<1>5. CASE HandleKey
  BY <1>1, <1>5, KeysDoNotRefresh DEF TypeOK, ReviewTypes
<1> QED
  BY <1>2, <1>3, <1>4, <1>5, Steps DEF TypeOK

\* Only the editor touches what it edits.
LEMMA StepEdits ==
  ASSUME LoopTypes, ReviewTypes, [Next]_vars
  PROVE  (HandleKey /\ (EditKey \/ StartEdit \/ Save)) \/ UNCHANGED editVars
<1>1. CASE Frame \/ (\E e \in session.events : TakeEvent(e)) \/ Quiet
  BY <1>1 DEF Frame, TakeEvent, Quiet
<1>2. CASE HandleKey
  <2>1. CASE PopupKey \/ FilterKey \/ OpenDetail \/ SwitchTab \/ Scroll
    BY <2>1 DEF PopupKey, FilterKey, OpenDetail, SwitchTab, Scroll
  <2>2. CASE StartFilter \/ CycleFilter \/ Decide \/ OtherKey
    BY <2>2 DEF StartFilter, CycleFilter, Decide, OtherKey
  <2> QED
    BY <1>2, <2>1, <2>2 DEF HandleKey
<1> QED
  BY <1>1, <1>2, Steps

LEMMA StepEditTypes ==
  ASSUME TypeOK, [Next]_vars
  PROVE  EditTypes'
<1> USE DEF TypeOK
<1>1. session' = session /\ Fields' = Fields
  BY StepLoopTypes DEF Fields
<1>2. PICK present : present = session.present /\ present = session'.present
  BY <1>1
<1>3. /\ value \in [Fields -> Value] /\ editor \in Editor
      /\ text \in [present -> Value] /\ saved \in [present -> Value]
  BY <1>2 DEF EditTypes
<1>4. CASE UNCHANGED editVars
  BY <1>1, <1>4 DEF editVars, EditTypes
<1>5. CASE EditKey
  <2>1. saved' = saved
    BY <1>5 DEF EditKey
  <2>2. ASSUME NEW v \in Value, Confirm(v)
        PROVE  value' \in [Fields -> Value] /\ text' \in [present -> Value] /\ editor' \in Editor
    <3>1. value' = [value EXCEPT ![Field] = v]
      BY <2>2 DEF Confirm
    <3>2. text' = [text EXCEPT ![Field] = v] \/ text' = text
      BY <2>2 DEF Confirm
    <3>3. editor' \in Editor
      BY <2>2 DEF Confirm, Editor, Value
    <3> QED
      BY <1>3, <3>1, <3>2, <3>3
  <2>3. CASE \/ editor' = [editor EXCEPT !.editing = FALSE, !.buf = ""] /\ UNCHANGED <<value, text>>
             \/ \E v \in Value : editor' = [editor EXCEPT !.buf = v] /\ UNCHANGED <<value, text>>
    <3>1. editor' \in Editor /\ value' = value /\ text' = text
      BY <1>3, <2>3 DEF Editor, Value
    <3> QED
      BY <1>1, <1>2, <1>3, <2>1, <3>1 DEF EditTypes
  <2>4. CASE Confirm(editor.buf)
    <3>1. editor.buf \in Value
      BY <1>3 DEF Editor
    <3> QED
      BY <1>1, <1>2, <1>3, <2>1, <2>2, <2>4, <3>1 DEF EditTypes
  <2>5. CASE Confirm(Toggle(editor.buf))
    <3>1. Toggle(editor.buf) \in Value
      BY DEF Toggle, Value
    <3> QED
      BY <1>1, <1>2, <1>3, <2>1, <2>2, <2>5, <3>1 DEF EditTypes
  <2> QED
    BY <1>5, <2>3, <2>4, <2>5 DEF EditKey
<1>6. CASE StartEdit
  <2>1. /\ UNCHANGED <<value, text, saved>>
        /\ editor' = [editor EXCEPT !.editing = TRUE, !.buf = value[Field]]
    BY <1>6 DEF StartEdit
  <2>2. Field \in Fields
    <3>1. PICK fields \in Seq(STRING) : fields = session.fields
      BY SessionTypes
    <3>2. PICK i \in Nat : i = view.at["Config"]
      BY DEF ViewTypes, View, List, Tab
    <3>3. Field = RowAt(fields, i)
      BY <3>1, <3>2 DEF Field
    <3>4. i < Len(fields)
      BY <1>6, <3>2, <3>3, RowAtIs DEF StartEdit
    <3>5. Field = fields[i + 1]
      BY <3>3, <3>4, RowAtIs
    <3>6. PICK n \in Nat : n = Len(fields)
      BY LenProperties
    <3>7. DOMAIN fields = 1..n
      BY <3>6, LenProperties
    <3>8. i + 1 \in DOMAIN fields
      BY <3>4, <3>6, <3>7
    <3>9. Fields = {fields[k] : k \in DOMAIN fields}
      BY <3>1 DEF Fields, ToSet
    <3> QED
      BY <3>5, <3>8, <3>9
  <2>3. value[Field] \in Value
    BY <1>3, <2>2
  <2>4. editor' \in Editor
    BY <1>3, <2>1, <2>3 DEF Editor
  <2> QED
    BY <1>1, <1>2, <1>3, <2>1, <2>4 DEF EditTypes
<1>7. CASE Save
  <2>1. UNCHANGED <<value, text>> /\ editor' \in Editor /\ saved' \in {saved, text}
    BY <1>3, <1>7 DEF Save, Editor
  <2> QED
    BY <1>1, <1>2, <1>3, <2>1 DEF EditTypes
<1> QED
  BY <1>4, <1>5, <1>6, <1>7, StepEdits

LEMMA StepTypeOK ==
  ASSUME TypeOK, [Next]_vars
  PROVE  TypeOK'
<1>1. LoopTypes' /\ ViewTypes' /\ DataTypes' /\ ReviewTypes' /\ EditTypes'
  BY StepLoopTypes, StepViewTypes, StepDataTypes, StepReviewTypes, StepEditTypes DEF TypeOK
<1> QED
  BY <1>1 DEF TypeOK

-----------------------------------------------------------------------------
(***************************************************************************)
(* Nothing is lost unmarked, and decisions are about what is shown         *)
(***************************************************************************)
\* Only a save that works takes the mark away.
LEMMA StepUnsaved ==
  ASSUME TypeOK, UnsavedIsMarked, [Next]_vars
  PROVE  UnsavedIsMarked'
<1> editor \in Editor
  BY DEF TypeOK, EditTypes
<1>1. CASE UNCHANGED editVars
  BY <1>1 DEF editVars, UnsavedIsMarked
<1>2. CASE EditKey
  <2>1. saved' = saved
    BY <1>2 DEF EditKey
  <2>2. (text' = text /\ editor'.modified = editor.modified) \/ editor'.modified = TRUE
    <3>1. CASE editor' = [editor EXCEPT !.editing = FALSE, !.buf = ""] /\ UNCHANGED <<value, text>>
      BY <3>1 DEF Editor
    <3>2. CASE \E v \in Value : editor' = [editor EXCEPT !.buf = v] /\ UNCHANGED <<value, text>>
      BY <3>2 DEF Editor
    <3>3. CASE Confirm(editor.buf) \/ Confirm(Toggle(editor.buf))
      <4>1. editor' = [editing |-> FALSE, buf |-> "", modified |-> TRUE]
        BY <3>3 DEF Confirm
      <4> QED
        BY <4>1
    <3> QED
      BY <1>2, <3>1, <3>2, <3>3 DEF EditKey
  <2> QED
    BY <2>1, <2>2 DEF UnsavedIsMarked
<1>3. CASE StartEdit
  BY <1>3 DEF StartEdit, UnsavedIsMarked, Editor
<1>4. CASE Save
  BY <1>4 DEF Save, UnsavedIsMarked
<1> QED
  BY <1>1, <1>2, <1>3, <1>4, StepEdits DEF TypeOK

\* Keys other than those of the pending list leave its cursor.
LEMMA StepPendingCursor ==
  ASSUME TypeOK, PendingCursor, [Next]_vars
  PROVE  PendingCursor'
<1> view \in View /\ "Pending" \in List
  BY DEF TypeOK, ViewTypes, List, Tab
<1>1. CASE Frame
  BY <1>1, RefreshIs DEF Frame, TypeOK
<1>2. CASE (\E e \in session.events : TakeEvent(e)) \/ Quiet
  BY <1>2 DEF TakeEvent, Quiet, reviewVars, PendingCursor
<1>3. CASE HandleKey
  <2>1. pending' = pending
    BY <1>3, KeysDoNotRefresh
  <2>2. CASE view'.at["Pending"] = view.at["Pending"]
    BY <2>1, <2>2 DEF PendingCursor
  <2>3. CASE PopupKey \/ EditKey \/ SwitchTab \/ OpenDetail \/ StartFilter
    BY <2>2, <2>3 DEF PopupKey, EditKey, SwitchTab, OpenDetail, StartFilter, View
  <2>4. CASE FilterKey
    <3>1. CASE view' = [view EXCEPT !.query = FALSE, !.mode = "normal"] \/ UNCHANGED view
      <4>1. view'.at = view.at
        BY <3>1 DEF View
      <4> QED
        BY <2>2, <4>1
    <3>2. CASE \E query \in BOOLEAN :
                 view' = [view EXCEPT !.query = query, !.mode = "normal", !.at["Events"] = 0]
      <4>1. view'.at = [view.at EXCEPT !["Events"] = 0]
        BY <3>2 DEF View
      <4>2. view'.at["Pending"] = view.at["Pending"]
        BY <4>1 DEF View
      <4> QED
        BY <2>2, <4>2
    <3> QED
      BY <2>4, <3>1, <3>2 DEF FilterKey
  <2>5. CASE CycleFilter
    <3>1. view'.at["Pending"] = view.at["Pending"]
      BY <2>5 DEF CycleFilter, View
    <3> QED
      BY <2>2, <3>1
  <2>6. CASE Decide \/ StartEdit \/ Save \/ OtherKey
    BY <2>2, <2>6 DEF Decide, StartEdit, Save, OtherKey
  <2>7. CASE Scroll
    <3>1. PICK l \in List, n \in Nat : /\ view' = [view EXCEPT !.at[l] = n]
                                       /\ n <= view.at[l] \/ n < Length(l)
      BY <2>7, ScrollIs DEF TypeOK
    <3>2. view'.at[l] = n /\ \A m \in List : m # l => view'.at[m] = view.at[m]
      BY <3>1, ViewAt
    <3>3. CASE l # "Pending"
      BY <2>2, <3>2, <3>3
    <3>4. CASE l = "Pending"
      <4>1. Length(l) = Len(pending)
        BY <3>4 DEF Length, Listed
      <4>2. PICK len \in Nat : len = Len(pending)
        BY LenProperties DEF TypeOK, ReviewTypes
      <4>3. PICK at \in Nat : at = view.at["Pending"]
        BY DEF View
      <4>4. pending # <<>> => n < len
        BY <3>1, <3>4, <4>1, <4>2, <4>3 DEF PendingCursor
      <4> QED
        BY <2>1, <3>2, <3>4, <4>2, <4>4 DEF PendingCursor
    <3> QED
      BY <3>3, <3>4
  <2> QED
    BY <1>3, <2>3, <2>4, <2>5, <2>6, <2>7 DEF HandleKey
<1> QED
  BY <1>1, <1>2, <1>3, Steps DEF TypeOK

\* What is drawn is what the key finds: only a frame leads to where keys are read.
LEMMA StepDecision ==
  ASSUME TypeOK, PendingCursor, DecisionFollowsDisplay, [Next]_vars
  PROVE  DecisionFollowsDisplay'
<1>1. CASE Frame
  <2>1. shown' = Highlighted'
    BY <1>1 DEF Frame
  <2>2. ASSUME pending' # <<>> PROVE shown' # None
    <3>1. view'.at["Pending"] < Len(pending')
      BY <2>2, StepPendingCursor DEF PendingCursor
    <3>2. pending' \in Seq(Nat) /\ view'.at["Pending"] \in Nat
      BY StepReviewTypes, StepViewTypes DEF ReviewTypes, ViewTypes, View, List, Tab
    <3>3. Highlighted' \in Nat
      BY <3>1, <3>2, RowAtIs DEF Highlighted
    <3> QED
      BY <2>1, <3>3, TuiAssumption
  <2> QED
    BY <2>1, <2>2 DEF DecisionFollowsDisplay
<1>2. CASE \E e \in session.events : TakeEvent(e)
  BY <1>2 DEF TakeEvent, DecisionFollowsDisplay
<1>3. CASE HandleKey
  BY <1>3, KeysDoNotRefresh DEF DecisionFollowsDisplay
<1>4. CASE Quiet
  BY <1>4 DEF Quiet, DecisionFollowsDisplay, Highlighted
<1> QED
  BY <1>1, <1>2, <1>3, <1>4, Steps DEF TypeOK

-----------------------------------------------------------------------------
(***************************************************************************)
(* Cursors and popups over lists that grow                                 *)
(***************************************************************************)
\* The rows that a filter lets through.
Wanted(l) ==
  IF l = "Events" THEN {r \in ListRow : view.query => r.hit}
  ELSE {r \in ListRow : CASE view.filter = "Blocked" -> r.action \in {"Blocked", "Killed"}
                          [] view.filter = "Alerted" -> r.action = "Alerted"
                          [] OTHER -> TRUE}

LEMMA ListedIs ==
  ASSUME NEW l \in EventLists
  PROVE  /\ Listed(l) = Filtered(rows[l], Wanted(l))
         /\ Listed(l)' = Filtered(rows'[l], Wanted(l)')
<1>1. CASE l = "Events"
  BY <1>1 DEF Listed, filtered_events, Wanted
<1>2. CASE l = "Incidents"
  BY <1>2 DEF Listed, filtered_incidents, Wanted
<1> QED
  BY <1>1, <1>2 DEF EventLists

\* A filter that stays and a list that drops nothing: what was listed still is,
\* in its place.
LEMMA ListedStays ==
  ASSUME DataTypes, NEW l \in EventLists, view'.query = view.query, view'.filter = view.filter,
         NEW e \in Event, Len(rows[l]) < Cap,
         rows'[l] = rows[l] \/ rows'[l] = Pushed(rows[l], e)
  PROVE  /\ Listed(l) \in Seq(ListRow) /\ Listed(l)' \in Seq(ListRow)
         /\ Len(Listed(l)) <= Len(Listed(l)')
         /\ \A k \in 1..Len(Listed(l)) : Listed(l)'[k] = Listed(l)[k]
<1>1. PICK list : list = rows[l]
  OBVIOUS
<1>2. list \in Seq(ListRow)
  BY <1>1 DEF DataTypes
<1>3. PICK w : w = Wanted(l)
  OBVIOUS
<1>4. Wanted(l)' = w
  BY <1>3 DEF Wanted
<1>5. PICK new : new = rows'[l]
  OBVIOUS
<1>6. Listed(l) = Filtered(list, w) /\ Listed(l)' = Filtered(new, w)
  BY <1>1, <1>3, <1>4, <1>5, ListedIs
<1>7. Filtered(list, w) \in Seq(ListRow) /\ Len(Filtered(list, w)) \in Nat
  BY <1>2, FilteredIs
<1>8. CASE new = list
  BY <1>6, <1>7, <1>8
<1>9. CASE new = Pushed(list, e)
  <2>1. new = Append(list, Row(e)) /\ Row(e) \in ListRow
    BY <1>1, <1>2, <1>9, PushedIs
  <2>2. PICK r \in ListRow : new = Append(list, r)
    BY <2>1
  <2>3. Filtered(new, w) \in Seq(ListRow)
    <3>1. new \in Seq(ListRow)
      BY <1>2, <2>2, AppendProperties
    <3> QED
      BY <3>1, FilteredIs
  <2>4. /\ Len(Filtered(list, w)) <= Len(Filtered(new, w))
        /\ \A k \in 1..Len(Filtered(list, w)) : Filtered(new, w)[k] = Filtered(list, w)[k]
    BY <1>2, <2>2, FilteredAppend
  <2> QED
    BY <1>6, <1>7, <2>3, <2>4
<1> QED
  BY <1>1, <1>5, <1>8, <1>9

\* A cursor stays where its list is longer, or goes to the top.
LEMMA StepCursors ==
  ASSUME TypeOK, Cursors, [Next]_vars
  PROVE  Cursors'
<1> view \in View /\ DataTypes /\ EventLists \subseteq List
  BY DEF TypeOK, ViewTypes, EventLists, List, Tab
<1> SUFFICES ASSUME NEW l \in EventLists PROVE Cursor(l)'
  BY DEF Cursors
<1>1. Cursor(l) /\ view.at[l] \in Nat /\ rows[l] \in Seq(ListRow)
  BY DEF Cursors, View, DataTypes
<1>2. PICK n \in Nat : n = Len(rows[l])
  BY <1>1, LenProperties
<1>3. n <= Cap /\ Cap \in Nat
  BY <1>1, <1>2, TuiAssumption DEF Cursor
<1>4. Listed(l) = Filtered(rows[l], Wanted(l)) /\ Listed(l)' = Filtered(rows'[l], Wanted(l)')
  BY ListedIs
<1>5. PICK len \in Nat : len = Len(Listed(l))
  BY <1>1, <1>4, FilteredIs
\* The list and its filter stay, and the cursor does not go down beyond it.
<1>6. ASSUME rows' = rows, view'.query = view.query, view'.filter = view.filter,
             \/ view'.at[l] = view.at[l] \/ view'.at[l] = 0 \/ view'.at[l] < len
             \/ view'.at[l] \in Nat /\ view'.at[l] <= view.at[l]
      PROVE  Cursor(l)'
  <2>1. Listed(l)' = Listed(l)
    BY <1>4, <1>6 DEF Wanted
  <2>2. n < Cap => view'.at[l] = 0 \/ view'.at[l] < len
    BY <1>1, <1>2, <1>5, <1>6 DEF Cursor
  <2> QED
    BY <1>2, <1>3, <1>5, <1>6, <2>1, <2>2 DEF Cursor
<1>7. CASE Frame
  BY <1>6, <1>7, RefreshIs DEF Frame, TypeOK, dataVars
<1>8. CASE Quiet
  BY <1>6, <1>8 DEF Quiet, dataVars
<1>9. CASE \E e \in session.events : TakeEvent(e)
  <2>1. PICK e \in Event : PushEvent(e) /\ view' = view
    BY <1>9, SessionTypes DEF TakeEvent, TypeOK
  <2>2. /\ rows' \in [EventLists -> Seq(ListRow)]
        /\ rows'[l] = rows[l] \/ rows'[l] = Pushed(rows[l], e)
    BY <2>1, PushEventIs
  <2>3. CASE n < Cap
    <3>1. Len(Listed(l)) <= Len(Listed(l)') /\ Listed(l)' \in Seq(ListRow)
      BY <1>2, <2>1, <2>2, <2>3, ListedStays
    <3>2. PICK m \in Nat : m = Len(Listed(l)')
      BY <3>1, LenProperties
    <3>3. view'.at[l] = 0 \/ view'.at[l] < m
      BY <1>1, <1>2, <1>5, <2>1, <2>3, <3>1, <3>2 DEF Cursor
    <3>4. Len(rows'[l]) <= Cap
      <4>1. CASE rows'[l] = rows[l]
        BY <1>2, <1>3, <4>1
      <4>2. CASE rows'[l] = Pushed(rows[l], e)
        <5>1. rows'[l] = Append(rows[l], Row(e)) /\ Row(e) \in ListRow
          BY <1>1, <1>2, <2>3, <4>2, PushedIs
        <5>2. Len(rows'[l]) = n + 1
          BY <1>1, <1>2, <5>1, AppendProperties
        <5> QED
          BY <1>3, <2>3, <5>2
      <4> QED
        BY <2>2, <4>1, <4>2
    <3> QED
      BY <3>2, <3>3, <3>4 DEF Cursor
  <2>4. CASE n = Cap
    <3>1. Len(rows'[l]) = Cap
      BY <1>1, <1>2, <2>2, <2>4, PushedIs
    <3> QED
      BY <1>3, <3>1 DEF Cursor
  <2> QED
    BY <1>3, <2>3, <2>4
<1>10. CASE HandleKey
  <2>1. rows' = rows
    BY <1>10, KeysKeepRows
  <2>2. CASE PopupKey \/ SwitchTab \/ OpenDetail \/ StartFilter
    BY <1>6, <2>1, <2>2 DEF PopupKey, SwitchTab, OpenDetail, StartFilter, View
  <2>3. CASE EditKey \/ Decide \/ StartEdit \/ Save \/ OtherKey
    BY <1>6, <2>1, <2>3 DEF EditKey, Decide, StartEdit, Save, OtherKey
  <2>4. CASE Scroll
    <3>1. PICK s \in List, to \in Nat : /\ view' = [view EXCEPT !.at[s] = to]
                                        /\ to <= view.at[s] \/ to < Length(s)
      BY <2>4, ScrollIs DEF TypeOK
    <3>2. /\ view'.at[s] = to /\ \A m \in List : m # s => view'.at[m] = view.at[m]
          /\ view'.query = view.query /\ view'.filter = view.filter
      BY <3>1, ViewAt
    <3>3. l = s => Length(s) = len
      BY <1>5 DEF Length, EventLists
    <3>4. CASE l = s
      BY <1>6, <2>1, <3>1, <3>2, <3>3, <3>4
    <3>5. CASE l # s
      BY <1>6, <2>1, <3>2, <3>5
    <3> QED
      BY <3>4, <3>5
  <2>5. CASE FilterKey
    <3>1. CASE UNCHANGED view
      BY <1>6, <2>1, <3>1
    <3>2. CASE view' = [view EXCEPT !.query = FALSE, !.mode = "normal"]
      <4>1. view'.at = view.at /\ view'.query = FALSE /\ view'.filter = view.filter
        BY <3>2 DEF View
      <4>2. PICK few, many : few = Wanted(l) /\ many = Wanted(l)'
        OBVIOUS
      <4>3. few \subseteq many
        BY <4>1, <4>2 DEF Wanted
      <4>4. Len(Filtered(rows[l], few)) <= Len(Filtered(rows[l], many))
        BY <1>1, <4>3, FilteredGrows
      <4>5. PICK m \in Nat : m = Len(Filtered(rows[l], many))
        BY <1>1, FilteredIs
      <4>6. Len(Listed(l)') = m /\ len <= m
        BY <1>4, <1>5, <2>1, <4>2, <4>4, <4>5
      <4>7. n < Cap => view'.at[l] = 0 \/ view'.at[l] < m
        BY <1>1, <1>2, <1>5, <4>1, <4>6 DEF Cursor
      <4> QED
        BY <1>2, <1>3, <2>1, <4>6, <4>7 DEF Cursor
    <3>3. CASE \E query \in BOOLEAN :
                 view' = [view EXCEPT !.query = query, !.mode = "normal", !.at["Events"] = 0]
      <4>1. CASE l = "Events"
        <5>1. view'.at[l] = 0
          BY <3>3, <4>1 DEF View
        <5> QED
          BY <1>2, <1>3, <2>1, <5>1 DEF Cursor
      <4>2. CASE l = "Incidents"
        <5>1. view'.at[l] = view.at[l] /\ view'.filter = view.filter
          BY <3>3, <4>2 DEF View
        <5>2. Listed(l)' = Listed(l)
          BY <1>4, <2>1, <4>2, <5>1 DEF Wanted
        <5> QED
          BY <1>1, <2>1, <5>1, <5>2 DEF Cursor
      <4> QED
        BY <4>1, <4>2 DEF EventLists
    <3> QED
      BY <2>5, <3>1, <3>2, <3>3 DEF FilterKey
  <2>6. CASE CycleFilter
    <3>1. CASE l = "Incidents"
      <4>1. view'.at[l] = 0
        BY <2>6, <3>1 DEF CycleFilter, View
      <4> QED
        BY <1>2, <1>3, <2>1, <4>1 DEF Cursor
    <3>2. CASE l = "Events"
      <4>1. view'.at[l] = view.at[l] /\ view'.query = view.query
        BY <2>6, <3>2 DEF CycleFilter, View
      <4>2. Listed(l)' = Listed(l)
        BY <1>4, <2>1, <3>2, <4>1 DEF Wanted
      <4> QED
        BY <1>1, <2>1, <4>1, <4>2 DEF Cursor
    <3> QED
      BY <3>1, <3>2 DEF EventLists
  <2> QED
    BY <1>10, <2>2, <2>3, <2>4, <2>5, <2>6 DEF HandleKey
<1> QED
  BY <1>7, <1>8, <1>9, <1>10, Steps DEF TypeOK

\* What the popup is on is there, as long as the list has dropped nothing: a key
\* opens it on a row, and until one closes it the filters are left alone and rows
\* only come behind.
PopupHolds == PopupInList /\ PopupKeepsRow

LEMMA StepPopup ==
  ASSUME TypeOK, Cursors, PopupHolds, [Next]_vars
  PROVE  PopupHolds'
<1> view \in View /\ DataTypes
  BY DEF TypeOK, ViewTypes
<1>1. CASE view'.popup = None
  BY <1>1 DEF PopupHolds, PopupInList, PopupKeepsRow
\* Nothing of what the popup is on changes.
<1>2. ASSUME rows' = rows, view'.query = view.query, view'.filter = view.filter,
             view'.popup = view.popup, opened' = opened, shifted' = shifted
      PROVE  PopupHolds'
  <2>1. CASE view.popup # None /\ view.popup.on \in EventLists
    <3>1. PICK l \in EventLists : l = view.popup.on
      BY <2>1
    <3>2. Listed(l)' = Listed(l)
      BY <1>2, ListedIs DEF Wanted
    <3> QED
      BY <1>2, <3>1, <3>2 DEF PopupHolds, PopupInList, PopupKeepsRow
  <2>2. CASE view.popup = None \/ view.popup.on = "Pending"
    BY <1>2, <2>2 DEF PopupHolds, PopupInList, PopupKeepsRow
  <2>3. view.popup # None => view.popup.on \in {"Events", "Incidents", "Pending"}
    BY DEF View, Popup
  <2> QED
    BY <2>1, <2>2, <2>3 DEF EventLists
<1>3. CASE Frame
  BY <1>2, <1>3, RefreshIs DEF Frame, TypeOK, dataVars
<1>4. CASE Quiet
  BY <1>2, <1>4 DEF Quiet, dataVars
<1>5. CASE \E e \in session.events : TakeEvent(e)
  <2>1. PICK e \in Event : PushEvent(e) /\ view' = view /\ opened' = opened
    BY <1>5, SessionTypes DEF TakeEvent, TypeOK
  <2>2. SUFFICES ASSUME view.popup # None, view.popup.on # "Pending", ~shifted',
                        NEW l \in EventLists, NEW i \in Nat,
                        l = view.popup.on, i = view.popup.idx
                 PROVE  /\ Len(rows'[l]) < Cap => i < Len(Listed(l)')
                        /\ RowAt(Listed(l)', i) = opened
    <3>1. view.popup # None /\ view.popup.on # "Pending"
            => view.popup.on \in EventLists /\ view.popup.idx \in Nat
      BY DEF View, Popup, EventLists
    <3> QED
      BY <2>1, <3>1 DEF PopupHolds, PopupInList, PopupKeepsRow
  <2>4. /\ ~shifted
        /\ \/ rows'[l] = rows[l]
           \/ rows'[l] = Pushed(rows[l], e) /\ Len(rows[l]) # Cap
    BY <2>1, <2>2, PushEventIs
  <2>5. /\ Len(rows[l]) < Cap => i < Len(Listed(l))
        /\ RowAt(Listed(l), i) = opened
    BY <2>2, <2>4 DEF PopupHolds, PopupInList, PopupKeepsRow
  <2>6. rows[l] \in Seq(ListRow) /\ Len(rows[l]) \in Nat /\ Len(rows[l]) <= Cap /\ Cap \in Nat
    BY LenProperties, TuiAssumption DEF DataTypes, Cursors, Cursor
  <2>7. CASE Len(rows[l]) < Cap
    <3>1. /\ Listed(l) \in Seq(ListRow) /\ Listed(l)' \in Seq(ListRow)
          /\ Len(Listed(l)) <= Len(Listed(l)')
          /\ \A k \in 1..Len(Listed(l)) : Listed(l)'[k] = Listed(l)[k]
      BY <2>1, <2>4, <2>7, ListedStays
    <3>2. PICK m, n \in Nat : m = Len(Listed(l)) /\ n = Len(Listed(l)')
      BY <3>1, LenProperties
    <3>3. i < m /\ i < n /\ i + 1 \in 1..m
      BY <2>5, <2>7, <3>1, <3>2
    <3>4. RowAt(Listed(l), i) = Listed(l)[i + 1] /\ RowAt(Listed(l)', i) = Listed(l)'[i + 1]
      BY <3>2, <3>3 DEF RowAt
    <3>5. Listed(l)'[i + 1] = Listed(l)[i + 1]
      BY <3>1, <3>2, <3>3
    <3> QED
      BY <2>5, <3>2, <3>3, <3>4, <3>5
  <2>8. CASE ~(Len(rows[l]) < Cap)
    <3>1. rows'[l] = rows[l]
      BY <2>4, <2>6, <2>8
    <3>2. Listed(l)' = Listed(l)
      BY <2>1, <3>1, ListedIs DEF Wanted
    <3> QED
      BY <2>5, <2>8, <3>1, <3>2
  <2> QED
    BY <2>7, <2>8
<1>6. CASE HandleKey
  <2>1. CASE PopupKey
    <3>1. CASE UNCHANGED <<view, opened, shifted>>
      BY <1>2, <2>1, <3>1 DEF PopupKey
    <3>2. CASE view' = [view EXCEPT !.popup = None]
      <4>1. view'.popup = None
        BY <3>2 DEF View
      <4> QED
        BY <1>1, <4>1
    <3> QED
      BY <2>1, <3>1, <3>2 DEF PopupKey
  <2>2. CASE OpenDetail
    <3>1. PICK l \in {"Events", "Incidents", "Pending"} : l = view.tab
      BY <2>2 DEF OpenDetail
    <3>2. PICK i \in Nat : i = view.at[l]
      BY <3>1 DEF View, List, Tab
    <3>3. /\ view' = [view EXCEPT !.popup = [on |-> l, idx |-> i]]
          /\ opened' = RowAt(Listed(l), i) /\ Listed(l) # <<>> /\ rows' = rows
      BY <2>2, <3>1, <3>2 DEF OpenDetail
    <3>4. /\ view'.popup.on = l /\ view'.popup.idx = i
          /\ view'.query = view.query /\ view'.filter = view.filter
      BY <3>3 DEF View
    <3>5. CASE l = "Pending"
      BY <3>4, <3>5 DEF PopupHolds, PopupInList, PopupKeepsRow
    <3>6. CASE l \in EventLists
      <4>1. Listed(l)' = Listed(l)
        <5>1. Wanted(l)' = Wanted(l)
          BY <3>4 DEF Wanted
        <5>2. Listed(l) = Filtered(rows[l], Wanted(l))
              /\ Listed(l)' = Filtered(rows'[l], Wanted(l)')
          BY <3>6, ListedIs
        <5> QED
          BY <3>3, <5>1, <5>2
      <4>2. Len(rows[l]) < Cap => i < Len(Listed(l))
        <5>1. Len(rows[l]) < Cap => i = 0 \/ i < Len(Listed(l))
          BY <3>2, <3>6 DEF Cursors, Cursor
        <5>2. Listed(l) \in Seq(ListRow)
          BY <3>6, ListedIs, FilteredIs DEF DataTypes
        <5>3. Len(Listed(l)) \in Nat \ {0}
          BY <3>3, <5>2, EmptySeq
        <5> QED
          BY <5>1, <5>3
      <4> QED
        BY <3>3, <3>4, <4>1, <4>2 DEF PopupHolds, PopupInList, PopupKeepsRow
    <3> QED
      BY <3>1, <3>5, <3>6 DEF EventLists
  <2>3. CASE EditKey \/ Decide \/ StartEdit \/ Save \/ OtherKey
    <3>1. UNCHANGED <<view, opened, rows, shifted>>
      BY <2>3 DEF EditKey, Decide, StartEdit, Save, OtherKey, dataVars
    <3> QED
      BY <1>2, <3>1
  <2>4. CASE FilterKey \/ SwitchTab \/ StartFilter \/ CycleFilter
    <3>1. view.popup = None
      BY <2>4 DEF FilterKey, SwitchTab, StartFilter, CycleFilter, InNormalMode
    <3>2. view'.popup = view.popup
      BY <2>4 DEF FilterKey, SwitchTab, StartFilter, CycleFilter, View
    <3> QED
      BY <1>1, <3>1, <3>2
  <2>5. CASE Scroll
    <3>1. view.popup = None
      BY <2>5 DEF Scroll, InNormalMode
    <3>2. view'.popup = view.popup
      <4>1. PICK l \in List, n \in Nat : view' = [view EXCEPT !.at[l] = n]
        BY <2>5, ScrollIs DEF TypeOK
      <4> QED
        BY <4>1, ViewAt
    <3> QED
      BY <1>1, <3>1, <3>2
  <2> QED
    BY <1>6, <2>1, <2>2, <2>3, <2>4, <2>5 DEF HandleKey
<1> QED
  BY <1>3, <1>4, <1>5, <1>6, Steps DEF TypeOK

-----------------------------------------------------------------------------
(***************************************************************************)
(* Theorems                                                                *)
(***************************************************************************)
LEMMA InitHolds == Init => IInv
<1> SUFFICES ASSUME Init PROVE IInv
  OBVIOUS
<1>1. TypeOK
  BY InitTypeOK
<1>2. Cursors
  <2>1. rows = [Events |-> <<>>, Incidents |-> <<>>] /\ view.at = [l \in List |-> 0]
    BY DEF Init
  <2>2. ASSUME NEW l \in EventLists PROVE rows[l] = <<>> /\ view.at[l] = 0
    BY <2>1 DEF EventLists, List, Tab
  <2>3. Cap \in Nat /\ Len(<<>>) = 0
    BY TuiAssumption, EmptySeq
  <2> QED
    BY <2>2, <2>3 DEF Cursors, Cursor
<1>3. PendingCursor /\ DecisionFollowsDisplay /\ UnsavedIsMarked
  BY DEF Init, PendingCursor, DecisionFollowsDisplay, UnsavedIsMarked
<1>4. PopupInList /\ PopupKeepsRow
  BY DEF Init, PopupInList, PopupKeepsRow
<1> QED
  BY <1>1, <1>2, <1>3, <1>4 DEF IInv

LEMMA StepHolds == IInv /\ [Next]_vars => IInv'
<1> SUFFICES ASSUME IInv, [Next]_vars PROVE IInv'
  OBVIOUS
<1> TypeOK /\ Cursors /\ PendingCursor /\ DecisionFollowsDisplay /\ PopupHolds /\ UnsavedIsMarked
  BY DEF IInv, PopupHolds
<1>1. TypeOK' /\ Cursors' /\ PendingCursor'
  BY StepTypeOK, StepCursors, StepPendingCursor
<1>2. DecisionFollowsDisplay' /\ UnsavedIsMarked'
  BY StepDecision, StepUnsaved
<1>3. PopupInList' /\ PopupKeepsRow'
  BY StepPopup DEF PopupHolds
<1> QED
  BY <1>1, <1>2, <1>3 DEF IInv

LEMMA IInvHolds == Spec => []IInv
  BY InitHolds, StepHolds, PTL DEF Spec

\* Every variable has its type: cursors are never negative, a popup is on one of the
\* three lists that have details, and what the editor writes are fields of the text.
THEOREM TypeCorrect == Spec => []TypeOK
<1>1. IInv => TypeOK
  BY DEF IInv
<1> QED
  BY <1>1, IInvHolds, PTL

\* A decision is about the proposal that the screen highlights (maybe_refresh_pending
\* before draw, and keys after it), however often others change the directory.
THEOREM DecidesOnWhatIsShown == Spec => []DecisionFollowsDisplay
<1>1. IInv => DecisionFollowsDisplay
  BY DEF IInv
<1> QED
  BY <1>1, IInvHolds, PTL

\* A popup shows the row it was opened on until its list drops one, for lists and
\* filters of any size (open_detail, push_event, filtered_events).
THEOREM PopupShowsItsRow == Spec => []PopupKeepsRow
<1>1. IInv => PopupKeepsRow
  BY DEF IInv
<1> QED
  BY <1>1, IInvHolds, PTL

\* What differs from the file that was read or written last is marked
\* (confirm_config_edit, save_config).
THEOREM UnsavedStaysMarked == Spec => []UnsavedIsMarked
<1>1. IInv => UnsavedIsMarked
  BY DEF IInv
<1> QED
  BY <1>1, IInvHolds, PTL

-----------------------------------------------------------------------------
(***************************************************************************)
(* The process tree.  A walk makes as many calls of dfs as there can be;   *)
(* each of them keeps what the rows so far and the calls to come say, and  *)
(* either there is no call left or there is one fewer that can come.       *)
(***************************************************************************)
Node == [pid : DOMAIN procs, depth : Nat]

\* The parent of a node is among the first n rows.
Under(order, n, node) ==
  \E j \in 1..n : order[j].pid = procs[node.pid] /\ order[j].depth = node.depth - 1

Visited(order) == {order[i].pid : i \in DOMAIN order}

Called(calls) == {calls[i].pid : i \in DOMAIN calls}

\* Whoever has a parent in the tree, or is a root, is in the tree or will be.
Reached(order, calls) ==
  \A p \in DOMAIN procs :
    p \in Roots \/ procs[p] \in Visited(order) => p \in Visited(order) \cup Called(calls)

OnceEach(order) ==
  \A i, j \in DOMAIN order : order[i].pid = order[j].pid => i = j

BelowParents(order) ==
  \A i \in DOMAIN order : order[i].depth > 0 => Under(order, i - 1, order[i])

WalkOK(walk) ==
  /\ walk \in [calls : Seq(Node), order : Seq(Node)]
  /\ OnceEach(walk.order) /\ BelowParents(walk.order)
  /\ \A i \in DOMAIN walk.calls :
       walk.calls[i].depth > 0 => Under(walk.order, Len(walk.order), walk.calls[i])
  /\ Reached(walk.order, walk.calls)

\* The processes seen are finitely many numbers.
Finite ==
  /\ IsFiniteSet(DOMAIN procs) /\ DOMAIN procs \subseteq Nat
  /\ \A p \in DOMAIN procs : procs[p] \in Nat

LEMMA CallsAre ==
  ASSUME Finite, NEW S \in SUBSET DOMAIN procs, NEW depth \in Nat
  PROVE  LET calls == Calls(S, depth)
         IN  /\ calls \in Seq(Node) /\ Len(calls) = Cardinality(S)
             /\ Cardinality(S) \in Nat /\ Cardinality(S) <= Cardinality(DOMAIN procs)
             /\ \A i \in DOMAIN calls : calls[i].pid \in S /\ calls[i].depth = depth
             /\ Called(calls) = S
<1>1. S \in SUBSET Nat /\ IsFiniteSet(S) /\ Cardinality(S) <= Cardinality(DOMAIN procs)
  BY FS_Subset DEF Finite
<1>2. PICK a, c : a = Ascending(S) /\ c = Cardinality(S)
  OBVIOUS
<1>3. c \in Nat /\ \A k \in 1..c : a[k] \in S /\ Rank(S, a[k]) = k
  BY <1>1, <1>2, AscendingIs
<1>4. PICK l : l = Calls(S, depth)
  OBVIOUS
<1>5. l = [k \in 1..c |-> [pid |-> a[k], depth |-> depth]]
  BY <1>2, <1>4 DEF Calls
<1>6. DOMAIN l = 1..c /\ \A k \in 1..c : l[k].pid = a[k] /\ l[k].depth = depth
  BY <1>5
<1>7. l \in Seq(Node)
  <2>1. \A k \in 1..c : [pid |-> a[k], depth |-> depth] \in Node
    BY <1>3 DEF Node
  <2>2. l \in [1..c -> Node]
    BY <1>5, <2>1
  <2> QED
    BY <1>3, <2>2
<1>8. Len(l) = c
  <2>1. PICK m \in Nat : m = Len(l) /\ DOMAIN l = 1..m
    BY <1>7, LenProperties
  <2>2. 1..m = 1..c
    BY <1>6, <2>1
  <2>3. m = c
    BY <1>3, <2>2
  <2> QED
    BY <2>1, <2>3
<1>9. ASSUME NEW p \in S PROVE p \in Called(l)
  <2>1. PICK k : k = Rank(S, p)
    OBVIOUS
  <2>2. k \in 1..c
    <3>1. k \in Nat /\ 1 <= k /\ k <= c
      BY <1>1, <1>2, <2>1, RankType
    <3> QED
      BY <1>3, <3>1
  <2>3. a[k] \in S /\ Rank(S, a[k]) = Rank(S, p)
    BY <1>3, <2>1, <2>2
  <2>4. a[k] = p
    BY <1>1, <2>3, RankIsUnique
  <2> QED
    BY <1>6, <2>2, <2>4 DEF Called
<1>10. Called(l) \subseteq S
  BY <1>3, <1>6 DEF Called
<1> QED
  BY <1>1, <1>2, <1>3, <1>4, <1>6, <1>7, <1>8, <1>9, <1>10

\* Nobody is visited twice, so that no more are visited than were seen.
LEMMA VisitedAre ==
  ASSUME Finite, NEW order \in Seq(Node), OnceEach(order)
  PROVE  /\ Visited(order) \subseteq DOMAIN procs /\ Len(order) \in Nat
         /\ Cardinality(DOMAIN procs) \in Nat
         /\ Len(order) <= Cardinality(DOMAIN procs)
         /\ \A p \in DOMAIN procs :
              p \notin Visited(order) => Len(order) < Cardinality(DOMAIN procs)
<1>1. PICK D, n : D = DOMAIN procs /\ n = Cardinality(D)
  OBVIOUS
<1>2. IsFiniteSet(D) /\ n \in Nat
  BY <1>1, FS_CardinalityType DEF Finite
<1>3. PICK m \in Nat : m = Len(order) /\ DOMAIN order = 1..m
  BY LenProperties
<1>4. \A i \in 1..m : order[i] \in Node
  BY <1>3, ElementOfSeq
<1>5. \A i \in 1..m : order[i].pid \in D
  BY <1>1, <1>4 DEF Node
<1>6. PICK V : V = Visited(order)
  OBVIOUS
<1>7. V = {order[i].pid : i \in 1..m} /\ V \subseteq D
  BY <1>3, <1>5, <1>6 DEF Visited
<1>8. PICK T, f : T = 1..m /\ f = [i \in T |-> order[i].pid]
  OBVIOUS
<1>9. f \in Injection(T, V)
  <2>1. f \in [T -> V]
    BY <1>7, <1>8
  <2>2. ASSUME NEW i \in T, NEW j \in T, f[i] = f[j] PROVE i = j
    BY <1>3, <1>8, <2>2 DEF OnceEach
  <2> QED
    BY <2>1, <2>2 DEF Injection, IsInjective
<1>10. IsFiniteSet(T) /\ Cardinality(T) = m
  <2>1. 1 \in Int /\ m \in Int /\ (IF 1 > m THEN 0 ELSE m - 1 + 1) = m
    OBVIOUS
  <2> QED
    BY <1>8, <2>1, FS_Interval
<1>11. IsFiniteSet(V) /\ Cardinality(V) \in Nat /\ Cardinality(V) <= n
  BY <1>1, <1>2, <1>7, FS_Subset, FS_CardinalityType
<1>12. m <= Cardinality(V)
  BY <1>9, <1>10, <1>11, FS_Injection
<1>13. ASSUME NEW p \in D, p \notin V PROVE Cardinality(V) < n
  BY <1>1, <1>2, <1>7, <1>11, <1>13, FS_Subset
<1> QED
  BY <1>1, <1>2, <1>3, <1>6, <1>7, <1>11, <1>12, <1>13

LEMMA CallIs ==
  ASSUME NEW walk, WalkOK(walk), walk.calls # <<>>
  PROVE  LET call == Head(walk.calls)
             rest == Tail(walk.calls)
         IN  /\ call \in Node /\ rest \in Seq(Node) /\ Len(walk.calls) \in Nat
             /\ Len(rest) = Len(walk.calls) - 1
             /\ call.depth > 0 => Under(walk.order, Len(walk.order), call)
             /\ \A i \in DOMAIN rest :
                  rest[i].depth > 0 => Under(walk.order, Len(walk.order), rest[i])
             /\ Called(walk.calls) \subseteq Called(rest) \cup {call.pid}
<1>1. PICK calls, order : calls = walk.calls /\ order = walk.order
  OBVIOUS
<1>2. calls \in Seq(Node) /\ calls # <<>>
  BY <1>1 DEF WalkOK
<1>3. PICK call, rest : call = Head(calls) /\ rest = Tail(calls)
  OBVIOUS
<1>4. PICK n \in Nat : n = Len(calls) /\ DOMAIN calls = 1..n
  BY <1>2, LenProperties
<1>5. n # 0
  BY <1>2, <1>4, EmptySeq
<1>6. call = calls[1] /\ 1 \in DOMAIN calls
  BY <1>3, <1>4, <1>5
<1>7. /\ call \in Node /\ rest \in Seq(Node) /\ Len(rest) = n - 1
      /\ \A i \in 1..Len(rest) : rest[i] = calls[i + 1]
  BY <1>2, <1>3, <1>4, HeadTailProperties
<1>8. DOMAIN rest = 1..(n - 1)
  BY <1>7, LenProperties
<1>9. \A i \in 1..(n - 1) : rest[i] = calls[i + 1] /\ i + 1 \in DOMAIN calls
  BY <1>4, <1>7
<1>10. \A i \in DOMAIN calls : calls[i].depth > 0 => Under(order, Len(order), calls[i])
  BY <1>1 DEF WalkOK
<1>11. ASSUME NEW p \in Called(calls) PROVE p = call.pid \/ p \in Called(rest)
  <2>1. PICK i \in 1..n : p = calls[i].pid
    BY <1>4 DEF Called
  <2>2. CASE i = 1
    BY <1>6, <2>1, <2>2
  <2>3. CASE i # 1
    <3>1. PICK k : k = i - 1
      OBVIOUS
    <3>2. k \in 1..(n - 1) /\ k + 1 = i
      BY <1>4, <2>3, <3>1
    <3>3. rest[k] = calls[i]
      BY <1>9, <3>2
    <3> QED
      BY <1>8, <2>1, <3>2, <3>3 DEF Called
  <2> QED
    BY <2>2, <2>3
<1>12. \A i \in DOMAIN rest : rest[i].depth > 0 => Under(order, Len(order), rest[i])
  BY <1>8, <1>9, <1>10
<1>13. call.depth > 0 => Under(order, Len(order), call)
  BY <1>6, <1>10
<1> QED
  BY <1>1, <1>3, <1>4, <1>7, <1>11, <1>12, <1>13

\* dfs returns at once for a process that was visited.
LEMMA DfsReturns ==
  ASSUME NEW walk, WalkOK(walk), walk.calls # <<>>,
         Head(walk.calls).pid \in Visited(walk.order)
  PROVE  /\ WalkOK(Dfs(walk)) /\ Dfs(walk).order = walk.order
         /\ Len(Dfs(walk).calls) = Len(walk.calls) - 1
<1>1. PICK calls, order : calls = walk.calls /\ order = walk.order
  OBVIOUS
<1>2. walk \in [calls : Seq(Node), order : Seq(Node)]
  BY DEF WalkOK
<1>3. PICK call, rest : call = Head(calls) /\ rest = Tail(calls)
  OBVIOUS
<1>4. PICK after : after = Dfs(walk)
  OBVIOUS
<1>5. \E i \in DOMAIN order : order[i].pid = call.pid
  BY <1>1, <1>3 DEF Visited
<1>6. after = [walk EXCEPT !.calls = rest]
  BY <1>1, <1>3, <1>4, <1>5 DEF Dfs
<1>7. after.calls = rest /\ after.order = order
  BY <1>1, <1>2, <1>6
<1>8. /\ rest \in Seq(Node) /\ Len(rest) = Len(calls) - 1
      /\ \A i \in DOMAIN rest : rest[i].depth > 0 => Under(order, Len(order), rest[i])
      /\ Called(calls) \subseteq Called(rest) \cup {call.pid}
  BY <1>1, <1>3, CallIs
<1>9. after \in [calls : Seq(Node), order : Seq(Node)]
  BY <1>2, <1>6, <1>8
<1>10. Reached(order, rest)
  <2>1. Reached(order, calls) /\ call.pid \in Visited(order)
    BY <1>1, <1>3 DEF WalkOK
  <2> QED
    BY <1>8, <2>1 DEF Reached
<1>11. OnceEach(order) /\ BelowParents(order)
  BY <1>1 DEF WalkOK
<1>12. WalkOK(after)
  BY <1>7, <1>8, <1>9, <1>10, <1>11 DEF WalkOK
<1> QED
  BY <1>1, <1>4, <1>7, <1>8, <1>12

\* A longer list of rows has the same rows above a node.
LEMMA StaysUnder ==
  ASSUME NEW order \in Seq(Node), NEW node, NEW n, NEW added \in Node,
         n \in 0..Len(order), Under(order, n, node)
  PROVE  /\ Under(Append(order, added), n, node)
         /\ Under(Append(order, added), Len(order) + 1, node)
<1>1. PICK m \in Nat : m = Len(order)
  BY LenProperties
<1>2. PICK j \in 1..n : order[j].pid = procs[node.pid] /\ order[j].depth = node.depth - 1
  BY DEF Under
<1>3. PICK long : long = Append(order, added)
  OBVIOUS
<1>4. j \in 1..m /\ j \in 1..(m + 1)
  BY <1>1
<1>5. long[j] = order[j]
  BY <1>1, <1>3, <1>4, AppendProperties
<1> QED
  BY <1>1, <1>2, <1>3, <1>4, <1>5 DEF Under

\* dfs appends a process that was not visited, and calls itself for its children.
LEMMA DfsAppends ==
  ASSUME Finite, NEW walk, WalkOK(walk), walk.calls # <<>>,
         Head(walk.calls).pid \notin Visited(walk.order)
  PROVE  /\ WalkOK(Dfs(walk)) /\ Len(Dfs(walk).order) = Len(walk.order) + 1
         /\ Len(Dfs(walk).calls) < Len(walk.calls) + Cardinality(DOMAIN procs)
<1>1. PICK calls, order : calls = walk.calls /\ order = walk.order
  OBVIOUS
<1>2. order \in Seq(Node) /\ OnceEach(order) /\ BelowParents(order) /\ Reached(order, calls)
  BY <1>1 DEF WalkOK
<1>3. PICK call, rest : call = Head(calls) /\ rest = Tail(calls)
  OBVIOUS
<1>4. PICK after : after = Dfs(walk)
  OBVIOUS
<1>5. call.pid \notin Visited(order) /\ ~\E i \in DOMAIN order : order[i].pid = call.pid
  BY <1>1, <1>3 DEF Visited
<1>6. /\ call \in Node /\ rest \in Seq(Node)
      /\ Len(calls) \in Nat /\ Len(rest) = Len(calls) - 1
      /\ call.depth > 0 => Under(order, Len(order), call)
      /\ \A i \in DOMAIN rest : rest[i].depth > 0 => Under(order, Len(order), rest[i])
      /\ Called(calls) \subseteq Called(rest) \cup {call.pid}
  BY <1>1, <1>3, CallIs
<1>7. PICK C : C = Children(call.pid)
  OBVIOUS
<1>8. C \subseteq DOMAIN procs /\ \A c \in C : procs[c] = call.pid
  BY <1>7 DEF Children
<1>9. call.pid \in DOMAIN procs /\ call.depth \in Nat /\ call.depth + 1 \in Nat
  BY <1>6 DEF Node
<1>10. PICK new : new = Calls(C, call.depth + 1)
  OBVIOUS
<1>11. /\ new \in Seq(Node) /\ Len(new) \in Nat
       /\ Len(new) <= Cardinality(DOMAIN procs)
       /\ \A i \in DOMAIN new : new[i].pid \in C /\ new[i].depth = call.depth + 1
       /\ Called(new) = C
  <2>1. C \in SUBSET DOMAIN procs
    BY <1>8
  <2>2. PICK d \in Nat : d = call.depth + 1
    BY <1>9
  <2>3. /\ new \in Seq(Node) /\ Len(new) = Cardinality(C)
        /\ Cardinality(C) \in Nat /\ Cardinality(C) <= Cardinality(DOMAIN procs)
        /\ \A i \in DOMAIN new : new[i].pid \in C /\ new[i].depth = d
        /\ Called(new) = C
    BY <1>10, <2>1, <2>2, CallsAre
  <2> QED
    BY <2>2, <2>3
<1>12. PICK next, long : next = new \o rest /\ long = Append(order, call)
  OBVIOUS
<1>13. after = [calls |-> next, order |-> long]
  BY <1>1, <1>3, <1>4, <1>5, <1>7, <1>10, <1>12 DEF Dfs
<1>14. after.calls = next /\ after.order = long
  BY <1>13
<1>15. PICK m \in Nat : m = Len(order) /\ DOMAIN order = 1..m
  BY <1>2, LenProperties
<1>16. long \in Seq(Node) /\ Len(long) = m + 1
       /\ long[m + 1] = call /\ \A i \in 1..m : long[i] = order[i]
  BY <1>2, <1>6, <1>12, <1>15, AppendProperties
<1>17. DOMAIN long = 1..(m + 1)
  BY <1>16, LenProperties
<1>18. PICK a \in Nat, b \in Nat : a = Len(new) /\ b = Len(rest)
  BY <1>6, <1>11, LenProperties
<1>19. /\ next \in Seq(Node) /\ Len(next) = a + b
       /\ \A i \in 1..(a + b) : next[i] = IF i <= a THEN new[i] ELSE rest[i - a]
  <2>1. new \in Seq(Node) /\ rest \in Seq(Node)
    BY <1>6, <1>11
  <2>2. /\ new \o rest \in Seq(Node) /\ Len(new \o rest) = Len(new) + Len(rest)
        /\ \A i \in 1..(Len(new) + Len(rest)) :
             (new \o rest)[i] = IF i <= Len(new) THEN new[i] ELSE rest[i - Len(new)]
    BY <2>1, ConcatProperties
  <2> QED
    BY <1>12, <1>18, <2>2
<1>20. /\ DOMAIN next = 1..(a + b) /\ DOMAIN new = 1..a /\ DOMAIN rest = 1..b
  BY <1>6, <1>11, <1>18, <1>19, LenProperties
<1>21. ASSUME NEW i \in DOMAIN next
       PROVE  \/ i \in DOMAIN new /\ next[i] = new[i]
              \/ i - a \in DOMAIN rest /\ next[i] = rest[i - a]
  <2>1. CASE i <= a
    BY <1>18, <1>19, <1>20, <2>1
  <2>2. CASE ~(i <= a)
    <3>1. i - a \in 1..b
      BY <1>18, <1>20, <2>2
    <3> QED
      BY <1>19, <1>20, <2>2, <3>1
  <2> QED
    BY <2>1, <2>2
<1>22. OnceEach(long)
  <2> SUFFICES ASSUME NEW i \in 1..(m + 1), NEW j \in 1..(m + 1), long[i].pid = long[j].pid
               PROVE  i = j
    BY <1>17 DEF OnceEach
  <2>1. \A k \in 1..m : long[k].pid # call.pid /\ long[m + 1].pid = call.pid
    BY <1>5, <1>15, <1>16
  <2>2. (i \in 1..m \/ i = m + 1) /\ (j \in 1..m \/ j = m + 1)
    BY <1>15
  <2>3. CASE i \in 1..m /\ j \in 1..m
    BY <1>2, <1>15, <1>16, <2>3 DEF OnceEach
  <2> QED
    BY <2>1, <2>2, <2>3
<1>23. BelowParents(long)
  <2> SUFFICES ASSUME NEW i \in 1..(m + 1), long[i].depth > 0
               PROVE  Under(long, i - 1, long[i])
    BY <1>17 DEF BelowParents
  <2>1. CASE i \in 1..m
    <3>1. long[i] = order[i] /\ i - 1 \in 0..m
      BY <1>15, <1>16, <2>1
    <3>2. Under(order, i - 1, order[i])
      BY <1>2, <1>15, <2>1, <3>1 DEF BelowParents
    <3> QED
      BY <1>2, <1>6, <1>12, <1>15, <3>1, <3>2, StaysUnder
  <2>2. CASE i = m + 1
    <3>1. long[i] = call /\ i - 1 = m /\ m \in 0..m
      BY <1>15, <1>16, <2>2
    <3>2. Under(order, m, call)
      BY <1>6, <1>15, <3>1
    <3> QED
      BY <1>2, <1>6, <1>12, <1>15, <3>1, <3>2, StaysUnder
  <2> QED
    BY <1>15, <2>1, <2>2
<1>24. ASSUME NEW i \in DOMAIN next, next[i].depth > 0
       PROVE  Under(long, Len(long), next[i])
  <2>1. ASSUME NEW k \in DOMAIN new, next[i] = new[k] PROVE Under(long, Len(long), next[i])
    <3>1. next[i].depth = call.depth + 1 /\ procs[next[i].pid] = call.pid
      BY <1>8, <1>11, <2>1
    <3>2. call.depth = next[i].depth - 1
      BY <1>9, <3>1
    <3>3. m + 1 \in 1..(m + 1)
      BY <1>15
    <3> QED
      BY <1>16, <3>1, <3>2, <3>3 DEF Under
  <2>2. ASSUME NEW k \in DOMAIN rest, next[i] = rest[k] PROVE Under(long, Len(long), next[i])
    <3>1. Under(order, m, next[i]) /\ m \in 0..m
      BY <1>6, <1>15, <1>24, <2>2
    <3> QED
      BY <1>2, <1>6, <1>12, <1>15, <1>16, <3>1, StaysUnder
  <2> QED
    BY <1>21, <2>1, <2>2
<1>25. Called(new) \cup Called(rest) \subseteq Called(next)
  <2>1. ASSUME NEW i \in 1..a PROVE new[i].pid \in Called(next)
    <3>1. i \in DOMAIN next /\ next[i] = new[i]
      BY <1>18, <1>19, <1>20
    <3> QED
      BY <3>1 DEF Called
  <2>2. ASSUME NEW i \in 1..b PROVE rest[i].pid \in Called(next)
    <3>1. PICK k : k = a + i
      OBVIOUS
    <3>2. k \in 1..(a + b) /\ ~(k <= a) /\ k - a = i
      BY <1>18, <3>1
    <3>3. k \in DOMAIN next /\ next[k] = rest[i]
      BY <1>19, <1>20, <3>2
    <3> QED
      BY <3>3 DEF Called
  <2> QED
    BY <1>20, <2>1, <2>2 DEF Called
<1>26. Visited(long) = Visited(order) \cup {call.pid}
  <2>1. \A i \in 1..(m + 1) : i \in 1..m \/ i = m + 1
    BY <1>15
  <2>2. \A i \in 1..m : i \in 1..(m + 1)
    BY <1>15
  <2>3. m + 1 \in 1..(m + 1)
    BY <1>15
  <2> QED
    BY <1>15, <1>16, <1>17, <2>1, <2>2, <2>3 DEF Visited
<1>27. Reached(long, next)
  <2> SUFFICES ASSUME NEW p \in DOMAIN procs, p \in Roots \/ procs[p] \in Visited(long)
               PROVE  p \in Visited(long) \cup Called(next)
    BY DEF Reached
  <2>1. CASE p \in Roots \/ procs[p] \in Visited(order)
    <3>1. p \in Visited(order) \cup Called(calls)
      BY <1>2, <2>1 DEF Reached
    <3> QED
      BY <1>6, <1>25, <1>26, <3>1
  <2>2. CASE procs[p] = call.pid
    <3>1. p = call.pid \/ p \in C
      BY <1>7, <2>2 DEF Children
    <3> QED
      BY <1>11, <1>25, <1>26, <3>1
  <2> QED
    BY <1>26, <2>1, <2>2
<1>28. after \in [calls : Seq(Node), order : Seq(Node)]
  BY <1>13, <1>16, <1>19
<1>29. WalkOK(after)
  BY <1>14, <1>22, <1>23, <1>24, <1>27, <1>28 DEF WalkOK
<1>30. Len(next) < Len(calls) + Cardinality(DOMAIN procs)
  <2>1. Cardinality(DOMAIN procs) \in Nat
    BY FS_CardinalityType DEF Finite
  <2> QED
    BY <1>6, <1>11, <1>18, <1>19, <2>1
<1> QED
  BY <1>1, <1>4, <1>14, <1>15, <1>16, <1>29, <1>30

LEMMA DfsKeeps ==
  ASSUME Finite, NEW walk, WalkOK(walk)
  PROVE  WalkOK(Dfs(walk))
<1>1. CASE walk.calls = <<>>
  BY <1>1 DEF Dfs
<1>2. CASE walk.calls # <<>>
  BY <1>2, DfsReturns, DfsAppends
<1> QED
  BY <1>1, <1>2

\* What may be called yet: each process that is not visited may call all others.
Ahead(walk) ==
  LET n == Cardinality(DOMAIN procs)
  IN  Len(walk.calls) + n * (n - Len(walk.order))

LEMMA DfsAdvances ==
  ASSUME Finite, NEW walk, WalkOK(walk), walk.calls # <<>>
  PROVE  /\ Ahead(walk) \in Nat /\ Ahead(Dfs(walk)) \in Nat
         /\ Ahead(Dfs(walk)) < Ahead(walk)
<1>1. PICK n : n = Cardinality(DOMAIN procs)
  OBVIOUS
<1>2. WalkOK(Dfs(walk))
  BY DfsKeeps
<1>3. ASSUME NEW w, WalkOK(w)
      PROVE  /\ n \in Nat /\ Len(w.calls) \in Nat
             /\ Len(w.order) \in Nat /\ Len(w.order) <= n
             /\ Ahead(w) = Len(w.calls) + n * (n - Len(w.order)) /\ Ahead(w) \in Nat
  <2>1. w.order \in Seq(Node) /\ w.calls \in Seq(Node) /\ OnceEach(w.order)
    BY <1>3 DEF WalkOK
  <2>2. PICK c, m : c = Len(w.calls) /\ m = Len(w.order)
    OBVIOUS
  <2>3. n \in Nat /\ c \in Nat /\ m \in Nat /\ m <= n
    BY <1>1, <2>1, <2>2, VisitedAre, LenProperties
  <2>4. n - m \in Nat
    BY <2>3
  <2>5. n * (n - m) \in Nat
    BY <2>3, <2>4
  <2>6. Ahead(w) = c + n * (n - m)
    BY <1>1, <2>2 DEF Ahead
  <2>7. PICK x \in Nat : x = n * (n - m)
    BY <2>5
  <2>8. c + x \in Nat
    BY <2>3
  <2>9. Ahead(w) \in Nat
    BY <2>6, <2>7, <2>8
  <2> QED
    BY <2>2, <2>3, <2>6, <2>9
<1>4. PICK c, m, d, l : /\ c = Len(walk.calls) /\ m = Len(walk.order)
                        /\ d = Len(Dfs(walk).calls) /\ l = Len(Dfs(walk).order)
  OBVIOUS
<1>5. /\ n \in Nat /\ c \in Nat /\ m \in Nat /\ d \in Nat /\ l \in Nat /\ m <= n /\ l <= n
      /\ Ahead(walk) = c + n * (n - m) /\ Ahead(walk) \in Nat
      /\ Ahead(Dfs(walk)) = d + n * (n - l) /\ Ahead(Dfs(walk)) \in Nat
  BY <1>2, <1>3, <1>4
<1>6. CASE Head(walk.calls).pid \in Visited(walk.order)
  <2>1. l = m /\ d = c - 1
    BY <1>4, <1>6, DfsReturns
  <2> QED
    BY <1>5, <2>1
<1>7. CASE Head(walk.calls).pid \notin Visited(walk.order)
  <2>1. l = m + 1 /\ d < c + n
    BY <1>1, <1>4, <1>7, DfsAppends
  <2>2. n * (n - m) = n * (n - l) + n
    BY <1>5, <2>1
  <2>3. PICK x, y : x = n * (n - m) /\ y = n * (n - l)
    OBVIOUS
  <2>4. x \in Int /\ y \in Int /\ x = y + n
    BY <1>5, <2>2, <2>3
  <2>5. d + y < c + x
    BY <1>5, <2>1, <2>4
  <2> QED
    BY <1>5, <2>3, <2>5
<1> QED
  BY <1>5, <1>6, <1>7

\* At first the roots are called.
Start == [calls |-> Calls(Roots, 0), order |-> <<>>]

LEMMA StartOK ==
  ASSUME Finite
  PROVE  WalkOK(Start) /\ Ahead(Start) \in Nat /\ Ahead(Start) <= MostCalls /\ MostCalls \in Nat
<1>1. PICK n : n = Cardinality(DOMAIN procs)
  OBVIOUS
<1>2. n \in Nat
  BY <1>1, FS_CardinalityType DEF Finite
<1>3. PICK c : c = Calls(Roots, 0)
  OBVIOUS
<1>4. Roots \in SUBSET DOMAIN procs
  BY DEF Roots
<1>5. /\ c \in Seq(Node) /\ Len(c) \in Nat /\ Len(c) <= n
      /\ \A i \in DOMAIN c : c[i].pid \in Roots /\ c[i].depth = 0
      /\ Called(c) = Roots
  BY <1>1, <1>3, <1>4, CallsAre
<1>6. PICK w : w = Start
  OBVIOUS
<1>7. w = [calls |-> c, order |-> <<>>] /\ w.calls = c /\ w.order = <<>>
  BY <1>3, <1>6 DEF Start
<1>8. <<>> \in Seq(Node) /\ Len(<<>>) = 0 /\ DOMAIN <<>> = {}
  BY EmptySeq
<1>9. OnceEach(<<>>) /\ BelowParents(<<>>) /\ Visited(<<>>) = {}
  BY <1>8 DEF OnceEach, BelowParents, Visited
<1>10. Reached(<<>>, c)
  BY <1>5, <1>9 DEF Reached
<1>11. WalkOK(w)
  BY <1>5, <1>7, <1>8, <1>9, <1>10 DEF WalkOK
<1>12. Ahead(w) = Len(c) + n * (n - 0) /\ MostCalls = n * (n + 1)
  BY <1>1, <1>7, <1>8 DEF Ahead, MostCalls
<1>13. PICK q : q = n * n
  OBVIOUS
<1>14. q \in Nat /\ n * (n - 0) = q /\ n * (n + 1) = q + n
  BY <1>2, <1>13
<1> QED
  BY <1>2, <1>5, <1>6, <1>11, <1>12, <1>14

-----------------------------------------------------------------------------
\* The members of a nonempty set of numbers have a least one.
LEMMA Least ==
  ASSUME NEW T \in SUBSET Nat, T # {}
  PROVE  \E m \in T : \A n \in T : m <= n
<1>1. PICK m \in T : \A n \in T : <<n, m>> \notin OpToRel(<, Nat)
  BY NatLessThanWellFounded, WFMin
<1>2. ASSUME NEW n \in T PROVE m <= n
  <2>1. m \in Nat /\ n \in Nat
    OBVIOUS
  <2>2. ~(n < m)
    BY <1>1, <2>1 DEF OpToRel
  <2> QED
    BY <2>1, <2>2
<1> QED
  BY <1>2

\* The function f makes m calls.
Walks(f, m) == f = [k \in 0..m |-> IF k = 0 THEN Start ELSE Dfs(f[k - 1])]

\* A walk can be of any length: the shortest one there is none of would be a call
\* longer than one there is.
LEMMA WalkExists ==
  ASSUME NEW n \in Nat
  PROVE  \E f : Walks(f, n)
<1> SUFFICES ASSUME ~\E f : Walks(f, n) PROVE FALSE
  OBVIOUS
<1>1. PICK T : T = {m \in Nat : ~\E f : Walks(f, m)}
  OBVIOUS
<1>2. PICK m \in T : \A k \in T : m <= k
  <2>1. T \in SUBSET Nat /\ T # {}
    BY <1>1
  <2> QED
    BY <2>1, Least
<1>3. m \in Nat /\ ~\E f : Walks(f, m)
  BY <1>1
<1>4. CASE m = 0
  <2>1. PICK f : f = [k \in 0..0 |-> Start]
    OBVIOUS
  <2>2. \A k \in 0..0 : k = 0
    OBVIOUS
  <2>3. f = [k \in 0..0 |-> IF k = 0 THEN Start ELSE Dfs(f[k - 1])]
    BY <2>1, <2>2
  <2> QED
    BY <1>3, <1>4, <2>3 DEF Walks
<1>5. CASE m # 0
  <2>1. PICK l \in Nat : m = l + 1
    <3>1. m - 1 \in Nat /\ m = (m - 1) + 1
      BY <1>3, <1>5
    <3> QED
      BY <3>1
  <2>2. l \notin T
    BY <1>2, <1>3, <2>1
  <2>3. PICK g : Walks(g, l)
    BY <1>1, <2>2
  <2>4. PICK f : f = [k \in 0..m |-> IF k = m THEN Dfs(g[l]) ELSE g[k]]
    OBVIOUS
  <2>5. ASSUME NEW k \in 0..m
        PROVE  f[k] = IF k = 0 THEN Start ELSE Dfs(f[k - 1])
    <3>1. CASE k = m
      <4>1. k # 0 /\ k - 1 = l /\ l \in 0..m /\ l # m
        BY <1>3, <1>5, <2>1, <3>1
      <4>2. f[k] = Dfs(g[l]) /\ f[l] = g[l]
        BY <2>4, <3>1, <4>1
      <4> QED
        BY <4>1, <4>2
    <3>2. CASE k # m
      <4>1. k \in 0..l
        BY <1>3, <2>1, <3>2
      <4>2. f[k] = g[k] /\ g[k] = IF k = 0 THEN Start ELSE Dfs(g[k - 1])
        BY <2>3, <2>4, <3>2, <4>1 DEF Walks
      <4>3. CASE k # 0
        <5>1. k - 1 \in 0..m /\ k - 1 # m
          BY <2>1, <4>1, <4>3
        <5>2. f[k - 1] = g[k - 1]
          BY <2>4, <5>1
        <5> QED
          BY <4>2, <4>3, <5>2
      <4> QED
        BY <4>2, <4>3
    <3> QED
      BY <3>1, <3>2
  <2>6. Walks(f, m)
    <3>1. f = [k \in 0..m |-> f[k]]
      BY <2>4
    <3> QED
      BY <2>5, <3>1 DEF Walks
  <2> QED
    BY <1>3, <2>6
<1> QED
  BY <1>4, <1>5

LEMMA WalkIs ==
  ASSUME Finite
  PROVE  /\ Walk[0] = Start
         /\ \A k \in 1..MostCalls : Walk[k] = Dfs(Walk[k - 1])
<1>1. MostCalls \in Nat
  BY StartOK
<1>2. PICK n \in Nat : n = MostCalls
  BY <1>1
<1>3. Walk = CHOOSE f : Walks(f, n)
  BY <1>2 DEF Walk, Walks, Start
<1>4. Walks(Walk, n)
  BY <1>3, WalkExists
<1>5. ASSUME NEW k \in 0..n PROVE Walk[k] = IF k = 0 THEN Start ELSE Dfs(Walk[k - 1])
  BY <1>4 DEF Walks
<1>6. 0 \in 0..n /\ \A k \in 1..n : k \in 0..n /\ k # 0
  BY <1>2
<1> QED
  BY <1>2, <1>5, <1>6

\* After k calls there is no other one, or k fewer that can come.
LEMMA WalkHolds ==
  ASSUME Finite
  PROVE  \A k \in 0..MostCalls :
           /\ WalkOK(Walk[k])
           /\ Walk[k].calls = <<>> \/ Ahead(Walk[k]) + k <= MostCalls
<1>1. PICK n \in Nat : n = MostCalls
  BY StartOK
<1> DEFINE Right(k) == /\ WalkOK(Walk[k])
                       /\ Walk[k].calls = <<>> \/ Ahead(Walk[k]) + k <= n
<1>2. Right(0)
  <2>1. Walk[0] = Start
    BY WalkIs
  <2> QED
    BY <1>1, <2>1, StartOK
<1>3. ASSUME NEW l \in Nat, l + 1 \in 1..n, Right(l) PROVE Right(l + 1)
  <2>1. PICK w : w = Walk[l]
    OBVIOUS
  <2>2. WalkOK(w) /\ (w.calls = <<>> \/ Ahead(w) + l <= n)
    BY <1>3, <2>1
  <2>3. Walk[l + 1] = Dfs(w)
    <3>1. (l + 1) - 1 = l
      OBVIOUS
    <3> QED
      BY <1>1, <1>3, <2>1, <3>1, WalkIs
  <2>4. WalkOK(Dfs(w))
    BY <2>2, DfsKeeps
  <2>5. CASE w.calls = <<>>
    <3>1. Dfs(w) = w
      BY <2>5 DEF Dfs
    <3> QED
      BY <2>3, <2>4, <2>5, <3>1
  <2>6. CASE w.calls # <<>>
    <3>1. PICK a \in Nat, b \in Nat : a = Ahead(w) /\ b = Ahead(Dfs(w)) /\ b < a
      BY <2>2, <2>6, DfsAdvances
    <3>2. b + (l + 1) <= n
      BY <2>2, <2>6, <3>1
    <3> QED
      BY <2>3, <2>4, <3>1, <3>2
  <2> QED
    BY <2>5, <2>6
<1> HIDE DEF Right
<1>4. ASSUME NEW k \in 0..n, ~Right(k) PROVE FALSE
  <2>1. PICK T : T = {i \in 0..n : ~Right(i)}
    OBVIOUS
  <2>2. PICK m \in T : \A i \in T : m <= i
    <3>1. T \in SUBSET Nat /\ T # {}
      BY <1>4, <2>1
    <3> QED
      BY <3>1, Least
  <2>3. m \in 0..n /\ ~Right(m)
    BY <2>1
  <2>4. m # 0
    BY <1>2, <2>3
  <2>5. PICK l \in Nat : m = l + 1
    <3>1. m - 1 \in Nat /\ m = (m - 1) + 1
      BY <2>3, <2>4
    <3> QED
      BY <3>1
  <2>6. l \in 0..n /\ ~(m <= l) /\ l + 1 \in 1..n
    BY <1>1, <2>3, <2>5
  <2>7. Right(l)
    BY <2>1, <2>2, <2>6
  <2> QED
    BY <1>3, <2>3, <2>5, <2>6, <2>7
<1> QED
  BY <1>1, <1>4 DEF Right

\* At the end there is no call left.  What the tree does not show then has a parent
\* that it does not show.
LEMMA TreeIs ==
  ASSUME Finite
  PROVE  TreeShowsAll
<1>1. PICK n \in Nat : n = MostCalls
  BY StartOK
<1>2. PICK w : w = Walk[n]
  OBVIOUS
<1>3. WalkOK(w) /\ (w.calls = <<>> \/ Ahead(w) + n <= n)
  <2>1. n \in 0..n
    OBVIOUS
  <2> QED
    BY <1>1, <1>2, <2>1, WalkHolds
<1>4. w.calls = <<>>
  <2> SUFFICES ASSUME w.calls # <<>> PROVE FALSE
    OBVIOUS
  <2>1. PICK a \in Nat, b \in Nat : a = Ahead(w) /\ b < a
    BY <1>3, DfsAdvances
  <2> QED
    BY <1>3, <2>1
<1>5. PICK tree : tree = w.order
  OBVIOUS
<1>6. tree = process_tree_rows
  BY <1>1, <1>2, <1>5 DEF process_tree_rows
<1>7. OnceEach(tree) /\ BelowParents(tree) /\ Reached(tree, <<>>)
  BY <1>3, <1>4, <1>5 DEF WalkOK
<1>8. PICK H : H = DOMAIN procs \ Visited(tree)
  OBVIOUS
<1>9. ASSUME NEW p \in H PROVE procs[p] \in H \ {0}
  <2>1. Called(<<>>) = {}
    BY DEF Called
  <2>2. p \in DOMAIN procs /\ p \notin Roots /\ procs[p] \notin Visited(tree)
    BY <1>7, <1>8, <2>1 DEF Reached
  <2> QED
    BY <1>8, <2>2 DEF Roots
<1>10. H \subseteq Circling
  <2>1. H \in SUBSET DOMAIN procs
    BY <1>8
  <2> QED
    BY <1>9, <2>1 DEF Circling
<1>11. DOMAIN procs \ Circling \subseteq {tree[i].pid : i \in DOMAIN tree}
  BY <1>8, <1>10 DEF Visited
<1> QED
  BY <1>6, <1>7, <1>11 DEF TreeShowsAll, OnceEach, BelowParents, Under

\* Each event adds one process at most.
LEMMA StepFinite ==
  ASSUME TypeOK, TypeOK', IsFiniteSet(DOMAIN procs), [Next]_vars
  PROVE  IsFiniteSet(DOMAIN procs')
<1>1. CASE \E e \in session.events : TakeEvent(e)
  <2>1. PICK e : PushEvent(e)
    BY <1>1 DEF TakeEvent
  <2>2. PICK D : D = DOMAIN procs
    OBVIOUS
  <2>3. DOMAIN procs' = D \/ DOMAIN procs' = D \cup {e.pid}
    BY <2>1, <2>2 DEF PushEvent
  <2>4. IsFiniteSet(D \cup {e.pid})
    BY <2>2, FS_AddElement
  <2> QED
    BY <2>2, <2>3, <2>4
<1>2. CASE ~\E e \in session.events : TakeEvent(e)
  <2>1. procs' = procs
    BY <1>2, Steps, KeysKeepRows DEF TypeOK, Frame, Quiet, dataVars
  <2> QED
    BY <2>1
<1> QED
  BY <1>1, <1>2

\* Whatever processes name which parents, in whatever order their events come, the
\* tree shows every process but those whose ancestors run in a circle, each of them
\* once and below its parent (process_tree_rows).
THEOREM TreeIsComplete == Spec => []TreeShowsAll
<1>1. Init => IsFiniteSet(DOMAIN procs)
  <2>1. DOMAIN <<>> = {}
    OBVIOUS
  <2> QED
    BY <2>1, FS_EmptySet DEF Init
<1>2. TypeOK /\ TypeOK' /\ IsFiniteSet(DOMAIN procs) /\ [Next]_vars
      => IsFiniteSet(DOMAIN procs)'
  BY StepFinite
<1>3. TypeOK /\ IsFiniteSet(DOMAIN procs) => TreeShowsAll
  <2> SUFFICES ASSUME TypeOK, IsFiniteSet(DOMAIN procs) PROVE Finite
    BY TreeIs
  <2>1. DOMAIN procs \subseteq Pid /\ \A p \in DOMAIN procs : procs[p] \in Pid \cup {0}
    BY DEF TypeOK, DataTypes
  <2>2. Pid \subseteq Nat /\ 0 \in Nat
    BY TuiAssumption
  <2> QED
    BY <2>1, <2>2 DEF Finite
<1> QED
  BY <1>1, <1>2, <1>3, TypeCorrect, PTL DEF Spec

=============================================================================
