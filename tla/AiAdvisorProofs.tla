--------------------------- MODULE AiAdvisorProofs ---------------------------
(***************************************************************************)
(* Proofs about AiAdvisor, for any number of patterns, configurations,     *)
(* incidents and reloads, and any thresholds, windows and cooldowns: the   *)
(* counts match the window, and the provider is asked about a pattern when *)
(* it repeats and at no other time.                                        *)
(***************************************************************************)
EXTENDS AiAdvisor, FiniteSetTheorems, SequenceTheorems, WellFoundedInduction, TLAPS

-----------------------------------------------------------------------------
(***************************************************************************)
(* Sets of positions                                                       *)
(***************************************************************************)
Shifted(A, d) == {i + d : i \in A}

LEMMA ShiftedCardinality ==
  ASSUME NEW A, A \subseteq Int, IsFiniteSet(A), NEW d \in Int
  PROVE  IsFiniteSet(Shifted(A, d)) /\ Cardinality(Shifted(A, d)) = Cardinality(A)
<1> DEFINE f == [i \in A |-> i + d]
<1>1. f \in Bijection(A, Shifted(A, d))
  BY DEF Bijection, Injection, IsInjective, Surjection, Shifted
<1>2. ExistsBijection(A, Shifted(A, d))
  BY <1>1 DEF ExistsBijection
<1> QED
  BY <1>2, FS_Bijection

\* A set of positions that has with each position all that come before is an
\* interval.
LEMMA DownwardClosed ==
  ASSUME NEW n \in Nat, NEW A \in SUBSET (1..n), \A i \in A : 1..i \subseteq A
  PROVE  Cardinality(A) \in 0..n /\ A = 1..Cardinality(A)
<1>1. IsFiniteSet(1..n) /\ Cardinality(1..n) = n
  BY FS_Interval
<1>2. IsFiniteSet(A) /\ Cardinality(A) \in Nat /\ Cardinality(A) <= n
  <2>1. IsFiniteSet(A) /\ Cardinality(A) <= Cardinality(1..n)
    BY <1>1, FS_Subset
  <2> QED
    BY <1>1, <2>1, FS_CardinalityType
<1>3. PICK p \in 0..n : p = Cardinality(A)
  BY <1>2
<1>4. \A m \in Nat : IsFiniteSet(1..m) /\ Cardinality(1..m) = m
  BY FS_Interval
<1>5. ASSUME NEW m \in 1..n, m \notin A PROVE p <= m - 1
  <2>1. A \subseteq 1..(m - 1)
    <3> SUFFICES ASSUME NEW i \in A, i >= m PROVE FALSE
      OBVIOUS
    <3>1. m \in 1..i
      OBVIOUS
    <3> QED
      BY <1>5, <3>1
  <2>2. m - 1 \in Nat
    OBVIOUS
  <2>3. IsFiniteSet(1..(m - 1)) /\ Cardinality(1..(m - 1)) = m - 1
    BY <1>4, <2>2
  <2>4. Cardinality(A) <= Cardinality(1..(m - 1))
    BY <2>1, <2>3, FS_Subset
  <2> QED
    BY <1>3, <2>3, <2>4
<1>6. ASSUME NEW m \in A PROVE m <= p
  <2>1. 1..m \subseteq A /\ m \in Nat
    OBVIOUS
  <2>2. Cardinality(1..m) <= Cardinality(A)
    BY <1>2, <2>1, FS_Subset
  <2> QED
    BY <1>3, <1>4, <2>1, <2>2
<1>7. \A i \in 1..n : i \in A <=> i <= p
  <2>1. \A i \in 1..n : i \in A \/ p <= i - 1
    BY <1>5
  <2>2. \A i \in A : i <= p /\ i \in 1..n
    BY <1>6
  <2> QED
    BY <1>3, <2>1, <2>2
<1>8. \A i : i \in A <=> i \in 1..p
  <2>1. ASSUME NEW i \in A PROVE i \in 1..p
    BY <1>3, <1>7
  <2>2. ASSUME NEW i \in 1..p PROVE i \in A
    BY <1>3, <1>7
  <2> QED
    BY <2>1, <2>2
<1> QED
  BY <1>3, <1>8

LEMMA OccurrencesFinite ==
  ASSUME NEW S, NEW s \in Seq(S), NEW k
  PROVE  /\ IsFiniteSet(Occurrences(s, k)) /\ Occurrences(s, k) \subseteq Int
         /\ Cardinality(Occurrences(s, k)) \in Nat
<1>1. IsFiniteSet(1..Len(s)) /\ Occurrences(s, k) \subseteq 1..Len(s)
  BY FS_Interval DEF Occurrences
<1> QED
  BY <1>1, FS_Subset, FS_CardinalityType

\* Without its first p elements.
LEMMA OccurrencesDropped ==
  ASSUME NEW S, NEW s \in Seq(S), NEW p \in 0..Len(s), NEW t \in Seq(S), NEW k,
         Len(t) = Len(s) - p, \A i \in 1..Len(t) : t[i] = s[p + i]
  PROVE  /\ Cardinality({i \in 1..p : s[i].key = k}) \in Nat
         /\ Cardinality(Occurrences(t, k))
              = Cardinality(Occurrences(s, k)) - Cardinality({i \in 1..p : s[i].key = k})
<1> DEFINE A == {i \in 1..p : s[i].key = k}
           B == Shifted(Occurrences(t, k), p)
<1>1. IsFiniteSet(A) /\ Cardinality(A) \in Nat
  <2>1. IsFiniteSet(1..p) /\ A \subseteq 1..p
    BY FS_Interval
  <2> QED
    BY <2>1, FS_Subset, FS_CardinalityType
<1>2. IsFiniteSet(B) /\ Cardinality(B) = Cardinality(Occurrences(t, k)) /\ Cardinality(B) \in Nat
  BY OccurrencesFinite, ShiftedCardinality
<1>3. A \cap B = {}
  BY DEF Shifted, Occurrences
<1>4. A \cup B = Occurrences(s, k)
  <2>1. ASSUME NEW i \in Occurrences(s, k) PROVE i \in A \cup B
    <3>1. CASE i > p
      <4>1. i - p \in 1..Len(t) /\ i = (i - p) + p /\ i = p + (i - p)
        BY <3>1 DEF Occurrences
      <4>2. i - p \in Occurrences(t, k)
        BY <4>1 DEF Occurrences
      <4> QED
        BY <4>1, <4>2 DEF Shifted
    <3> QED
      BY <3>1 DEF Occurrences
  <2>2. A \cup B \subseteq Occurrences(s, k)
    BY DEF Shifted, Occurrences
  <2> QED
    BY <2>1, <2>2
<1> HIDE DEF A, B
<1>5. Cardinality(A \cap B) = 0
  BY <1>3, FS_EmptySet
<1>6. Cardinality(A \cup B) = Cardinality(A) + Cardinality(B) - Cardinality(A \cap B)
  BY <1>1, <1>2, FS_Union
<1>7. Cardinality(Occurrences(s, k)) = Cardinality(A) + Cardinality(Occurrences(t, k))
  <2>1. PICK a \in Nat, b \in Nat : a = Cardinality(A) /\ b = Cardinality(B)
    BY <1>1, <1>2
  <2>2. Cardinality(A \cup B) = a + b - 0
    BY <1>5, <1>6, <2>1
  <2>3. a + b - 0 = a + b
    OBVIOUS
  <2>4. Cardinality(Occurrences(t, k)) = b
    BY <1>2, <2>1
  <2> QED
    BY <1>4, <2>1, <2>2, <2>3, <2>4, Zenon
<1>8. Cardinality(Occurrences(t, k)) \in Nat
  BY OccurrencesFinite
<1> QED
  BY <1>1, <1>7, <1>8 DEF A

LEMMA OccurrencesAppended ==
  ASSUME NEW S, NEW s \in Seq(S), NEW e \in S, NEW k
  PROVE  Cardinality(Occurrences(Append(s, e), k))
           = Cardinality(Occurrences(s, k)) + (IF e.key = k THEN 1 ELSE 0)
<1>1. \A i \in DOMAIN Append(s, e) : \/ i \in DOMAIN s /\ Append(s, e)[i] = s[i]
                                     \/ i = Len(s) + 1 /\ Append(s, e)[i] = e
  OBVIOUS
<1>2. DOMAIN Append(s, e) = DOMAIN s \cup {Len(s) + 1} /\ Len(s) + 1 \notin DOMAIN s
  OBVIOUS
<1>3. Occurrences(Append(s, e), k)
        = Occurrences(s, k) \cup (IF e.key = k THEN {Len(s) + 1} ELSE {})
  BY <1>1, <1>2 DEF Occurrences
<1>4. Len(s) + 1 \notin Occurrences(s, k)
  BY <1>2 DEF Occurrences
<1>5. IsFiniteSet(Occurrences(s, k)) /\ Cardinality(Occurrences(s, k)) \in Nat
  BY OccurrencesFinite
<1>6. Cardinality(Occurrences(s, k) \cup {Len(s) + 1}) = Cardinality(Occurrences(s, k)) + 1
  BY <1>4, <1>5, FS_AddElement
<1>7. CASE e.key = k
  BY <1>3, <1>6, <1>7
<1>8. CASE e.key # k
  BY <1>3, <1>5, <1>8
<1> QED
  BY <1>7, <1>8

-----------------------------------------------------------------------------
(***************************************************************************)
(* The invariant.  The window is the end of what was analyzed, in the      *)
(* order of time.  What has been dropped from it since the last reload is  *)
(* expired, and stays so because the clock only goes forward.              *)
(***************************************************************************)
Latest ==
  /\ Len(window) <= Len(seen)
  /\ \A i \in DOMAIN window : window[i] = seen[Len(seen) - Len(window) + i]

InTime ==
  /\ \A i, j \in DOMAIN seen : i <= j => seen[i].at <= seen[j].at
  /\ \A i \in DOMAIN seen : seen[i].at <= clock

Dropped == \A i \in (since + 1)..(Len(seen) - Len(window)) : clock - seen[i].at > cfg.window_secs

Counting ==
  \A k \in PatternKey :
    Cardinality(Occurrences(window, k)) = IF k \in DOMAIN counts THEN counts[k] ELSE 0

WindowInv == TypeOK /\ Latest /\ InTime /\ Dropped /\ Counting

LEMMA InitWindow == Init => WindowInv
<1> SUFFICES ASSUME Init PROVE WindowInv
  OBVIOUS
<1>1. TypeOK
  BY DEF Init, TypeOK, Incident
<1>2. \A k : Occurrences(window, k) = {}
  BY DEF Init, Occurrences
<1>3. Counting
  <2>1. \A k : Cardinality(Occurrences(window, k)) = 0
    BY <1>2, FS_EmptySet
  <2>2. DOMAIN counts = {}
    BY DEF Init
  <2> QED
    BY <2>1, <2>2 DEF Counting
<1> QED
  BY <1>1, <1>3 DEF Init, WindowInv, Latest, InTime, Dropped

\* What is popped, and what is kept.
LEMMA KeptIs ==
  ASSUME WindowInv
  PROVE  \E p \in 0..Len(window), w \in Seq(Incident) :
           /\ Popped = 1..p /\ w = Kept /\ Len(w) = Len(window) - p
           /\ \A i \in 1..Len(w) : w[i] = window[p + i] /\ ~Expired(w[i])
           /\ \A i \in 1..p : Expired(window[i])
<1> USE DEF WindowInv
<1>1. window \in Seq(Incident) /\ Len(window) \in Nat
  BY DEF TypeOK
<1>2. PICK p \in 0..Len(window) : p = Cardinality(Popped) /\ Popped = 1..p
  <2>1. Popped \in SUBSET (1..Len(window)) /\ \A i \in Popped : 1..i \subseteq Popped
    BY <1>1 DEF Popped
  <2> QED
    BY <1>1, <2>1, DownwardClosed
<1>3. PICK w \in Seq(Incident) :
             /\ w = SubSeq(window, p + 1, Len(window)) /\ Len(w) = Len(window) - p
             /\ \A i \in 1..Len(w) : w[i] = window[p + i]
  <2>1. /\ p + 1 \in Int /\ Len(window) \in Int
        /\ \A i \in (p + 1)..Len(window) : window[i] \in Incident
    BY <1>1
  <2>2. /\ SubSeq(window, p + 1, Len(window)) \in Seq(Incident)
        /\ Len(SubSeq(window, p + 1, Len(window)))
             = IF p + 1 <= Len(window) THEN Len(window) - (p + 1) + 1 ELSE 0
        /\ \A i \in 1..(Len(window) - (p + 1) + 1) :
             SubSeq(window, p + 1, Len(window))[i] = window[p + 1 + i - 1]
    BY <2>1, SubSeqProperties
  <2>3. PICK w \in Seq(Incident) : w = SubSeq(window, p + 1, Len(window))
    BY <2>2
  <2>4. Len(w) = Len(window) - p
    BY <1>1, <2>2, <2>3
  <2>5. \A i \in 1..Len(w) : w[i] = window[p + i]
    BY <1>1, <2>1, <2>2, <2>3, <2>4
  <2> QED
    BY <2>3, <2>4, <2>5
<1>4. w = Kept
  BY <1>2, <1>3 DEF Kept
<1>5. \A i \in 1..p : Expired(window[i])
  <2>1. \A i \in Popped : Expired(window[i])
    BY <1>1 DEF Popped
  <2> QED
    BY <1>2, <2>1
<1>6. clock \in Nat /\ cfg.window_secs \in Nat
  BY AiAdvisorAssumption DEF TypeOK, AiAdvisorConfig
<1>7. ASSUME NEW i \in 1..Len(w) PROVE ~Expired(w[i])
  <2>1. p + 1 \in 1..Len(window) /\ p + i \in 1..Len(window) /\ p + 1 <= p + i
    BY <1>1, <1>3
  <2>2. ~Expired(window[p + 1])
    <3>1. p + 1 \notin Popped
      <4>1. p + 1 \notin 1..p
        OBVIOUS
      <4> QED
        BY <1>2, <4>1
    <3>2. PICK j \in 1..(p + 1) : ~Expired(window[j])
      BY <1>1, <2>1, <3>1 DEF Popped
    <3> QED
      BY <1>5, <3>2
  <2>3. window[p + 1].at <= window[p + i].at
    <3>1. PICK n \in Nat, m \in Nat : n = Len(window) /\ m = Len(seen) /\ n <= m
      BY <1>1 DEF Latest, TypeOK
    <3>2. window[p + 1] = seen[m - n + (p + 1)] /\ window[p + i] = seen[m - n + (p + i)]
      <4>1. p + 1 \in DOMAIN window /\ p + i \in DOMAIN window
        BY <1>1, <2>1
      <4>2. window[p + 1] = seen[Len(seen) - Len(window) + (p + 1)]
        BY <4>1 DEF Latest
      <4>3. window[p + i] = seen[Len(seen) - Len(window) + (p + i)]
        BY <4>1 DEF Latest
      <4> QED
        BY <3>1, <4>2, <4>3
    <3>3. m - n + (p + 1) \in 1..m /\ m - n + (p + i) \in 1..m /\ m - n + (p + 1) <= m - n + (p + i)
      BY <2>1, <3>1
    <3>4. DOMAIN seen = 1..m
      BY <3>1 DEF TypeOK
    <3> QED
      BY <3>2, <3>3, <3>4 DEF InTime
  <2>4. window[p + 1] \in Incident /\ window[p + i] \in Incident
    BY <1>1, <2>1
  <2>5. window[p + 1].at \in Nat /\ window[p + i].at \in Nat
    BY <2>4 DEF Incident
  <2>6. ~Expired(window[p + i])
    <3>1. PICK x \in Nat, y \in Nat : x = window[p + 1].at /\ y = window[p + i].at
      BY <2>5
    <3>2. x <= y /\ clock - x <= cfg.window_secs
      BY <1>6, <2>2, <2>3, <3>1 DEF Expired
    <3>3. ~(clock - y > cfg.window_secs)
      BY <1>6, <3>2
    <3> QED
      BY <3>1, <3>3 DEF Expired
  <2> QED
    BY <1>3, <2>6
<1> QED
  BY <1>2, <1>3, <1>4, <1>5, <1>7

LEMMA RemainingIs ==
  ASSUME WindowInv, NEW p \in 0..Len(window), NEW w \in Seq(Incident), Popped = 1..p,
         Len(w) = Len(window) - p, \A i \in 1..Len(w) : w[i] = window[p + i],
         NEW x \in PatternKey
  PROVE  Remaining(x) = Cardinality(Occurrences(w, x)) /\ Remaining(x) \in Nat
<1>1. PICK n : n = Cardinality({i \in Popped : window[i].key = x})
  OBVIOUS
<1>2. PICK c : c = IF x \in DOMAIN counts THEN counts[x] ELSE 0
  OBVIOUS
<1>3. c = Cardinality(Occurrences(window, x))
  BY <1>2 DEF WindowInv, Counting
<1>4. n \in Nat /\ Cardinality(Occurrences(w, x)) = c - n
  <2>1. window \in Seq(Incident)
    BY DEF WindowInv, TypeOK
  <2>2. n = Cardinality({i \in 1..p : window[i].key = x})
    BY <1>1
  <2> QED
    BY <1>3, <2>1, <2>2, OccurrencesDropped
<1>5. Cardinality(Occurrences(w, x)) \in Nat /\ c \in Nat
  BY <1>3, OccurrencesFinite DEF WindowInv, TypeOK
<1>6. Remaining(x) = IF n < c THEN c - n ELSE 0
  BY <1>1, <1>2 DEF Remaining
<1> QED
  BY <1>4, <1>5, <1>6

LEMMA TrackKeeps ==
  ASSUME WindowInv, NEW k \in PatternKey, Track(k), UNCHANGED <<clock, cfg, since>>
  PROVE  /\ Latest' /\ InTime' /\ Dropped' /\ Counting'
         /\ window' \in Seq(Incident) /\ seen' \in Seq(Incident) /\ window' # <<>>
         /\ \A i \in DOMAIN window' : ~Expired(window'[i])
         /\ Len(seen') = Len(seen) + 1 /\ Last(seen') = [at |-> clock, key |-> k]
         /\ Last(window') = Last(seen')
         /\ DOMAIN counts' \subseteq PatternKey
         /\ \A x \in DOMAIN counts' : counts'[x] \in Nat \ {0}
         /\ k \in DOMAIN counts'
<1> USE DEF WindowInv
<1>1. PICK p \in 0..Len(window), w \in Seq(Incident) :
             /\ Popped = 1..p /\ w = Kept /\ Len(w) = Len(window) - p
             /\ \A i \in 1..Len(w) : w[i] = window[p + i] /\ ~Expired(w[i])
             /\ \A i \in 1..p : Expired(window[i])
  BY KeptIs
<1>2. PICK e \in Incident : e = [at |-> clock, key |-> k]
  BY DEF Incident, TypeOK
<1>3. window' = Append(w, e) /\ seen' = Append(seen, e) /\ UNCHANGED <<clock, cfg, since>>
  BY <1>1, <1>2 DEF Track
<1>4. PICK n \in Nat, m \in Nat : n = Len(window) /\ m = Len(seen) /\ n <= m
  BY DEF TypeOK, Latest
<1>5. /\ window' \in Seq(Incident) /\ Len(window') = n - p + 1 /\ n - p \in Nat
      /\ \A i \in 1..(n - p) : window'[i] = w[i]
      /\ window'[n - p + 1] = e
  BY <1>1, <1>3, <1>4
<1>6. /\ seen \in Seq(Incident) /\ seen' \in Seq(Incident) /\ Len(seen') = m + 1
      /\ \A i \in 1..m : seen'[i] = seen[i]
      /\ seen'[m + 1] = e
  BY <1>3, <1>4 DEF TypeOK
<1>7. Last(window') = e /\ Last(seen') = e /\ window' # <<>>
  BY <1>5, <1>6 DEF Last
<1>8. Latest'
  <2>1. Len(window') <= Len(seen')
    BY <1>1, <1>4, <1>5, <1>6
  <2>2. ASSUME NEW i \in DOMAIN window' PROVE window'[i] = seen'[Len(seen') - Len(window') + i]
    <3>1. i \in Nat /\ 1 <= i /\ i <= n - p + 1
      BY <1>5
    <3>2. PICK j \in Nat : j = m - n + (p + i) /\ j = Len(seen') - Len(window') + i
      <4>1. m - n + (p + i) \in Nat
        BY <1>4, <3>1
      <4>2. Len(seen') - Len(window') + i = (m + 1) - (n - p + 1) + i
        BY <1>5, <1>6
      <4>3. (m + 1) - (n - p + 1) + i = m - n + (p + i)
        BY <1>4, <3>1
      <4> QED
        BY <4>1, <4>2, <4>3
    <3>3. CASE i <= n - p
      <4>1. i \in 1..(n - p) /\ p + i \in 1..n
        BY <1>1, <1>4, <3>1, <3>3
      <4>2. window'[i] = window[p + i]
        BY <1>1, <1>4, <1>5, <4>1
      <4>3. window[p + i] = seen[j]
        BY <1>4, <3>2, <4>1 DEF Latest
      <4>4. j \in 1..m
        BY <1>4, <3>2, <4>1
      <4> QED
        BY <1>6, <3>2, <4>2, <4>3, <4>4
    <3>4. CASE i = n - p + 1
      <4>1. j = (m - n) + (p + (n - p + 1))
        BY <3>2, <3>4
      <4>2. (m - n) + (p + (n - p + 1)) = m + 1
        BY <1>1, <1>4
      <4>3. j = m + 1
        BY <4>1, <4>2
      <4> QED
        BY <1>5, <1>6, <3>2, <3>4, <4>3
    <3> QED
      BY <3>1, <3>3, <3>4, <1>1, <1>4
  <2> QED
    BY <2>1, <2>2 DEF Latest
<1>9. InTime'
  <2>1. e.at = clock /\ DOMAIN seen = 1..m /\ DOMAIN seen' = 1..(m + 1) /\ clock \in Nat
    BY <1>2, <1>4, <1>6 DEF TypeOK
  <2> QED
    BY <1>3, <1>6, <2>1 DEF InTime
<1>10. Dropped'
  <2> SUFFICES ASSUME NEW i \in (since + 1)..(Len(seen') - Len(window'))
               PROVE  clock - seen'[i].at > cfg.window_secs
    BY <1>3 DEF Dropped
  <2>1. since \in Nat /\ i \in Nat /\ since < i /\ i <= m - n + p
    BY <1>1, <1>4, <1>5, <1>6 DEF TypeOK
  <2>2. i \in 1..m
    BY <1>1, <1>4, <2>1
  <2>3. CASE i <= m - n
    <3>1. i \in (since + 1)..(Len(seen) - Len(window))
      BY <1>4, <2>1, <2>3
    <3>2. clock - seen[i].at > cfg.window_secs
      BY <3>1 DEF Dropped
    <3> QED
      BY <1>6, <2>2, <3>2
  <2>4. CASE i > m - n
    <3>1. PICK j \in 1..p : j = i - (m - n)
      <4>1. i - (m - n) \in 1..p
        BY <1>4, <2>1, <2>4
      <4> QED
        BY <4>1
    <3>2. j \in 1..n /\ m - n + j = i
      BY <1>1, <1>4, <2>1, <3>1
    <3>3. window[j] = seen[i]
      BY <1>4, <3>2 DEF Latest
    <3> QED
      BY <1>1, <1>6, <2>2, <3>3 DEF Expired
  <2> QED
    BY <1>4, <2>1, <2>3, <2>4
<1>11. \A i \in DOMAIN window' : ~Expired(window'[i])
  <2>1. clock \in Nat /\ cfg.window_secs \in Nat /\ e.at = clock
    BY <1>2, AiAdvisorAssumption DEF TypeOK, AiAdvisorConfig
  <2>2. ~Expired(e)
    BY <2>1 DEF Expired
  <2>3. \A i \in 1..(n - p) : ~Expired(w[i])
    BY <1>1, <1>4
  <2>4. \A i \in DOMAIN window' : i \in 1..(n - p) \/ i = n - p + 1
    BY <1>5
  <2> QED
    BY <1>5, <2>2, <2>3, <2>4
<1>12. \A x \in PatternKey : /\ Remaining(x) = Cardinality(Occurrences(w, x))
                             /\ Remaining(x) \in Nat
  BY <1>1, RemainingIs
<1>13. counts' = Counted(k)
  BY DEF Track
<1>14. \A x \in PatternKey :
         /\ x \in DOMAIN counts' <=> Remaining(x) + (IF x = k THEN 1 ELSE 0) > 0
         /\ x \in DOMAIN counts' => counts'[x] = Remaining(x) + (IF x = k THEN 1 ELSE 0)
  BY <1>12, <1>13 DEF Counted
<1>15. DOMAIN counts' \subseteq PatternKey
  BY <1>13 DEF Counted
<1>16. Counting'
  <2> SUFFICES ASSUME NEW x \in PatternKey
               PROVE  Cardinality(Occurrences(window', x))
                        = IF x \in DOMAIN counts' THEN counts'[x] ELSE 0
    BY DEF Counting, Occurrences
  <2>1. PICK r \in Nat : r = Remaining(x) /\ r = Cardinality(Occurrences(w, x))
    BY <1>12
  <2>2. Cardinality(Occurrences(Append(w, e), x)) = r + (IF e.key = x THEN 1 ELSE 0)
    BY <2>1, OccurrencesAppended
  <2>3. Cardinality(Occurrences(window', x)) = r + (IF x = k THEN 1 ELSE 0)
    BY <1>2, <1>3, <2>2
  <2>4. PICK q \in Nat : q = r + (IF x = k THEN 1 ELSE 0)
    OBVIOUS
  <2>5. (x \in DOMAIN counts' <=> q > 0) /\ (x \in DOMAIN counts' => counts'[x] = q)
    BY <1>14, <2>1, <2>4
  <2>6. q = IF x \in DOMAIN counts' THEN counts'[x] ELSE 0
    BY <2>5
  <2> QED
    BY <2>3, <2>4, <2>6, Zenon
<1>17. (\A x \in DOMAIN counts' : counts'[x] \in Nat \ {0}) /\ k \in DOMAIN counts'
  BY <1>12, <1>14, <1>15
<1> QED
  BY <1>2, <1>4, <1>5, <1>6, <1>7, <1>8, <1>9, <1>10, <1>11, <1>15, <1>16, <1>17

-----------------------------------------------------------------------------
(***************************************************************************)
(* The steps                                                               *)
(***************************************************************************)
\* What a prompt's context owes the window: its elements are elements of it, and
\* its first is the window's last.
NewestFirst(t, s) ==
  /\ \A i \in DOMAIN t : \E j \in DOMAIN s : t[i] = s[j]
  /\ t # <<>> => Head(t) = Last(s)

\* The newest incidents, the most recent first.
LEMMA ReversedNewest ==
  ASSUME NEW S, NEW s \in Seq(S), NEW n \in Nat, NEW t, t = Reverse(NewestOf(s, n))
  PROVE  t \in Seq(S) /\ NewestFirst(t, s)
<1>1. PICK l \in Nat : l = Len(s)
  OBVIOUS
<1>2. PICK a \in 1..(l + 1) : a = IF l > n THEN l - n + 1 ELSE 1
  <2>1. (IF l > n THEN l - n + 1 ELSE 1) \in 1..(l + 1)
    OBVIOUS
  <2> QED
    BY <2>1
<1>3. PICK u \in Seq(S) : /\ u = NewestOf(s, n) /\ Len(u) = l - a + 1
                          /\ \A i \in 1..(l - a + 1) : u[i] = s[a + i - 1]
  <2>1. \A i \in a..l : s[i] \in S
    BY <1>1
  <2>2. /\ SubSeq(s, a, l) \in Seq(S)
        /\ Len(SubSeq(s, a, l)) = IF a <= l THEN l - a + 1 ELSE 0
        /\ \A i \in 1..(l - a + 1) : SubSeq(s, a, l)[i] = s[a + i - 1]
    BY <2>1, SubSeqProperties
  <2>3. NewestOf(s, n) = SubSeq(s, a, l)
    BY <1>1, <1>2 DEF NewestOf
  <2>4. (IF a <= l THEN l - a + 1 ELSE 0) = l - a + 1
    OBVIOUS
  <2> QED
    BY <2>2, <2>3, <2>4
<1>4. PICK m \in Nat : m = l - a + 1
  <2>1. l - a + 1 \in Nat
    OBVIOUS
  <2> QED
    BY <2>1
<1>5. t = Reverse(u)
  BY <1>3
<1>6. t = [i \in 1..m |-> u[m - i + 1]]
  BY <1>3, <1>4, <1>5 DEF Reverse
<1>7. \A i \in 1..m : m - i + 1 \in 1..m /\ t[i] = u[m - i + 1]
  BY <1>6
<1>8. t \in Seq(S) /\ Len(t) = m
  <2>1. \A i \in 1..m : u[i] \in S
    BY <1>3, <1>4
  <2>2. \A i \in 1..m : t[i] \in S
    BY <1>7, <2>1
  <2> QED
    BY <1>6, <2>2, IsASeq
<1>9. ASSUME NEW i \in 1..m PROVE \E j \in DOMAIN s : t[i] = s[j]
  <2>1. PICK k \in 1..m : k = m - i + 1 /\ t[i] = u[k]
    BY <1>7
  <2>2. a + k - 1 \in 1..l /\ u[k] = s[a + k - 1]
    BY <1>3, <1>4
  <2> QED
    BY <1>1, <2>1, <2>2
<1>10. ASSUME t # <<>> PROVE Head(t) = Last(s)
  <2>1. m > 0 /\ Head(t) = t[1]
    BY <1>8, <1>10
  <2>2. t[1] = u[m]
    BY <1>7, <2>1
  <2>3. u[m] = s[l]
    BY <1>3, <1>4, <2>1
  <2> QED
    BY <1>1, <2>1, <2>2, <2>3 DEF Last
<1> QED
  <2>1. DOMAIN t = 1..m
    BY <1>6
  <2> QED
    BY <1>8, <1>9, <1>10, <2>1 DEF NewestFirst

\* The steps that are not about an incident.
LEMMA OtherSteps ==
  ASSUME TypeOK, Next, ~\E k \in PatternKey : CountOnly(k) \/ WithoutApiKey(k) \/ Ask(k)
  PROVE  /\ UNCHANGED <<window, counts, seen, cooldowns, asked>>
         /\ ask' \in {None, ask} /\ pc' \in {"idle", "asking", "staging"}
         /\ pc' = "idle" <=> ask' = None
         /\ \/ UNCHANGED <<clock, cfg, since>>
            \/ since' = Len(seen) /\ cfg' \in Configs /\ clock' = clock
            \/ clock' = clock + 1 /\ UNCHANGED <<cfg, since>>
<1> USE DEF TypeOK, windowVars, callVars
<1>1. CASE ProviderFails
  BY <1>1 DEF ProviderFails, Return
<1>2. ASSUME NEW r \in Responses, NothingProposed(r) \/ Proposed(r)
      PROVE  /\ UNCHANGED <<clock, cfg, since, window, counts, seen, cooldowns, asked>>
             /\ ask' \in {None, ask} /\ pc' \in {"idle", "asking", "staging"}
             /\ pc' = "idle" <=> ask' = None
  BY <1>2 DEF NothingProposed, Proposed, Return
<1>3. CASE Stage \/ Staged
  BY <1>3 DEF Stage, Staged, Return
<1>4. ASSUME NEW c \in Configs, Reload(c)
      PROVE  /\ UNCHANGED <<window, counts, seen, cooldowns, asked, ask, pc, clock>>
             /\ since' = Len(seen) /\ cfg' = c
  BY <1>4 DEF Reload
<1>5. CASE Tick
  BY <1>5 DEF Tick
<1> QED
  BY <1>1, <1>2, <1>3, <1>4, <1>5 DEF Next

\* A pattern was last tried when the provider was last asked about it, or later.
Tried ==
  /\ \A k \in DOMAIN cooldowns : cooldowns[k] <= clock
  /\ \A k \in PatternKey : asked[k] # None => k \in DOMAIN cooldowns /\ asked[k] <= cooldowns[k]

\* The steps that are.
LEMMA IncidentSteps ==
  ASSUME NEW k \in PatternKey, CountOnly(k) \/ WithoutApiKey(k) \/ Ask(k)
  PROVE  /\ Track(k) /\ UNCHANGED <<clock, cfg, since>>
         /\ UNCHANGED <<cooldowns, asked, ask, pc>> \/ Triggers(k)
         /\ UNCHANGED <<ask, pc, asked>> \/ Ask(k)
BY DEF CountOnly, WithoutApiKey, Ask, Triggers, callVars

LEMMA AskTypes ==
  ASSUME TypeOK, NEW k \in PatternKey, window' \in Seq(Incident), Ask(k)
  PROVE  /\ ask' \in Request /\ ask' # None /\ ask'.key = k /\ pc' = "asking"
         /\ ask'.context = Reverse(NewestOf(window', cfg.context))
<1>1. cfg.context \in Nat /\ clock \in Nat /\ cfg \in Configs
  BY AiAdvisorAssumption DEF TypeOK, AiAdvisorConfig
<1>2. PICK c \in Seq(Incident) : c = Reverse(NewestOf(window', cfg.context))
  BY <1>1, ReversedNewest
<1>3. ask' = [key |-> k, at |-> clock, cfg |-> cfg, context |-> c] /\ pc' = "asking"
  BY <1>2 DEF Ask, Prompt
<1>4. ask' \in Request
  BY <1>1, <1>2, <1>3 DEF Request
<1> QED
  BY <1>2, <1>3, <1>4, AiAdvisorAssumption

LEMMA CooldownTypes ==
  ASSUME TypeOK, Tried, NEW k \in PatternKey, Triggers(k), clock' = clock,
         asked' = asked \/ asked' = [asked EXCEPT ![k] = clock]
  PROVE  /\ DOMAIN cooldowns' \subseteq PatternKey
         /\ \A x \in DOMAIN cooldowns' : cooldowns'[x] \in Nat
         /\ asked' \in [PatternKey -> Nat \cup {None}] /\ Tried'
<1>1. clock \in Nat /\ DOMAIN cooldowns' = DOMAIN cooldowns \cup {k}
  BY DEF TypeOK, Triggers
<1>2. \A x \in DOMAIN cooldowns' : cooldowns'[x] = IF x = k THEN clock ELSE cooldowns[x]
  BY <1>1 DEF Triggers
<1>3. asked' \in [PatternKey -> Nat \cup {None}]
  BY <1>1 DEF TypeOK
<1>4. \A x \in DOMAIN cooldowns' : cooldowns'[x] \in Nat /\ cooldowns'[x] <= clock
  BY <1>1, <1>2 DEF TypeOK, Tried
<1>5. ASSUME NEW x \in PatternKey, asked'[x] # None
      PROVE  x \in DOMAIN cooldowns' /\ asked'[x] <= cooldowns'[x]
  <2>1. CASE x = k
    <3>1. cooldowns'[x] = clock
      BY <1>1, <1>2, <2>1
    <3>2. asked'[x] = clock \/ asked'[x] = asked[x]
      BY <2>1 DEF TypeOK
    <3>3. asked[x] # None => asked[x] \in Nat /\ cooldowns[x] \in Nat
                             /\ asked[x] <= cooldowns[x] /\ cooldowns[x] <= clock
      BY DEF TypeOK, Tried
    <3> QED
      BY <1>1, <1>5, <2>1, <3>1, <3>2, <3>3
  <2>2. CASE x # k
    <3>1. asked'[x] = asked[x]
      BY <2>2 DEF TypeOK
    <3> QED
      BY <1>1, <1>2, <1>5, <2>2, <3>1 DEF Tried
  <2> QED
    BY <2>1, <2>2
<1> QED
  BY <1>1, <1>3, <1>4, <1>5 DEF TypeOK, Tried

Inv == WindowInv /\ Tried

LEMMA StepInv == Inv /\ [Next]_vars => Inv'
<1> SUFFICES ASSUME Inv, [Next]_vars PROVE Inv'
  OBVIOUS
<1> USE DEF Inv
<1>1. CASE UNCHANGED vars
  BY <1>1 DEF vars, windowVars, callVars, WindowInv, TypeOK, Latest, InTime, Dropped, Counting,
              Occurrences, Tried
<1>2. ASSUME NEW k \in PatternKey, CountOnly(k) \/ WithoutApiKey(k) \/ Ask(k) PROVE Inv'
  <2>1. Track(k) /\ UNCHANGED <<clock, cfg, since>>
    BY <1>2, IncidentSteps
  <2>2. /\ Latest' /\ InTime' /\ Dropped' /\ Counting'
        /\ window' \in Seq(Incident) /\ seen' \in Seq(Incident) /\ Len(seen') = Len(seen) + 1
        /\ DOMAIN counts' \subseteq PatternKey
        /\ \A x \in DOMAIN counts' : counts'[x] \in Nat \ {0}
    BY <2>1, TrackKeeps
  <2>3. clock' \in Nat /\ cfg' \in Configs /\ since' \in 0..Len(seen')
    BY <2>1, <2>2 DEF WindowInv, TypeOK
  <2>4. ask' \in Request \cup {None} /\ pc' \in {"idle", "asking", "staging"}
        /\ (pc' = "idle" <=> ask' = None)
    BY <1>2, <2>2, IncidentSteps, AskTypes DEF WindowInv, TypeOK
  <2>5. /\ DOMAIN cooldowns' \subseteq PatternKey
        /\ \A x \in DOMAIN cooldowns' : cooldowns'[x] \in Nat
        /\ asked' \in [PatternKey -> Nat \cup {None}] /\ Tried'
    <3>1. CASE UNCHANGED <<cooldowns, asked>>
      BY <2>1, <3>1 DEF WindowInv, TypeOK, Tried
    <3>2. CASE Triggers(k)
      <4>1. asked' = asked \/ asked' = [asked EXCEPT ![k] = clock]
        BY <1>2 DEF CountOnly, WithoutApiKey, Ask
      <4> QED
        BY <2>1, <3>2, <4>1, CooldownTypes DEF WindowInv
    <3> QED
      BY <1>2, <3>1, <3>2, IncidentSteps
  <2> QED
    BY <2>2, <2>3, <2>4, <2>5 DEF WindowInv, TypeOK
<1>3. ASSUME Next, ~\E k \in PatternKey : CountOnly(k) \/ WithoutApiKey(k) \/ Ask(k) PROVE Inv'
  <2>1. /\ UNCHANGED <<window, counts, seen, cooldowns, asked>>
        /\ ask' \in {None, ask} /\ pc' \in {"idle", "asking", "staging"}
        /\ pc' = "idle" <=> ask' = None
        /\ \/ UNCHANGED <<clock, cfg, since>>
           \/ since' = Len(seen) /\ cfg' \in Configs /\ clock' = clock
           \/ clock' = clock + 1 /\ UNCHANGED <<cfg, since>>
    BY <1>3, OtherSteps DEF WindowInv
  <2>2. Latest' /\ Counting'
    BY <2>1 DEF WindowInv, Latest, Counting, Occurrences
  <2>3. /\ clock \in Nat /\ clock' \in Nat /\ clock <= clock'
        /\ Len(seen) \in Nat /\ Len(window) \in Nat
    BY <2>1 DEF WindowInv, TypeOK
  <2>4. TypeOK'
    BY <2>1, <2>3 DEF WindowInv, TypeOK
  <2>5. \A i \in DOMAIN seen : seen[i].at \in Nat
    <3>1. \A e \in Incident : e.at \in Nat
      BY DEF Incident
    <3> QED
      BY <3>1 DEF WindowInv, TypeOK
  <2>6. InTime'
    BY <2>1, <2>3, <2>5 DEF WindowInv, InTime
  <2>7. Tried'
    BY <2>1, <2>3 DEF WindowInv, TypeOK, Tried
  <2>8. Dropped'
    <3>1. CASE since' = Len(seen)
      <4>1. (Len(seen) + 1)..(Len(seen) - Len(window)) = {}
        BY <2>3
      <4> QED
        BY <2>1, <3>1, <4>1 DEF Dropped
    <3>2. CASE UNCHANGED <<cfg, since>>
      <4> SUFFICES ASSUME NEW i \in (since + 1)..(Len(seen) - Len(window))
                   PROVE  clock' - seen[i].at > cfg.window_secs
        BY <2>1, <3>2 DEF Dropped
      <4>1. clock - seen[i].at > cfg.window_secs
        BY DEF WindowInv, Dropped
      <4>2. i \in DOMAIN seen
        BY <2>3 DEF WindowInv, TypeOK
      <4>3. cfg.window_secs \in Nat
        BY AiAdvisorAssumption DEF WindowInv, TypeOK, AiAdvisorConfig
      <4> QED
        BY <2>3, <2>5, <4>1, <4>2, <4>3
    <3> QED
      BY <2>1, <3>1, <3>2
  <2> QED
    BY <2>2, <2>4, <2>6, <2>7, <2>8 DEF WindowInv
<1> QED
  BY <1>1, <1>2, <1>3

LEMMA Invariant == Spec => []Inv
<1>1. Init => Inv
  BY InitWindow DEF Init, Inv, Tried
<1> QED
  BY <1>1, StepInv, PTL DEF Spec

\* The counts never go below one, and a call of analyze is under way if and only
\* if there is a request.
THEOREM TypeCorrect == Spec => []TypeOK
BY Invariant, PTL DEF Inv, WindowInv

LEMMA WindowIsSuffix == TypeOK /\ Latest => IsSuffix(window, seen)
<1> SUFFICES ASSUME TypeOK, Latest PROVE IsSuffix(window, seen)
  OBVIOUS
<1>1. PICK n \in Nat, m \in Nat : n = Len(window) /\ m = Len(seen) /\ n <= m
  BY DEF TypeOK, Latest
<1>2. PICK w \in Seq(Incident) : /\ w = Reverse(window) /\ Len(w) = n
                                 /\ \A i \in 1..n : w[i] = window[n - i + 1]
  <2>1. Reverse(window) = [i \in 1..n |-> window[n - i + 1]]
    BY <1>1 DEF Reverse
  <2>2. \A i \in 1..n : window[n - i + 1] \in Incident
    BY <1>1 DEF TypeOK
  <2> QED
    BY <2>1, <2>2, IsASeq
<1>3. PICK s \in Seq(Incident) : /\ s = Reverse(seen) /\ Len(s) = m
                                 /\ \A i \in 1..m : s[i] = seen[m - i + 1]
  <2>1. Reverse(seen) = [i \in 1..m |-> seen[m - i + 1]]
    BY <1>1 DEF Reverse
  <2>2. \A i \in 1..m : seen[m - i + 1] \in Incident
    BY <1>1 DEF TypeOK
  <2> QED
    BY <2>1, <2>2, IsASeq
<1>4. ASSUME NEW i \in 1..n PROVE w[i] = s[i]
  <2>1. PICK j \in 1..n : j = n - i + 1
    <3>1. n - i + 1 \in 1..n
      BY <1>1
    <3> QED
      BY <3>1
  <2>2. window[j] = seen[Len(seen) - Len(window) + j]
    <3>1. j \in DOMAIN window
      BY <1>1, <2>1 DEF TypeOK
    <3> QED
      BY <3>1 DEF Latest
  <2>3. w[i] = window[j]
    BY <1>2, <2>1
  <2>4. PICK l \in 1..m : l = m - i + 1
    <3>1. m - i + 1 \in 1..m
      BY <1>1
    <3> QED
      BY <3>1
  <2>5. m - n + j = l /\ i \in 1..m
    BY <1>1, <2>1, <2>4
  <2>6. w[i] = seen[l]
    BY <1>1, <2>2, <2>3, <2>5
  <2>7. s[i] = seen[l]
    BY <1>3, <2>4, <2>5
  <2> QED
    BY <2>6, <2>7
<1>5. SubSeq(w, 1, n) = SubSeq(s, 1, n)
  <2>1. PICK v \in Seq(Incident) : v = SubSeq(w, 1, n) /\ Len(v) = n /\ \A i \in 1..n : v[i] = w[i]
    BY <1>1, <1>2
  <2>2. PICK u \in Seq(Incident) : u = SubSeq(s, 1, n) /\ Len(u) = n /\ \A i \in 1..n : u[i] = s[i]
    <3>1. \A i \in 1..n : s[i] \in Incident
      BY <1>1, <1>3
    <3>2. /\ SubSeq(s, 1, n) \in Seq(Incident)
          /\ Len(SubSeq(s, 1, n)) = IF 1 <= n THEN n - 1 + 1 ELSE 0
          /\ \A i \in 1..(n - 1 + 1) : SubSeq(s, 1, n)[i] = s[1 + i - 1]
      BY <3>1, SubSeqProperties
    <3>3. PICK u \in Seq(Incident) : u = SubSeq(s, 1, n)
      BY <3>2
    <3>4. Len(u) = n
      BY <3>2, <3>3
    <3>5. \A i \in 1..n : u[i] = s[i]
      BY <3>2, <3>3
    <3> QED
      BY <3>3, <3>4, <3>5
  <2> QED
    BY <1>4, <2>1, <2>2, SeqEqual
<1> QED
  BY <1>1, <1>2, <1>3, <1>5 DEF IsSuffix, IsPrefix

\* Through evictions, reloads that change the window and disabled spells, the
\* counts are those of the window (ai_advisor/mod.rs:68-87).
THEOREM CountsAreRight == Spec => []CountsMatchWindow
<1>1. Inv => CountsMatchWindow
  BY WindowIsSuffix DEF Inv, WindowInv, Counting, CountsMatchWindow
<1> QED
  BY <1>1, Invariant, PTL

-----------------------------------------------------------------------------
(***************************************************************************)
(* When the provider is asked                                              *)
(***************************************************************************)
\* What is counted is what is recent.
LEMMA CountsRecent ==
  ASSUME Inv, NEW k \in PatternKey, Track(k), UNCHANGED <<clock, cfg, since>>
  PROVE  /\ counts'[k] <= Cardinality(Recent(k, 0))
         /\ Cardinality(Recent(k, since)) <= counts'[k]
         /\ counts'[k] \in Nat
         /\ Cardinality(Recent(k, since)) \in Nat /\ Cardinality(Recent(k, 0)) \in Nat
<1> USE DEF Inv
<1>1. /\ Latest' /\ Dropped' /\ Counting' /\ k \in DOMAIN counts' /\ counts'[k] \in Nat
      /\ window' \in Seq(Incident) /\ seen' \in Seq(Incident)
      /\ \A i \in DOMAIN window' : ~Expired(window'[i])
  BY TrackKeeps
<1>2. PICK w \in Seq(Incident), s \in Seq(Incident) : w = window' /\ s = seen'
  BY <1>1
<1>3. PICK n \in Nat, m \in Nat : n = Len(w) /\ m = Len(s) /\ n <= m
  BY <1>1, <1>2 DEF Latest
<1>4. \A i \in 1..n : w[i] = s[m - n + i] /\ ~Expired(w[i])
  <2>1. DOMAIN w = 1..n
    BY <1>3
  <2>2. \A i \in DOMAIN w : w[i] = s[Len(s) - Len(w) + i]
    BY <1>1, <1>2 DEF Latest
  <2>3. \A i \in DOMAIN w : ~Expired(w[i])
    BY <1>1, <1>2
  <2> QED
    BY <1>3, <2>1, <2>2, <2>3
<1>5. PICK B : B = Shifted(Occurrences(w, k), m - n)
  OBVIOUS
<1>6. counts'[k] = Cardinality(B) /\ IsFiniteSet(B)
  <2>1. counts'[k] = Cardinality(Occurrences(w, k))
    BY <1>1, <1>2 DEF Counting, Occurrences
  <2>2. m - n \in Int
    OBVIOUS
  <2> QED
    BY <1>5, <2>1, <2>2, OccurrencesFinite, ShiftedCardinality
<1>7. \A l \in Nat : Recent(k, l) = {i \in (l + 1)..m : s[i].key = k /\ ~Expired(s[i])}
  BY <1>2, <1>3 DEF Recent
<1>8. \A l \in Nat : IsFiniteSet(Recent(k, l)) /\ Cardinality(Recent(k, l)) \in Nat
  <2> SUFFICES ASSUME NEW l \in Nat
               PROVE  IsFiniteSet(Recent(k, l)) /\ Cardinality(Recent(k, l)) \in Nat
    OBVIOUS
  <2>1. IsFiniteSet((l + 1)..m) /\ Recent(k, l) \subseteq (l + 1)..m
    BY <1>7, FS_Interval
  <2> QED
    BY <2>1, FS_Subset, FS_CardinalityType
<1>9. B \subseteq Recent(k, 0)
  <2> SUFFICES ASSUME NEW j \in B PROVE j \in Recent(k, 0)
    OBVIOUS
  <2>1. PICK i \in 1..n : w[i].key = k /\ j = i + (m - n)
    BY <1>3, <1>5 DEF Shifted, Occurrences
  <2>2. j = m - n + i /\ j \in 1..m
    BY <1>3, <2>1
  <2>3. w[i] = s[j] /\ ~Expired(w[i])
    BY <1>4, <2>2
  <2> QED
    BY <1>7, <2>1, <2>2, <2>3
<1>10. since \in Nat
  BY DEF WindowInv, TypeOK
<1>11. Recent(k, since) \subseteq B
  <2> SUFFICES ASSUME NEW j \in Recent(k, since) PROVE j \in B
    OBVIOUS
  <2>1. j \in (since + 1)..m /\ s[j].key = k /\ ~Expired(s[j])
    BY <1>7, <1>10
  <2>2. j > m - n
    <3> SUFFICES ASSUME j <= m - n PROVE FALSE
      BY <1>3, <1>10, <2>1
    <3>1. j \in (since + 1)..(m - n)
      BY <1>3, <1>10, <2>1
    <3>2. clock - s[j].at > cfg.window_secs
      BY <1>1, <1>2, <1>3, <3>1 DEF Dropped
    <3> QED
      BY <2>1, <3>2 DEF Expired
  <2>3. PICK i \in 1..n : i = j - (m - n)
    <3>1. j - (m - n) \in 1..n
      BY <1>3, <1>10, <2>1, <2>2
    <3> QED
      BY <3>1
  <2>4. m - n + i = j /\ j = i + (m - n)
    BY <1>3, <1>10, <2>1, <2>3
  <2>5. i \in Occurrences(w, k)
    BY <1>3, <1>4, <2>1, <2>4 DEF Occurrences
  <2> QED
    BY <1>5, <2>4, <2>5 DEF Shifted
<1>12. Cardinality(B) <= Cardinality(Recent(k, 0))
  BY <1>8, <1>9, FS_Subset
<1>13. Cardinality(Recent(k, since)) <= Cardinality(B)
  BY <1>6, <1>11, FS_Subset
<1>14. Cardinality(Recent(k, since)) \in Nat /\ Cardinality(Recent(k, 0)) \in Nat
  BY <1>8, <1>10
<1> QED
  BY <1>1, <1>6, <1>12, <1>13, <1>14

\* Only Ask makes a request.
LEMMA AsksIs ==
  ASSUME TypeOK, [Next]_vars, NEW k \in PatternKey, Asks(k)
  PROVE  Ask(k) /\ Track(k) /\ UNCHANGED <<clock, cfg, since>>
<1>1. ask = None /\ ask' # None /\ ask'.key = k
  BY DEF Asks
<1>2. Next
  BY <1>1 DEF vars, callVars
<1>3. PICK x \in PatternKey : CountOnly(x) \/ WithoutApiKey(x) \/ Ask(x)
  BY <1>1, <1>2, OtherSteps
<1>4. Ask(x)
  BY <1>1, <1>3, IncidentSteps
<1>5. x = k
  BY <1>1, <1>4 DEF Ask, Prompt
<1> QED
  BY <1>4, <1>5, IncidentSteps

\* The provider is asked about a pattern only if it repeats within the window, at
\* most once in its cooldown, and with recent incidents (ai_advisor/mod.rs:91-132).
THEOREM RequestsAreDue == Spec => AsksWhenItRepeats
<1>1. ASSUME Inv, [Next]_vars, NEW k \in PatternKey, Asks(k)
      PROVE  /\ Cardinality(Recent(k, 0)) >= cfg.trigger_threshold
             /\ asked[k] = None \/ clock - asked[k] >= cfg.cooldown_seconds
             /\ ~\E i \in DOMAIN ask'.context : Expired(ask'.context[i])
             /\ ask'.context # <<>> => Head(ask'.context) = Last(window')
  <2> USE DEF Inv, WindowInv
  <2>1. Ask(k) /\ Track(k) /\ UNCHANGED <<clock, cfg, since>>
    BY <1>1, AsksIs
  <2>2. Due(k) /\ counts'[k] >= cfg.trigger_threshold /\ ~Cooling(k)
    BY <2>1 DEF Ask, Triggers, Due
  <2>3. /\ cfg.trigger_threshold \in Nat /\ cfg.cooldown_seconds \in Nat /\ cfg.context \in Nat
        /\ clock \in Nat
    BY <1>1, AiAdvisorAssumption DEF TypeOK, AiAdvisorConfig
  <2>4. Cardinality(Recent(k, 0)) >= cfg.trigger_threshold
    BY <1>1, <2>1, <2>2, <2>3, CountsRecent
  <2>5. asked[k] # None => clock - asked[k] >= cfg.cooldown_seconds
    <3> SUFFICES ASSUME asked[k] # None PROVE clock - asked[k] >= cfg.cooldown_seconds
      OBVIOUS
    <3>1. /\ k \in DOMAIN cooldowns /\ asked[k] <= cooldowns[k]
          /\ asked[k] \in Nat /\ cooldowns[k] \in Nat
      BY <1>1 DEF Tried, TypeOK
    <3>2. ~(clock - cooldowns[k] < cfg.cooldown_seconds)
      BY <2>2, <3>1 DEF Cooling
    <3> QED
      BY <2>3, <3>1, <3>2
  <2>6. window' \in Seq(Incident) /\ \A i \in DOMAIN window' : ~Expired(window'[i])
    BY <1>1, <2>1, TrackKeeps
  <2>7. ask'.context = Reverse(NewestOf(window', cfg.context))
    BY <1>1, <2>1, <2>6, AskTypes
  <2>8. PICK w \in Seq(Incident) : w = window'
    BY <2>6
  <2>9. PICK n \in Nat : n = cfg.context
    BY <2>3
  <2>10. PICK c : c = ask'.context /\ c = Reverse(NewestOf(w, n))
    BY <2>7, <2>8, <2>9
  <2>11. NewestFirst(c, w)
    BY <2>10, ReversedNewest
  <2>12. \A i \in DOMAIN c : ~Expired(c[i])
    BY <2>6, <2>8, <2>11 DEF NewestFirst
  <2>13. c # <<>> => Head(c) = Last(w)
    BY <2>11 DEF NewestFirst
  <2> QED
    BY <2>4, <2>5, <2>8, <2>10, <2>12, <2>13
<1>2. Inv /\ [Next]_vars =>
        [\A k \in PatternKey : Asks(k) =>
           /\ Cardinality(Recent(k, 0)) >= cfg.trigger_threshold
           /\ asked[k] = None \/ clock - asked[k] >= cfg.cooldown_seconds
           /\ ~\E i \in DOMAIN ask'.context : Expired(ask'.context[i])
           /\ ask'.context # <<>> => Head(ask'.context) = Last(window')]_vars
  BY <1>1
<1> QED
  BY <1>2, Invariant, PTL DEF Spec, AsksWhenItRepeats

\* No repetition since the last reload goes without a request, or an attempt
\* without an API key (ai_advisor/mod.rs:64-109).
THEOREM RepetitionsAreAskedAbout == Spec => NoRepetitionIsMissed
<1>1. ASSUME Inv, Next, NEW k \in PatternKey,
             Len(seen') > Len(seen), Last(seen').key = k,
             Cardinality(Recent(k, since)) >= cfg.trigger_threshold, ~Cooling(k)
      PROVE  Asks(k) \/ ~cfg.has_key
  <2> USE DEF Inv, WindowInv
  <2>1. PICK x \in PatternKey : CountOnly(x) \/ WithoutApiKey(x) \/ Ask(x)
    <3>1. Len(seen) \in Nat
      BY <1>1 DEF TypeOK
    <3>2. ~UNCHANGED seen
      BY <1>1, <3>1
    <3> QED
      BY <1>1, <3>2, OtherSteps
  <2>2. Track(x) /\ UNCHANGED <<clock, cfg, since>>
    BY <2>1, IncidentSteps
  <2>3. x = k
    <3>1. Last(seen') = [at |-> clock, key |-> x]
      BY <1>1, <2>2, TrackKeeps
    <3> QED
      BY <1>1, <3>1
  <2>4. counts'[k] >= cfg.trigger_threshold
    <3>1. cfg.trigger_threshold \in Nat
      BY <1>1, AiAdvisorAssumption DEF TypeOK, AiAdvisorConfig
    <3>2. /\ Cardinality(Recent(k, since)) <= counts'[k]
          /\ counts'[k] \in Nat /\ Cardinality(Recent(k, since)) \in Nat
      BY <1>1, <2>2, <2>3, CountsRecent
    <3> QED
      BY <1>1, <3>1, <3>2
  <2>5. Due(k)
    BY <1>1, <2>4 DEF Due
  <2>6. ~CountOnly(k)
    BY <2>5 DEF CountOnly
  <2>7. CASE WithoutApiKey(k)
    BY <2>7 DEF WithoutApiKey
  <2>8. CASE Ask(k)
    <3>1. ask = None
      BY <1>1, <2>2 DEF TypeOK, Track
    <3>2. window' \in Seq(Incident)
      BY <1>1, <2>2, TrackKeeps
    <3>3. ask' # None /\ ask'.key = k
      BY <1>1, <2>8, <3>2, AskTypes
    <3> QED
      BY <3>1, <3>3 DEF Asks
  <2> QED
    BY <2>1, <2>3, <2>6, <2>7, <2>8
<1>2. Inv /\ [Next]_vars =>
        [\A k \in PatternKey :
           (/\ Len(seen') > Len(seen) /\ Last(seen').key = k
            /\ Cardinality(Recent(k, since)) >= cfg.trigger_threshold /\ ~Cooling(k))
           => Asks(k) \/ ~cfg.has_key]_vars
  BY <1>1
<1> QED
  BY <1>2, Invariant, PTL DEF Spec, NoRepetitionIsMissed

-----------------------------------------------------------------------------
(***************************************************************************)
(* Blocks in a response                                                    *)
(***************************************************************************)
LEMMA Least ==
  ASSUME NEW T \in SUBSET Nat, T # {}
  PROVE  \E m \in T : \A n \in T : m <= n
<1>1. PICK m \in T : \A n \in T : <<n, m>> \notin OpToRel(<, Nat)
  BY NatLessThanWellFounded, WFMin
<1>2. ASSUME NEW n \in T PROVE m <= n
  <2>1. m \in Nat /\ n \in Nat
    OBVIOUS
  <2>2. ~(n < m)
    BY <1>1, <2>1 DEF OpToRel
  <2> QED
    BY <2>1, <2>2
<1> QED
  BY <1>2

\* A fence is open after line i of r: the last one that opened a block.
Fenced(r, i) ==
  \E j \in 1..i : r[j] = "open" /\ \A l \in (j + 1)..i : r[l] # "close"

LEMMA TrueOrFalse ==
  ASSUME NEW r, NEW i, NEW block, NEW line
  PROVE  /\ Fenced(r, i) = TRUE \/ Fenced(r, i) = FALSE
         /\ Scan(block, line) = TRUE \/ Scan(block, line) = FALSE
<1>1. Fenced(r, i) = TRUE \/ Fenced(r, i) = FALSE
  BY Zenon DEF Fenced
<1>2. Scan(block, line) = TRUE \/ Scan(block, line) = FALSE
  <2>1. CASE block
    BY <2>1, Zenon DEF Scan
  <2>2. CASE ~block
    BY <2>2, Zenon DEF Scan
  <2> QED
    BY <2>1, <2>2
<1> QED
  BY <1>1, <1>2

LEMMA FencedScans ==
  ASSUME NEW r \in Seq(Line), NEW i \in 1..Len(r)
  PROVE  Fenced(r, i) <=> Scan(Fenced(r, i - 1), r[i])
<1>1. i \in Nat /\ i - 1 \in Nat
  BY LenProperties
<1>2. CASE r[i] = "close"
  <2>1. ~Fenced(r, i)
    <3> SUFFICES ASSUME NEW j \in 1..i, r[j] = "open", \A l \in (j + 1)..i : r[l] # "close"
                 PROVE  FALSE
      BY DEF Fenced
    <3>1. j # i
      BY <1>2
    <3>2. i \in (j + 1)..i
      BY <1>1, <3>1
    <3> QED
      BY <1>2, <3>2
  <2> QED
    BY <1>2, <2>1, Zenon DEF Scan
<1>3. CASE r[i] # "close" /\ Fenced(r, i - 1)
  <2>1. PICK j \in 1..(i - 1) : r[j] = "open" /\ \A l \in (j + 1)..(i - 1) : r[l] # "close"
    BY <1>3 DEF Fenced
  <2>2. j \in 1..i /\ \A l \in (j + 1)..i : l \in (j + 1)..(i - 1) \/ l = i
    BY <1>1
  <2>3. Fenced(r, i)
    BY <1>3, <2>1, <2>2 DEF Fenced
  <2> QED
    BY <1>3, <2>3 DEF Scan
<1>4. CASE r[i] # "close" /\ ~Fenced(r, i - 1)
  <2>1. CASE r[i] = "open"
    <3>1. i \in 1..i /\ (i + 1)..i = {}
      BY <1>1
    <3>2. Fenced(r, i)
      BY <2>1, <3>1 DEF Fenced
    <3> QED
      BY <1>4, <2>1, <3>2 DEF Scan
  <2>2. CASE r[i] # "open"
    <3>1. ~Fenced(r, i)
      <4> SUFFICES ASSUME NEW j \in 1..i, r[j] = "open", \A l \in (j + 1)..i : r[l] # "close"
                   PROVE  FALSE
        BY DEF Fenced
      <4>1. j \in 1..(i - 1)
        BY <1>1, <2>2
      <4>2. \A l \in (j + 1)..(i - 1) : l \in (j + 1)..i
        BY <1>1
      <4>3. Fenced(r, i - 1)
        BY <4>1, <4>2 DEF Fenced
      <4> QED
        BY <1>4, <4>3
    <3> QED
      BY <1>4, <2>2, <3>1 DEF Scan
  <2> QED
    BY <2>1, <2>2
<1> QED
  BY <1>2, <1>3, <1>4

\* extract_toml is in a block where the last fence that matters opened one: there
\* is one function that goes from line to line as Scan does.
LEMMA InBlockIs ==
  ASSUME NEW r \in Seq(Line)
  PROVE  \A i \in 0..Len(r) : InBlock(r)[i] = Fenced(r, i)
<1>1. PICK n \in Nat : n = Len(r)
  BY LenProperties
<1> DEFINE Scanned(f) == f = [i \in 0..n |-> IF i = 0 THEN FALSE ELSE Scan(f[i - 1], r[i])]
<1>2. Scanned([i \in 0..n |-> Fenced(r, i)])
  <2>1. PICK g : g = [i \in 0..n |-> Fenced(r, i)]
    OBVIOUS
  <2>2. ASSUME NEW i \in 0..n
        PROVE  Fenced(r, i) = IF i = 0 THEN FALSE ELSE Scan(g[i - 1], r[i])
    <3>1. CASE i = 0
      <4>1. ~Fenced(r, 0)
        BY DEF Fenced
      <4> QED
        <5>1. Fenced(r, 0) = FALSE
          BY <4>1, TrueOrFalse, Zenon
        <5> QED
          BY <3>1, <5>1
    <3>2. CASE i # 0
      <4>1. i \in 1..Len(r) /\ i - 1 \in 0..n
        BY <1>1, <3>2
      <4>2. g[i - 1] = Fenced(r, i - 1)
        BY <2>1, <4>1
      <4>3. Fenced(r, i) <=> Scan(Fenced(r, i - 1), r[i])
        BY <4>1, FencedScans
      <4>4. Fenced(r, i) = Scan(g[i - 1], r[i])
        BY <4>2, <4>3, TrueOrFalse, Zenon
      <4> QED
        BY <3>2, <4>4, Zenon
    <3> QED
      BY <3>1, <3>2
  <2> QED
    BY <2>1, <2>2
<1>3. PICK b : b = InBlock(r)
  OBVIOUS
<1>4. b = CHOOSE f : Scanned(f)
  BY <1>1, <1>3 DEF InBlock
<1>5. Scanned(b)
  BY <1>2, <1>4
<1>6. ASSUME NEW i \in 0..n, b[i] # Fenced(r, i)
      PROVE  FALSE
  <2>1. PICK T : T = {k \in 0..n : b[k] # Fenced(r, k)}
    OBVIOUS
  <2>2. PICK m \in T : \A k \in T : m <= k
    <3>1. T \in SUBSET Nat /\ T # {}
      BY <1>6, <2>1
    <3> QED
      BY <3>1, Least
  <2>3. m \in 0..n /\ b[m] # Fenced(r, m)
    BY <2>1
  <2>4. b[m] = IF m = 0 THEN FALSE ELSE Scan(b[m - 1], r[m])
    BY <1>5, <2>3
  <2>5. m # 0
    <3>1. ~Fenced(r, 0)
      BY DEF Fenced
    <3>2. Fenced(r, 0) = FALSE
      BY <3>1, TrueOrFalse, Zenon
    <3> QED
      BY <2>3, <2>4, <3>2
  <2>6. m \in 1..Len(r) /\ m - 1 \in 0..n /\ ~(m <= m - 1)
    BY <1>1, <2>3, <2>5
  <2>7. b[m - 1] = Fenced(r, m - 1)
    BY <2>1, <2>2, <2>6
  <2>8. Fenced(r, m) <=> Scan(Fenced(r, m - 1), r[m])
    BY <2>6, FencedScans
  <2>9. Fenced(r, m) = Scan(Fenced(r, m - 1), r[m])
    BY <2>8, TrueOrFalse, Zenon
  <2> QED
    BY <2>3, <2>4, <2>5, <2>7, <2>9
<1> QED
  BY <1>1, <1>3, <1>6

-----------------------------------------------------------------------------
(***************************************************************************)
(* What is taken from a response                                           *)
(***************************************************************************)
\* A rule comes from a block, if there is one in the response.
Right(r, i) == /\ r[i] = "rule"
               /\ (\E j \in DOMAIN r : InFence(r, j)) => InFence(r, i)

LEMMA RulesAreRight ==
  ASSUME NEW r \in Seq(Line)
  PROVE  /\ Rules(r) \subseteq DOMAIN r
         /\ \A i \in Rules(r) : Right(r, i)
<1>1. PICK n \in Nat : n = Len(r) /\ DOMAIN r = 1..n
  BY LenProperties
<1>2. PICK F : F = {i \in DOMAIN r : InBlock(r)[i - 1] /\ r[i] # "close"}
  OBVIOUS
<1>3. \A i \in DOMAIN r : i \in F <=> InFence(r, i)
  <2> SUFFICES ASSUME NEW i \in DOMAIN r PROVE i \in F <=> InFence(r, i)
    OBVIOUS
  <2>1. i - 1 \in 0..Len(r)
    BY <1>1
  <2>2. InBlock(r)[i - 1] <=> Fenced(r, i - 1)
    BY <2>1, InBlockIs
  <2>3. InFence(r, i) <=> Fenced(r, i - 1) /\ r[i] # "close"
    BY DEF InFence, Fenced
  <2> QED
    BY <1>2, <2>2, <2>3
<1>4. PICK toml : toml = extract_toml(r)
  OBVIOUS
<1>5. toml = F \/ (F = {} /\ toml = DOMAIN r)
  BY <1>2, <1>4 DEF extract_toml
<1>6. \/ Rules(r) = toml /\ \A i \in toml : r[i] = "rule"
      \/ Rules(r) = {}
  BY <1>4 DEF Rules
<1>7. F \subseteq DOMAIN r
  BY <1>2
<1>8. ASSUME NEW i \in toml PROVE (\E j \in DOMAIN r : InFence(r, j)) => InFence(r, i)
  BY <1>3, <1>5, <1>7, <1>8
<1> QED
  BY <1>5, <1>6, <1>7, <1>8 DEF Right

\* The first n of a set of numbers are n at most.
LEMMA FirstOf ==
  ASSUME NEW S \in SUBSET Nat, IsFiniteSet(S), NEW n \in Nat
  PROVE  LET F == {i \in S : Cardinality({j \in S : j < i}) < n}
         IN  IsFiniteSet(F) /\ Cardinality(F) \in Nat /\ Cardinality(F) <= n
<1> DEFINE Rank(i) == Cardinality({j \in S : j < i})
<1>1. ASSUME NEW i \in S PROVE IsFiniteSet({j \in S : j < i}) /\ Rank(i) \in Nat
  <2>1. PICK A : A = {j \in S : j < i}
    OBVIOUS
  <2>2. A \subseteq S
    BY <2>1
  <2>3. IsFiniteSet(A) /\ Cardinality(A) \in Nat
    BY <2>2, FS_Subset, FS_CardinalityType
  <2> QED
    BY <2>1, <2>3
<1>2. ASSUME NEW a \in S, NEW b \in S, a < b PROVE Rank(a) < Rank(b)
  <2>1. PICK A, B : A = {j \in S : j < a} /\ B = {j \in S : j < b}
    OBVIOUS
  <2>2. IsFiniteSet(A) /\ IsFiniteSet(B)
    BY <1>1, <2>1
  <2>3. a \in B /\ a \notin A /\ A \subseteq B \ {a}
    <3>1. \A j \in S : j \in Nat
      OBVIOUS
    <3>2. \A j \in A : j \in S /\ j < a
      BY <2>1
    <3>3. ASSUME NEW j \in A PROVE j < b /\ j # a
      <4>1. j \in Nat /\ a \in Nat /\ b \in Nat
        BY <3>1, <3>2
      <4>2. j < a
        BY <3>2
      <4> QED
        BY <1>2, <4>1, <4>2
    <3> QED
      BY <1>2, <2>1, <3>2, <3>3
  <2>4. IsFiniteSet(B \ {a}) /\ Cardinality(B \ {a}) = Cardinality(B) - 1
    BY <2>2, <2>3, FS_RemoveElement
  <2>5. Cardinality(A) <= Cardinality(B \ {a})
    BY <2>3, <2>4, FS_Subset
  <2>6. Cardinality(A) \in Nat /\ Cardinality(B) \in Nat
    BY <2>2, FS_CardinalityType
  <2>7. Cardinality(A) < Cardinality(B)
    BY <2>4, <2>5, <2>6
  <2> QED
    BY <2>1, <2>7
<1>3. PICK F, T, f : /\ F = {i \in S : Rank(i) < n} /\ T = 0..(n - 1)
                     /\ f = [i \in F |-> Rank(i)]
  OBVIOUS
<1>4. IsFiniteSet(F) /\ Cardinality(F) \in Nat
  <2>1. F \subseteq S
    BY <1>3
  <2> QED
    BY <2>1, FS_Subset, FS_CardinalityType
<1>5. IsFiniteSet(T) /\ Cardinality(T) = n
  <2>1. 0 \in Int /\ n - 1 \in Int /\ (IF 0 > n - 1 THEN 0 ELSE (n - 1) - 0 + 1) = n
    OBVIOUS
  <2> QED
    BY <1>3, <2>1, FS_Interval
<1> HIDE DEF Rank
<1>6. f \in Injection(F, T)
  <2>1. \A i \in F : i \in S /\ Rank(i) \in Nat /\ Rank(i) < n
    BY <1>1, <1>3
  <2>2. f \in [F -> T]
    <3>1. ASSUME NEW i \in F PROVE Rank(i) \in T
      <4>1. PICK x : x = Rank(i)
        OBVIOUS
      <4>2. x \in Nat /\ x < n
        BY <2>1, <4>1
      <4>3. x \in 0..(n - 1)
        BY <4>2
      <4> QED
        BY <1>3, <4>1, <4>3
    <3> QED
      BY <1>3, <3>1
  <2>3. ASSUME NEW a \in F, NEW b \in F, f[a] = f[b] PROVE a = b
    <3>1. a \in Nat /\ b \in Nat /\ a \in S /\ b \in S
      BY <2>1
    <3>2. Rank(a) = Rank(b) /\ Rank(a) \in Nat
      BY <1>3, <2>1, <2>3
    <3>3. ~(a < b) /\ ~(b < a)
      BY <1>2, <3>1, <3>2
    <3> QED
      BY <3>1, <3>3
  <2> QED
    BY <2>2, <2>3 DEF Injection, IsInjective
<1>7. Cardinality(F) <= Cardinality(T)
  BY <1>5, <1>6, FS_Injection
<1>8. F = {i \in S : Cardinality({j \in S : j < i}) < n}
  BY <1>3 DEF Rank
<1> QED
  BY <1>4, <1>5, <1>7, <1>8

LEMMA TakenAre ==
  ASSUME NEW r \in Seq(Line), cfg.max_rules_per_fire \in Nat
  PROVE  /\ Taken(r) \subseteq DOMAIN r /\ IsFiniteSet(Taken(r))
         /\ Cardinality(Taken(r)) <= cfg.max_rules_per_fire
         /\ \A i \in Taken(r) : Right(r, i)
<1>1. PICK n \in Nat : n = Len(r) /\ DOMAIN r = 1..n
  BY LenProperties
<1>2. PICK S, max : S = Rules(r) /\ max = cfg.max_rules_per_fire
  OBVIOUS
<1>3. S \subseteq 1..n /\ \A i \in S : Right(r, i)
  BY <1>1, <1>2, RulesAreRight
<1>4. S \in SUBSET Nat /\ IsFiniteSet(S)
  <2>1. IsFiniteSet(1..n)
    <3>1. 1 \in Int /\ n \in Int
      OBVIOUS
    <3> QED
      BY <3>1, FS_Interval
  <2>2. IsFiniteSet(S)
    BY <1>3, <2>1, FS_Subset
  <2>3. \A i \in 1..n : i \in Nat
    OBVIOUS
  <2> QED
    BY <1>3, <2>2, <2>3
<1>5. Taken(r) = {i \in S : Cardinality({j \in S : j < i}) < max}
  BY <1>2 DEF Taken
<1>6. IsFiniteSet(Taken(r)) /\ Cardinality(Taken(r)) <= max
  BY <1>2, <1>4, <1>5, FirstOf
<1>7. Taken(r) \subseteq S
  BY <1>5
<1> QED
  BY <1>1, <1>2, <1>3, <1>6, <1>7

-----------------------------------------------------------------------------
(***************************************************************************)
(* Staging.  The configuration stays that of the request while there is    *)
(* one; what is staged and what is left make no more than it allows.       *)
(***************************************************************************)
Staging ==
  /\ pc # "staging" => staged = {} /\ proposed = {}
  /\ ask # None =>
       /\ cfg = ask.cfg
       /\ IsFiniteSet(staged) /\ IsFiniteSet(proposed)
       /\ Cardinality(staged) + Cardinality(proposed) <= cfg.max_rules_per_fire
       /\ \A i \in proposed : Right(text, i)
       /\ \A s \in staged : s.as = cfg.approval_mode /\ Right(text, s.line)

LEMMA StepStaging ==
  ASSUME TypeOK, TypeOK', Staging, [Next]_vars
  PROVE  Staging'
<1> USE DEF windowVars, callVars
<1>1. cfg \in Configs /\ cfg.max_rules_per_fire \in Nat
  BY AiAdvisorAssumption DEF TypeOK, AiAdvisorConfig
<1>2. IsFiniteSet({}) /\ Cardinality({}) = 0
  BY FS_EmptySet
<1>3. CASE UNCHANGED <<cfg, pc, ask, proposed, text, staged>>
  BY <1>3 DEF Staging, Right, InFence
<1>4. CASE Return
  <2>1. ask' = None /\ proposed' = {} /\ staged' = {}
    BY <1>4 DEF Return
  <2> QED
    BY <2>1 DEF Staging
<1>5. ASSUME NEW k \in PatternKey, Ask(k) PROVE Staging'
  <2>1. /\ pc' = "asking" /\ ask'.cfg = cfg /\ cfg' = cfg
        /\ staged' = staged /\ proposed' = proposed /\ text' = text
    BY <1>5 DEF Ask, Prompt
  <2>2. staged = {} /\ proposed = {}
    BY <1>5 DEF Ask, Triggers, Track, Staging
  <2> QED
    BY <1>1, <1>2, <2>1, <2>2 DEF Staging
<1>6. ASSUME NEW r \in Responses, Proposed(r) PROVE Staging'
  <2>1. /\ pc = "asking" /\ pc' = "staging" /\ text' = r /\ proposed' = Taken(r)
        /\ cfg' = cfg /\ ask' = ask /\ staged' = staged
    BY <1>6 DEF Proposed
  <2>2. staged = {} /\ ask # None /\ cfg = ask.cfg
    BY <2>1 DEF Staging, TypeOK
  <2>3. r \in Seq(Line)
    BY AiAdvisorAssumption
  <2>4. /\ Taken(r) \subseteq DOMAIN r /\ IsFiniteSet(Taken(r))
        /\ Cardinality(Taken(r)) <= cfg.max_rules_per_fire
        /\ \A i \in Taken(r) : Right(r, i)
    BY <1>1, <2>3, TakenAre
  <2>5. Cardinality(Taken(r)) \in Nat
    BY <2>4, FS_CardinalityType
  <2>6. Cardinality(staged') + Cardinality(proposed') <= cfg.max_rules_per_fire
    BY <1>2, <2>1, <2>2, <2>4, <2>5
  <2> QED
    BY <1>2, <2>1, <2>2, <2>4, <2>6 DEF Staging
<1>7. CASE Stage
  <2>1. PICK i \in proposed :
          /\ staged' \in {staged, staged \cup {[line |-> i, as |-> cfg.approval_mode]}}
          /\ proposed' = proposed \ {i}
    BY <1>7 DEF Stage
  <2>2. /\ pc = "staging" /\ pc' = pc /\ cfg' = cfg /\ ask' = ask /\ text' = text
    BY <1>7 DEF Stage
  <2>3. ask # None
    BY <2>2 DEF TypeOK
  <2>4. /\ IsFiniteSet(proposed') /\ Cardinality(proposed') = Cardinality(proposed) - 1
        /\ Cardinality(proposed) \in Nat
    BY <2>1, <2>3, FS_RemoveElement, FS_CardinalityType DEF Staging
  <2>5. PICK s : s = [line |-> i, as |-> cfg.approval_mode]
    OBVIOUS
  <2>6. /\ IsFiniteSet(staged') /\ Cardinality(staged) \in Nat
        /\ Cardinality(staged') \in {Cardinality(staged), Cardinality(staged) + 1}
    BY <2>1, <2>3, <2>5, FS_AddElement, FS_CardinalityType DEF Staging
  <2>7. Cardinality(staged') + Cardinality(proposed') <= cfg.max_rules_per_fire
    BY <1>1, <2>3, <2>4, <2>6 DEF Staging
  <2>8. \A j \in proposed' : Right(text, j)
    BY <2>1, <2>3 DEF Staging
  <2>9. \A x \in staged' : x.as = cfg.approval_mode /\ Right(text, x.line)
    <3>1. s.as = cfg.approval_mode /\ Right(text, s.line)
      BY <2>1, <2>3, <2>5 DEF Staging
    <3> QED
      BY <2>1, <2>3, <2>5, <3>1 DEF Staging
  <2>10. \A j : Right(text, j)' <=> Right(text, j)
    BY <2>2 DEF Right, InFence
  <2> QED
    BY <2>2, <2>3, <2>4, <2>6, <2>7, <2>8, <2>9, <2>10 DEF Staging
<1>8. ASSUME NEW c \in Configs, Reload(c) PROVE Staging'
  <2>1. pc = "idle" /\ ask = None /\ UNCHANGED <<pc, ask, proposed, text, staged>>
    BY <1>8 DEF Reload, TypeOK
  <2> QED
    BY <2>1 DEF Staging
<1>9. ASSUME NEW k \in PatternKey, CountOnly(k) \/ WithoutApiKey(k) PROVE Staging'
  <2>1. UNCHANGED <<cfg, pc, ask, proposed, text, staged>>
    BY <1>9 DEF CountOnly, WithoutApiKey
  <2> QED
    BY <1>3, <2>1
<1>10. CASE Tick \/ UNCHANGED vars
  BY <1>3, <1>10 DEF Tick, vars
<1>11. ASSUME NEW r \in Responses, NothingProposed(r) PROVE Staging'
  BY <1>4, <1>11 DEF NothingProposed
<1>12. CASE ProviderFails \/ Staged
  BY <1>4, <1>12 DEF ProviderFails, Staged
<1> QED
  BY <1>5, <1>6, <1>7, <1>8, <1>9, <1>10, <1>11, <1>12 DEF Next

\* Whatever a provider answers, what is staged are rules of its fenced blocks, if it
\* has any, no more than the configuration allows and in the mode it asks for
\* (extract_toml and analyze, ai_advisor/mod.rs:128-159, 320-343).
THEOREM StagesAsAsked == Spec => []StagedAsAsked
<1>1. Init => Staging
  BY DEF Init, Staging
<1>2. Spec => []TypeOK
  BY TypeCorrect
<1>3. TypeOK /\ TypeOK' /\ Staging /\ [Next]_vars => Staging'
  BY StepStaging
<1>4. TypeOK /\ Staging => StagedAsAsked
  <2> SUFFICES ASSUME TypeOK, Staging, ask # None
               PROVE  /\ Cardinality(staged) <= ask.cfg.max_rules_per_fire
                      /\ \A s \in staged :
                           /\ s.as = ask.cfg.approval_mode /\ text[s.line] = "rule"
                           /\ (\E i \in DOMAIN text : InFence(text, i)) => InFence(text, s.line)
    BY DEF StagedAsAsked
  <2>1. Cardinality(staged) \in Nat /\ Cardinality(proposed) \in Nat
    BY FS_CardinalityType DEF Staging
  <2>2. ask.cfg = cfg /\ cfg.max_rules_per_fire \in Nat
    BY AiAdvisorAssumption DEF Staging, TypeOK, AiAdvisorConfig
  <2>3. Cardinality(staged) + Cardinality(proposed) <= cfg.max_rules_per_fire
    BY DEF Staging
  <2>4. Cardinality(staged) <= ask.cfg.max_rules_per_fire
    BY <2>1, <2>2, <2>3
  <2>5. \A s \in staged : s.as = cfg.approval_mode /\ Right(text, s.line)
    BY DEF Staging
  <2>6. \A s \in staged :
          /\ text[s.line] = "rule"
          /\ (\E i \in DOMAIN text : InFence(text, i)) => InFence(text, s.line)
    BY <2>5 DEF Right
  <2> QED
    BY <2>2, <2>4, <2>5, <2>6
<1> QED
  BY <1>1, <1>2, <1>3, <1>4, PTL DEF Spec

=============================================================================
