--------------------------- MODULE EpollAlarmsProofs ---------------------------
(***************************************************************************)
(* BaseAlarm, the token of QuicEpollAlarm and the alarm map of the server  *)
(* agree, for any number of alarms, times, granularities and delays.       *)
(*                                                                         *)
(* The map is a sequence in the order of time, and the cursor of the round *)
(* points into it: the lemmas on insertion and removal say where each      *)
(* entry, and the one whose OnAlarm is running, goes.                      *)
(***************************************************************************)
EXTENDS EpollAlarms, Integers, FiniteSetTheorems, SequenceTheorems, TLAPS

\* A non-empty set of naturals has a least element.
LEMMA LeastNatural ==
  ASSUME NEW S, S \subseteq Nat, S # {}
  PROVE  \E n \in S : \A m \in S : n <= m
<1> DEFINE T == {0 .. n : n \in S}
<1>1. T \subseteq FiniteSubsetsOf(Nat)
  <2> SUFFICES ASSUME NEW n \in S PROVE 0 .. n \in FiniteSubsetsOf(Nat)
    OBVIOUS
  <2>1. IsFiniteSet(0 .. n)
    BY FS_Interval
  <2> QED
    BY <2>1 DEF FiniteSubsetsOf
<1>2. T # {}
  OBVIOUS
<1>3. \E x \in T : \A y \in T : ~ (<<y, x>> \in StrictSubsetOrdering(Nat))
  <2> HIDE DEF T
  <2> QED
    BY <1>1, <1>2, FS_StrictSubsetOrderingWellFounded, WFMin
<1>4. PICK n \in S : \A y \in T : ~ (<<y, 0 .. n>> \in StrictSubsetOrdering(Nat))
  BY <1>3
<1>5. ASSUME NEW m \in S, m < n PROVE FALSE
  <2>1. 0 .. m \in T /\ 0 .. m \subseteq 0 .. n /\ n \in 0 .. n /\ n \notin 0 .. m
    BY <1>5
  <2>2. 0 .. m \subseteq Nat /\ 0 .. n \subseteq Nat
    OBVIOUS
  <2>3. <<0 .. m, 0 .. n>> \in StrictSubsetOrdering(Nat)
    BY <2>1, <2>2 DEF StrictSubsetOrdering
  <2> QED
    BY <2>1, <2>3, <1>4
<1> QED
  BY <1>5

Entry == [at : Times, alarm : Alarms]

Servers ==
  [ map : Seq(Entry), all : SUBSET Alarms, skipped : SUBSET Repeating,
    recorded : 0 .. MaxTime, armed : BOOLEAN, cursor : Nat ]

Ordered(m) == \A i, j \in DOMAIN m : i < j => m[i].at <= m[j].at

Inserted(m, p, e) == SubSeq(m, 1, p) \o <<e>> \o SubSeq(m, p + 1, Len(m))
Removed(m, p) == SubSeq(m, 1, p - 1) \o SubSeq(m, p + 1, Len(m))

-------------------------------------------------------------------------------
(* Sequences. *)

LEMMA InsertedFacts ==
  ASSUME NEW S, NEW m \in Seq(S), NEW p \in 0 .. Len(m), NEW e \in S
  PROVE  /\ Inserted(m, p, e) \in Seq(S)
         /\ Len(Inserted(m, p, e)) = Len(m) + 1
         /\ \A i \in 1 .. (Len(m) + 1) :
              Inserted(m, p, e)[i] = IF i <= p THEN m[i] ELSE IF i = p + 1 THEN e ELSE m[i - 1]
<1>. DEFINE front == SubSeq(m, 1, p)
            back == SubSeq(m, p + 1, Len(m))
<1>1. /\ front \in Seq(S) /\ Len(front) = p
      /\ \A i \in 1 .. p : front[i] = m[i]
  <2>1. \A i \in 1 .. p : m[i] \in S
    OBVIOUS
  <2>. QED  BY <2>1, SubSeqProperties
<1>2. /\ back \in Seq(S) /\ Len(back) = Len(m) - p
      /\ \A i \in 1 .. (Len(m) - p) : back[i] = m[p + i]
  <2>1. \A i \in (p + 1) .. Len(m) : m[i] \in S
    OBVIOUS
  <2>2. /\ back \in Seq(S)
        /\ Len(back) = IF p + 1 <= Len(m) THEN Len(m) - (p + 1) + 1 ELSE 0
        /\ \A i \in 1 .. (Len(m) - (p + 1) + 1) : back[i] = m[p + 1 + i - 1]
    BY <2>1, SubSeqProperties
  <2>. HIDE DEF back
  <2>. QED  BY <2>2
<1>3. Inserted(m, p, e) = front \o <<e>> \o back
  BY DEF Inserted
<1>. HIDE DEF front, back
<1>4. /\ front \o <<e>> \in Seq(S) /\ Len(front \o <<e>>) = p + 1
      /\ \A i \in 1 .. (p + 1) : (front \o <<e>>)[i] = IF i <= p THEN m[i] ELSE e
  BY <1>1
<1>. DEFINE f == front \o <<e>>
<1>. HIDE DEF f
<1>5. /\ f \o back \in Seq(S) /\ Len(f \o back) = Len(m) + 1
      /\ \A i \in 1 .. (Len(m) + 1) :
           (f \o back)[i] = IF i <= p + 1 THEN f[i] ELSE back[i - (p + 1)]
  BY <1>2, <1>4 DEF f
<1>6. \A i \in (p + 2) .. (Len(m) + 1) : back[i - (p + 1)] = m[i - 1]
  <2>1. TAKE i \in (p + 2) .. (Len(m) + 1)
  <2>2. i - (p + 1) \in 1 .. (Len(m) - p) /\ p + (i - (p + 1)) = i - 1
    OBVIOUS
  <2>. QED  BY <1>2, <2>2
<1>. QED  BY <1>3, <1>4, <1>5, <1>6 DEF f

LEMMA RemovedFacts ==
  ASSUME NEW S, NEW m \in Seq(S), NEW p \in 1 .. Len(m)
  PROVE  /\ Removed(m, p) \in Seq(S)
         /\ Len(Removed(m, p)) = Len(m) - 1
         /\ \A i \in 1 .. (Len(m) - 1) :
              Removed(m, p)[i] = IF i < p THEN m[i] ELSE m[i + 1]
<1>. DEFINE front == SubSeq(m, 1, p - 1)
            back == SubSeq(m, p + 1, Len(m))
<1>1. /\ front \in Seq(S) /\ Len(front) = p - 1
      /\ \A i \in 1 .. (p - 1) : front[i] = m[i]
  <2>1. \A i \in 1 .. (p - 1) : m[i] \in S
    OBVIOUS
  <2>2. /\ front \in Seq(S)
        /\ Len(front) = IF 1 <= p - 1 THEN p - 1 - 1 + 1 ELSE 0
        /\ \A i \in 1 .. (p - 1 - 1 + 1) : front[i] = m[1 + i - 1]
    BY <2>1, SubSeqProperties
  <2>. HIDE DEF front
  <2>. QED  BY <2>2
<1>2. /\ back \in Seq(S) /\ Len(back) = Len(m) - p
      /\ \A i \in 1 .. (Len(m) - p) : back[i] = m[p + i]
  <2>1. \A i \in (p + 1) .. Len(m) : m[i] \in S
    OBVIOUS
  <2>2. /\ back \in Seq(S)
        /\ Len(back) = IF p + 1 <= Len(m) THEN Len(m) - (p + 1) + 1 ELSE 0
        /\ \A i \in 1 .. (Len(m) - (p + 1) + 1) : back[i] = m[p + 1 + i - 1]
    BY <2>1, SubSeqProperties
  <2>. HIDE DEF back
  <2>. QED  BY <2>2
<1>3. Removed(m, p) = front \o back
  BY DEF Removed
<1>. HIDE DEF front, back
<1>4. /\ front \o back \in Seq(S) /\ Len(front \o back) = Len(m) - 1
      /\ \A i \in 1 .. (Len(m) - 1) :
           (front \o back)[i] = IF i <= p - 1 THEN front[i] ELSE back[i - (p - 1)]
  <2>0. front \in Seq(S) /\ back \in Seq(S)
    BY <1>1, <1>2
  <2>1. front \o back \in Seq(S) /\ Len(front \o back) = Len(front) + Len(back)
    BY <2>0, ConcatProperties
  <2>2. \A i \in 1 .. (Len(front) + Len(back)) :
          (front \o back)[i] = IF i <= Len(front) THEN front[i] ELSE back[i - Len(front)]
    BY <1>1, <1>2
  <2>. QED  BY <1>1, <1>2, <2>1, <2>2
<1>5. \A i \in p .. (Len(m) - 1) : back[i - (p - 1)] = m[i + 1]
  <2>1. TAKE i \in p .. (Len(m) - 1)
  <2>2. i - (p - 1) \in 1 .. (Len(m) - p) /\ p + (i - (p - 1)) = i + 1
    OBVIOUS
  <2>. QED  BY <1>2, <2>2
<1>6. \A i \in 1 .. (Len(m) - 1) : (front \o back)[i] = IF i < p THEN m[i] ELSE m[i + 1]
  <2>1. TAKE i \in 1 .. (Len(m) - 1)
  <2>2. CASE i < p
    <3>1. i <= p - 1 /\ i \in 1 .. (p - 1)
      BY <2>2
    <3>. QED  BY <1>1, <1>4, <2>2, <3>1
  <2>3. CASE ~ (i < p)
    <3>1. ~ (i <= p - 1) /\ i \in p .. (Len(m) - 1)
      BY <2>3
    <3>. QED  BY <1>4, <1>5, <2>3, <3>1
  <2>. QED  BY <2>2, <2>3
<1>. QED  BY <1>3, <1>4, <1>6

\* Where Insert puts an entry of time t.
LEMMA PositionFacts ==
  ASSUME NEW m \in Seq(Entry), Ordered(m), NEW t \in Times
  PROVE  LET p == Cardinality({i \in DOMAIN m : m[i].at <= t}) IN
         /\ p \in 0 .. Len(m)
         /\ \A i \in 1 .. Len(m) : m[i].at <= t <=> i <= p
<1>. DEFINE early == {i \in DOMAIN m : m[i].at <= t}
<1>1. DOMAIN m = 1 .. Len(m) /\ Len(m) \in Nat
  OBVIOUS
<1>2. PICK q \in 0 .. Len(m) : early = 1 .. q
  <2>1. CASE early = {}
    <3>1. 0 \in 0 .. Len(m) /\ early = 1 .. 0
      BY <1>1, <2>1
    <3>. QED  BY <3>1
  <2>2. CASE early # {}
    <3>. DEFINE late == {i \in 1 .. Len(m) : i \notin early}
    <3>1. CASE late = {}
      <4>1. early = 1 .. Len(m)
        BY <1>1, <3>1
      <4>. QED  BY <1>1, <4>1
    <3>2. CASE late # {}
      <4>1. PICK n \in late : \A k \in late : n <= k
        <5>1. late \subseteq Nat
          BY <1>1
        <5>. HIDE DEF late
        <5>. QED  BY <3>2, <5>1, LeastNatural
      <4>2. n - 1 \in 0 .. Len(m)
        BY <1>1, <4>1
      <4>3. \A i \in 1 .. (n - 1) : i \in early
        BY <1>1, <4>1
      <4>4. \A i \in early : i < n
        <5>1. SUFFICES ASSUME NEW i \in early, i >= n  PROVE FALSE
          BY <1>1, <4>1
        <5>2. i # n /\ m[i].at <= t /\ i \in 1 .. Len(m)
          BY <1>1, <4>1
        <5>3. m[n].at <= m[i].at
          BY <1>1, <4>1, <5>1, <5>2 DEF Ordered
        <5>4. m[n] \in Entry /\ m[i] \in Entry
          BY <1>1, <4>1, <5>2
        <5>5. m[n].at <= t
          BY <5>2, <5>3, <5>4, AlarmAssumption DEF Entry, Times
        <5>. QED  BY <1>1, <4>1, <5>5
      <4>5. early = 1 .. (n - 1)
        BY <1>1, <4>1, <4>3, <4>4
      <4>. QED  BY <4>2, <4>5
    <3>. QED  BY <3>1, <3>2
  <2>. QED  BY <2>1, <2>2
<1>3. Cardinality(early) = q
  <2>1. Cardinality(1 .. q) = IF 1 > q THEN 0 ELSE q - 1 + 1
    BY FS_Interval
  <2>2. Cardinality(1 .. q) = q
    BY <1>1, <1>2, <2>1
  <2>. HIDE DEF early
  <2>. QED  BY <1>2, <2>2
<1>4. \A i \in 1 .. Len(m) : m[i].at <= t <=> i <= q
  BY <1>1, <1>2
<1>. QED  BY <1>2, <1>3, <1>4

-------------------------------------------------------------------------------
(* Entries. *)

\* The entries of alarm a in the map m, without the one at c.
Of(m, c, a) == {i \in DOMAIN m : m[i].alarm = a /\ i # c}

\* Where the entry at i goes when one is inserted behind p, or the one at p removed.
Pushed(p, i) == IF i <= p THEN i ELSE i + 1
Pulled(p, i) == IF i < p THEN i ELSE i - 1

LEMMA InsertedKeeps ==
  ASSUME NEW m \in Seq(Entry), NEW p \in 0 .. Len(m), NEW a \in Alarms, NEW t \in Times,
         NEW c \in 1 .. Len(m)
  PROVE  LET n == Inserted(m, p, [at |-> t, alarm |-> a]) IN
         Pushed(p, c) \in 1 .. Len(n) /\ n[Pushed(p, c)] = m[c]
<1>. DEFINE e == [at |-> t, alarm |-> a]
            n == Inserted(m, p, e)
<1>1. e \in Entry
  BY DEF Entry
<1>2. /\ Len(n) = Len(m) + 1 /\ Len(m) \in Nat
      /\ \A i \in 1 .. (Len(m) + 1) :
           n[i] = IF i <= p THEN m[i] ELSE IF i = p + 1 THEN e ELSE m[i - 1]
  BY <1>1, InsertedFacts, SMTT(30)
<1>. HIDE DEF n, e
<1>3. Pushed(p, c) \in 1 .. Len(n) /\ n[Pushed(p, c)] = m[c]
  BY <1>2 DEF Pushed
<1>. QED  BY <1>3 DEF n, e

LEMMA OrderedInserted ==
  ASSUME NEW m \in Seq(Entry), Ordered(m), NEW a \in Alarms, NEW t \in Times,
         NEW p \in 0 .. Len(m), \A i \in 1 .. Len(m) : m[i].at <= t <=> i <= p
  PROVE  Ordered(Inserted(m, p, [at |-> t, alarm |-> a]))
<1>. DEFINE e == [at |-> t, alarm |-> a]
            n == Inserted(m, p, e)
<1>1. e \in Entry
  BY DEF Entry
<1>2. /\ n \in Seq(Entry) /\ Len(n) = Len(m) + 1
      /\ \A i \in 1 .. (Len(m) + 1) :
           n[i] = IF i <= p THEN m[i] ELSE IF i = p + 1 THEN e ELSE m[i - 1]
  BY <1>1, InsertedFacts
<1>3. \A i \in 1 .. Len(m) : m[i].at \in Int
  <2>1. \A i \in 1 .. Len(m) : m[i] \in Entry
    OBVIOUS
  <2>. QED  BY <2>1, AlarmAssumption DEF Entry, Times
<1>4. t \in Int /\ e.at = t
  BY AlarmAssumption DEF Times
<1>. HIDE DEF n, e
<1>5. ASSUME NEW i \in 1 .. (Len(m) + 1), NEW j \in 1 .. (Len(m) + 1), i < j
      PROVE  n[i].at <= n[j].at
  <2>1. \A x, y \in 1 .. Len(m) : x < y => m[x].at <= m[y].at
    BY DEF Ordered
  <2>2. CASE j <= p
    BY <1>2, <1>5, <2>1, <2>2
  <2>3. CASE j = p + 1
    <3>1. i <= p /\ i \in 1 .. Len(m)
      BY <1>5, <2>3
    <3>. QED  BY <1>2, <1>4, <2>3, <3>1
  <2>4. CASE j > p + 1
    <3>1. j - 1 \in 1 .. Len(m) /\ ~ (j - 1 <= p)
      BY <2>4
    <3>2. n[j] = m[j - 1]
      BY <1>2, <2>4
    <3>3. CASE i <= p
      <4>1. i \in 1 .. Len(m) /\ i < j - 1 /\ n[i] = m[i]
        BY <1>2, <2>4, <3>3
      <4>. QED  BY <2>1, <3>1, <3>2, <4>1
    <3>4. CASE i = p + 1
      <4>1. n[i].at = t
        <5>1. p + 1 \in 1 .. (Len(m) + 1) /\ ~ (p + 1 <= p)
          OBVIOUS
        <5>2. n[p + 1] = e
          BY <1>2, <5>1
        <5>. QED  BY <1>4, <3>4, <5>2
      <4>2. ~ (m[j - 1].at <= t)
        BY <3>1
      <4>. QED  BY <1>3, <1>4, <3>1, <3>2, <4>1, <4>2
    <3>5. CASE i > p + 1
      <4>1. i - 1 \in 1 .. Len(m) /\ i - 1 < j - 1 /\ n[i] = m[i - 1]
        BY <1>2, <1>5, <3>5
      <4>. QED  BY <2>1, <3>1, <3>2, <4>1
    <3>. QED  BY <3>3, <3>4, <3>5
  <2>. QED  BY <2>2, <2>3, <2>4
<1>. QED  BY <1>2, <1>5 DEF Ordered, n, e

LEMMA OrderedRemoved ==
  ASSUME NEW m \in Seq(Entry), Ordered(m), NEW p \in 1 .. Len(m)
  PROVE  Ordered(Removed(m, p))
<1>. DEFINE n == Removed(m, p)
<1>1. /\ n \in Seq(Entry) /\ Len(n) = Len(m) - 1
      /\ \A i \in 1 .. (Len(m) - 1) : n[i] = IF i < p THEN m[i] ELSE m[i + 1]
  BY RemovedFacts
<1>2. \A x, y \in 1 .. Len(m) : x < y => m[x].at <= m[y].at
  BY DEF Ordered
<1>. HIDE DEF n
<1>3. ASSUME NEW i \in 1 .. (Len(m) - 1), NEW j \in 1 .. (Len(m) - 1), i < j
      PROVE  n[i].at <= n[j].at
  <2>1. PICK x \in 1 .. Len(m) : n[i] = m[x] /\ x = IF i < p THEN i ELSE i + 1
    BY <1>1
  <2>2. PICK y \in 1 .. Len(m) : n[j] = m[y] /\ y = IF j < p THEN j ELSE j + 1
    BY <1>1
  <2>3. x < y
    BY <1>3, <2>1, <2>2
  <2>. QED  BY <1>2, <2>1, <2>2, <2>3
<1>. QED  BY <1>1, <1>3 DEF Ordered, n

LEMMA OfInserted ==
  ASSUME NEW m \in Seq(Entry), NEW p \in 0 .. Len(m), NEW a \in Alarms, NEW t \in Times,
         NEW c \in Nat, NEW x \in Alarms
  PROVE  Of(Inserted(m, p, [at |-> t, alarm |-> a]), Pushed(p, c), x)
           = {Pushed(p, i) : i \in Of(m, c, x)} \cup (IF x = a THEN {p + 1} ELSE {})
<1>. DEFINE e == [at |-> t, alarm |-> a]
            n == Inserted(m, p, e)
            d == Pushed(p, c)
<1>1. e \in Entry /\ e.alarm = a
  BY DEF Entry
<1>2. /\ DOMAIN n = 1 .. (Len(m) + 1) /\ DOMAIN m = 1 .. Len(m) /\ Len(m) \in Nat
      /\ \A i \in 1 .. (Len(m) + 1) :
           n[i] = IF i <= p THEN m[i] ELSE IF i = p + 1 THEN e ELSE m[i - 1]
  BY <1>1, InsertedFacts
<1>. HIDE DEF n, e
<1>3. ASSUME NEW j \in Of(n, d, x)
      PROVE  j \in {Pushed(p, i) : i \in Of(m, c, x)} \cup (IF x = a THEN {p + 1} ELSE {})
  <2>1. j \in 1 .. (Len(m) + 1) /\ n[j].alarm = x /\ j # d
    BY <1>2 DEF Of
  <2>2. CASE j <= p
    <3>1. j \in Of(m, c, x)
      BY <1>2, <2>1, <2>2 DEF Of, Pushed
    <3>2. Pushed(p, j) = j
      BY <2>2 DEF Pushed
    <3>. QED  BY <3>1, <3>2
  <2>3. CASE j = p + 1
    BY <1>1, <1>2, <2>1, <2>3
  <2>4. CASE j > p + 1
    <3>1. j - 1 \in Of(m, c, x)
      <4>1. j - 1 \in 1 .. Len(m) /\ ~ (j <= p) /\ j # p + 1
        BY <1>2, <2>1, <2>4
      <4>2. m[j - 1].alarm = x
        BY <1>2, <2>1, <4>1
      <4>3. j - 1 # c
        BY <1>2, <2>1, <2>4 DEF Pushed
      <4>. QED  BY <1>2, <4>1, <4>2, <4>3 DEF Of
    <3>2. Pushed(p, j - 1) = j
      BY <2>1, <2>4 DEF Pushed
    <3>. QED  BY <3>1, <3>2
  <2>. QED  BY <2>1, <2>2, <2>3, <2>4
<1>4. ASSUME NEW i \in Of(m, c, x)  PROVE Pushed(p, i) \in Of(n, d, x)
  <2>1. i \in 1 .. Len(m) /\ m[i].alarm = x /\ i # c
    BY <1>2 DEF Of
  <2>. QED  BY <1>2, <2>1 DEF Of, Pushed
<1>5. x = a => p + 1 \in Of(n, d, x)
  BY <1>1, <1>2 DEF Of, Pushed
<1>. QED  BY <1>3, <1>4, <1>5 DEF n, e

LEMMA OfRemoved ==
  ASSUME NEW m \in Seq(Entry), NEW p \in 1 .. Len(m), NEW c \in Nat, NEW d \in Nat,
         d = (IF c = p THEN 0 ELSE Pulled(p, c)), NEW x \in Alarms
  PROVE  Of(Removed(m, p), d, x) = {Pulled(p, i) : i \in Of(m, c, x) \ {p}}
<1>. DEFINE n == Removed(m, p)
<1>1. /\ DOMAIN n = 1 .. (Len(m) - 1) /\ DOMAIN m = 1 .. Len(m) /\ Len(m) \in Nat
      /\ \A i \in 1 .. (Len(m) - 1) : n[i] = IF i < p THEN m[i] ELSE m[i + 1]
  BY RemovedFacts
<1>. HIDE DEF n
<1>2. ASSUME NEW j \in Of(n, d, x)  PROVE j \in {Pulled(p, i) : i \in Of(m, c, x) \ {p}}
  <2>1. j \in 1 .. (Len(m) - 1) /\ n[j].alarm = x /\ j # d
    BY <1>1 DEF Of
  <2>2. CASE j < p
    <3>1. j \in Of(m, c, x) \ {p}
      BY <1>1, <2>1, <2>2 DEF Of, Pulled
    <3>2. Pulled(p, j) = j
      BY <2>2 DEF Pulled
    <3>. QED  BY <3>1, <3>2
  <2>3. CASE ~ (j < p)
    <3>1. j + 1 \in Of(m, c, x) \ {p}
      <4>1. j + 1 \in 1 .. Len(m) /\ j + 1 # p
        BY <1>1, <2>1, <2>3
      <4>2. m[j + 1].alarm = x
        BY <1>1, <2>1, <2>3
      <4>3. j + 1 # c
        BY <1>1, <2>1, <2>3 DEF Pulled
      <4>. QED  BY <1>1, <4>1, <4>2, <4>3 DEF Of
    <3>2. Pulled(p, j + 1) = j
      BY <2>1, <2>3 DEF Pulled
    <3>. QED  BY <3>1, <3>2
  <2>. QED  BY <2>2, <2>3
<1>3. ASSUME NEW i \in Of(m, c, x) \ {p}  PROVE Pulled(p, i) \in Of(n, d, x)
  <2>1. i \in 1 .. Len(m) /\ m[i].alarm = x /\ i # c /\ i # p
    BY <1>1 DEF Of
  <2>. QED  BY <1>1, <2>1 DEF Of, Pulled
<1>. QED  BY <1>2, <1>3 DEF n

\* Every registered alarm has one entry, at its deadline if it is a BaseAlarm, and no
\* other alarm has any, besides the entry at c.
Slots(m, c, reg, dl) ==
  \A a \in Alarms :
    /\ ~ reg[a] => Of(m, c, a) = {}
    /\ reg[a] => \E i \in DOMAIN m : Of(m, c, a) = {i} /\ (a \in BaseAlarms => m[i].at = dl[a])

Registrations == [Alarms -> BOOLEAN]

LEMMA SlotsInserted ==
  ASSUME NEW m \in Seq(Entry), NEW p \in 0 .. Len(m), NEW a \in Alarms, NEW t \in Times,
         NEW c \in Nat, NEW reg \in Registrations, ~ reg[a], NEW dl, NEW dl2,
         Slots(m, c, reg, dl), \A x \in Alarms \ {a} : dl2[x] = dl[x],
         a \in BaseAlarms => dl2[a] = t
  PROVE  Slots(Inserted(m, p, [at |-> t, alarm |-> a]), Pushed(p, c), [reg EXCEPT ![a] = TRUE], dl2)
<1>. DEFINE e == [at |-> t, alarm |-> a]
            n == Inserted(m, p, e)
            d == Pushed(p, c)
            reg2 == [reg EXCEPT ![a] = TRUE]
<1>1. e \in Entry /\ e.at = t
  BY DEF Entry
<1>2. /\ DOMAIN n = 1 .. (Len(m) + 1) /\ DOMAIN m = 1 .. Len(m) /\ Len(m) \in Nat
      /\ \A i \in 1 .. (Len(m) + 1) :
           n[i] = IF i <= p THEN m[i] ELSE IF i = p + 1 THEN e ELSE m[i - 1]
  BY <1>1, InsertedFacts
<1>3. \A x \in Alarms : Of(n, d, x) = {Pushed(p, i) : i \in Of(m, c, x)} \cup (IF x = a THEN {p + 1} ELSE {})
  BY OfInserted
<1>4. \A i \in 1 .. Len(m) : Pushed(p, i) \in 1 .. (Len(m) + 1) /\ n[Pushed(p, i)] = m[i]
  BY <1>2 DEF Pushed
<1>5. n[p + 1] = e /\ p + 1 \in DOMAIN n
  BY <1>2
<1>6. \A x \in Alarms : reg2[x] = IF x = a THEN TRUE ELSE reg[x]
  BY DEF Registrations
<1>. HIDE DEF n, d, e, reg2
<1>7. ASSUME NEW x \in Alarms, x # a
      PROVE  /\ ~ reg2[x] => Of(n, d, x) = {}
             /\ reg2[x] => \E i \in DOMAIN n : Of(n, d, x) = {i} /\ (x \in BaseAlarms => n[i].at = dl2[x])
  <2>1. CASE reg[x]
    <3>1. PICK i \in DOMAIN m : Of(m, c, x) = {i} /\ (x \in BaseAlarms => m[i].at = dl[x])
      BY <2>1 DEF Slots
    <3>2. Of(n, d, x) = {Pushed(p, i)}
      BY <1>3, <1>7, <3>1
    <3>3. Pushed(p, i) \in DOMAIN n /\ n[Pushed(p, i)] = m[i] /\ dl2[x] = dl[x]
      BY <1>2, <1>4, <1>7, <3>1
    <3>. QED  BY <1>6, <1>7, <2>1, <3>1, <3>2, <3>3
  <2>2. CASE ~ reg[x]
    <3>1. Of(m, c, x) = {}
      BY <2>2 DEF Slots
    <3>. QED  BY <1>3, <1>6, <1>7, <2>2, <3>1
  <2>. QED  BY <2>1, <2>2
<1>8. /\ ~ reg2[a] => Of(n, d, a) = {}
      /\ reg2[a] => \E i \in DOMAIN n : Of(n, d, a) = {i} /\ (a \in BaseAlarms => n[i].at = dl2[a])
  <2>1. Of(m, c, a) = {}
    BY DEF Slots
  <2>2. Of(n, d, a) = {p + 1}
    BY <1>3, <2>1
  <2>. QED  BY <1>1, <1>5, <1>6, <2>2
<1>9. Slots(n, d, reg2, dl2)
  BY <1>7, <1>8 DEF Slots
<1>. QED  BY <1>9 DEF n, d, e, reg2

LEMMA SlotsRemoved ==
  ASSUME NEW m \in Seq(Entry), NEW p \in 1 .. Len(m), NEW c \in Nat, NEW d \in Nat,
         d = (IF c = p THEN 0 ELSE Pulled(p, c)),
         NEW reg \in Registrations, NEW reg2 \in Registrations, NEW dl, NEW dl2,
         Slots(m, c, reg, dl),
         \A x \in Alarms : \/ p \notin Of(m, c, x) /\ reg2[x] = reg[x] /\ dl2[x] = dl[x]
                           \/ Of(m, c, x) = {p} /\ ~ reg2[x]
  PROVE  Slots(Removed(m, p), d, reg2, dl2)
<1>. DEFINE n == Removed(m, p)
<1>1. /\ DOMAIN n = 1 .. (Len(m) - 1) /\ DOMAIN m = 1 .. Len(m) /\ Len(m) \in Nat
      /\ \A i \in 1 .. (Len(m) - 1) : n[i] = IF i < p THEN m[i] ELSE m[i + 1]
  BY RemovedFacts
<1>2. \A x \in Alarms : Of(n, d, x) = {Pulled(p, i) : i \in Of(m, c, x) \ {p}}
  BY OfRemoved
<1>3. \A i \in 1 .. Len(m) : i # p => Pulled(p, i) \in 1 .. (Len(m) - 1) /\ n[Pulled(p, i)] = m[i]
  BY <1>1 DEF Pulled
<1>. HIDE DEF n
<1>4. ASSUME NEW x \in Alarms
      PROVE  /\ ~ reg2[x] => Of(n, d, x) = {}
             /\ reg2[x] => \E i \in DOMAIN n : Of(n, d, x) = {i} /\ (x \in BaseAlarms => n[i].at = dl2[x])
  <2>1. CASE Of(m, c, x) = {p} /\ ~ reg2[x]
    <3>1. Of(m, c, x) \ {p} = {}
      BY <2>1
    <3>. QED  BY <1>2, <2>1, <3>1
  <2>2. CASE p \notin Of(m, c, x) /\ reg2[x] = reg[x] /\ dl2[x] = dl[x]
    <3>1. CASE reg[x]
      <4>1. PICK i \in DOMAIN m : Of(m, c, x) = {i} /\ (x \in BaseAlarms => m[i].at = dl[x])
        BY <3>1 DEF Slots
      <4>2. Of(m, c, x) \ {p} = {i} /\ i # p
        BY <2>2, <4>1
      <4>3. Of(n, d, x) = {Pulled(p, i)}
        BY <1>2, <4>2
      <4>4. Pulled(p, i) \in DOMAIN n /\ n[Pulled(p, i)] = m[i]
        BY <1>1, <1>3, <4>1, <4>2
      <4>. QED  BY <2>2, <3>1, <4>1, <4>3, <4>4
    <3>2. CASE ~ reg[x]
      <4>1. Of(m, c, x) = {}
        BY <3>2 DEF Slots
      <4>. QED  BY <1>2, <2>2, <3>2, <4>1
    <3>. QED  BY <3>1, <3>2
  <2>. QED  BY <2>1, <2>2
<1>. QED  BY <1>4 DEF Slots, n

\* Only the alarm of an entry has it.
LEMMA OfOwner ==
  ASSUME NEW m, NEW c, NEW x, NEW y, NEW i, i \in Of(m, c, x), i \in Of(m, c, y)
  PROVE  x = y
  BY DEF Of

\* The entry at c begins to fire.
LEMMA SlotsFired ==
  ASSUME NEW m \in Seq(Entry), NEW c \in 1 .. Len(m), NEW reg \in Registrations,
         NEW dl, NEW dl2, Slots(m, 0, reg, dl),
         \A x \in Alarms \ {m[c].alarm} : dl2[x] = dl[x]
  PROVE  /\ m[c].alarm \in Alarms /\ reg[m[c].alarm]
         /\ m[c].alarm \in BaseAlarms => m[c].at = dl[m[c].alarm]
         /\ Slots(m, c, [reg EXCEPT ![m[c].alarm] = FALSE], dl2)
<1>. DEFINE a == m[c].alarm
            reg2 == [reg EXCEPT ![a] = FALSE]
<1>1. a \in Alarms /\ DOMAIN m = 1 .. Len(m)
  <2>1. m[c] \in Entry
    OBVIOUS
  <2>. QED  BY <2>1 DEF Entry
<1>2. c \in Of(m, 0, a)
  BY <1>1 DEF Of
<1>. HIDE DEF a
<1>3. reg[a] /\ Of(m, 0, a) = {c} /\ (a \in BaseAlarms => m[c].at = dl[a])
  BY <1>1, <1>2 DEF Slots
<1>4. \A x \in Alarms : Of(m, c, x) = IF x = a THEN {} ELSE Of(m, 0, x)
  BY <1>1, <1>3 DEF Of, a
<1>5. \A x \in Alarms : reg2[x] = IF x = a THEN FALSE ELSE reg[x]
  BY <1>1 DEF Registrations
<1>. HIDE DEF reg2
<1>6. Slots(m, c, reg2, dl2)
  <2>1. ASSUME NEW x \in Alarms
        PROVE  /\ ~ reg2[x] => Of(m, c, x) = {}
               /\ reg2[x] => \E i \in DOMAIN m : Of(m, c, x) = {i} /\ (x \in BaseAlarms => m[i].at = dl2[x])
    <3>1. CASE x = a
      BY <1>4, <1>5, <3>1
    <3>2. CASE x # a
      <4>1. Of(m, c, x) = Of(m, 0, x) /\ reg2[x] = reg[x] /\ dl2[x] = dl[x]
        BY <1>4, <1>5, <3>2 DEF a
      <4>. QED  BY <4>1 DEF Slots
    <3>. QED  BY <3>1, <3>2
  <2>. QED  BY <2>1 DEF Slots
<1>. QED  BY <1>1, <1>3, <1>6 DEF a, reg2

-------------------------------------------------------------------------------
(* The server. *)

LEMMA InsertFacts ==
  ASSUME NEW s \in Servers, Ordered(s.map), NEW a \in Alarms, NEW t \in Times
  PROVE  \E p \in 0 .. Len(s.map) :
           LET d == Insert(s, t, a) IN
           /\ d \in Servers /\ Ordered(d.map)
           /\ d.map = Inserted(s.map, p, [at |-> t, alarm |-> a])
           /\ d.cursor = IF loop = "alarms" /\ p < s.cursor THEN s.cursor + 1 ELSE s.cursor
           /\ d.all = s.all /\ d.skipped = s.skipped
<1>. DEFINE m == s.map
            p == Cardinality({i \in DOMAIN m : m[i].at <= t})
            e == [at |-> t, alarm |-> a]
            n == Inserted(m, p, e)
            c == IF loop = "alarms" /\ p < s.cursor THEN s.cursor + 1 ELSE s.cursor
            d == [s EXCEPT !.map = n, !.cursor = c]
<1>1. m \in Seq(Entry) /\ s.cursor \in Nat /\ e \in Entry
  BY DEF Servers, Entry
<1>2. p \in 0 .. Len(m) /\ \A i \in 1 .. Len(m) : m[i].at <= t <=> i <= p
  BY <1>1, PositionFacts
<1>3. Insert(s, t, a) = d
  BY DEF Insert, Inserted, Servers
<1>. HIDE DEF p
<1>4. n \in Seq(Entry) /\ Ordered(n)
  BY <1>1, <1>2, InsertedFacts, OrderedInserted
<1>5. c \in Nat
  BY <1>1
<1>. HIDE DEF n, c
<1>6. d \in Servers /\ d.map = n /\ d.cursor = c /\ d.all = s.all /\ d.skipped = s.skipped
  BY <1>4, <1>5 DEF Servers
<1>. QED  BY <1>2, <1>3, <1>4, <1>6 DEF n, c

LEMMA EraseFacts ==
  ASSUME NEW s \in Servers, Ordered(s.map), NEW p \in 1 .. Len(s.map)
  PROVE  LET d == Erase(s, p) IN
         /\ d \in Servers /\ Ordered(d.map)
         /\ d.map = Removed(s.map, p)
         /\ d.cursor = IF loop = "alarms" /\ p < s.cursor THEN s.cursor - 1 ELSE s.cursor
         /\ d.all = s.all /\ d.skipped = s.skipped /\ d.recorded = s.recorded
<1>. DEFINE n == Removed(s.map, p)
            c == IF loop = "alarms" /\ p < s.cursor THEN s.cursor - 1 ELSE s.cursor
            d == [s EXCEPT !.map = n, !.cursor = c]
<1>1. s.map \in Seq(Entry) /\ s.cursor \in Nat
  BY DEF Servers
<1>2. Erase(s, p) = d
  BY DEF Erase, Removed, Servers
<1>3. n \in Seq(Entry) /\ Ordered(n)
  BY <1>1, RemovedFacts, OrderedRemoved
<1>4. c \in Nat
  BY <1>1
<1>. HIDE DEF n, c
<1>5. /\ d \in Servers /\ d.map = n /\ d.cursor = c /\ d.all = s.all /\ d.skipped = s.skipped
      /\ d.recorded = s.recorded
  BY <1>3, <1>4 DEF Servers
<1>. QED  BY <1>2, <1>3, <1>5 DEF n, c

-------------------------------------------------------------------------------
(* The invariant. *)

\* The entry whose OnAlarm is running; 0 when none is.
Running == IF firing THEN eps.cursor ELSE 0

\* The cursor is in the map or behind it, and only during a round; an alarm whose
\* OnAlarm returns the next time is not registered by anyone else while it runs.
RoundInv ==
  /\ loop \in {"idle", "events", "alarms"} /\ firing \in BOOLEAN
  /\ loop = "alarms" => eps.cursor \in 1 .. (Len(eps.map) + 1)
  /\ loop # "alarms" => eps.cursor = 0 /\ ~ firing
  /\ firing => eps.cursor <= Len(eps.map) /\ (AtCursor \in Repeating => ~ registered[AtCursor])

AlarmsInv ==
  /\ eps \in Servers /\ Ordered(eps.map)
  /\ registered \in Registrations /\ deadline \in [Alarms -> 0 .. MaxTime]
  /\ eps.all = {a \in Alarms : registered[a]}
  /\ Slots(eps.map, Running, registered, deadline)
  /\ \A a \in BaseAlarms : registered[a] <=> IsSet(a)

IInv == clock \in Times /\ AlarmsInv /\ RoundInv

LEMMA EntriesAreSlots ==
  ASSUME IInv, NEW a
  PROVE  Entries(a) = Of(eps.map, Running, a)
<1>1. DOMAIN eps.map = 1 .. Len(eps.map)
  BY DEF IInv, AlarmsInv, Servers
<1>2. \A i \in DOMAIN eps.map : (firing /\ i = eps.cursor) <=> i = Running
  BY <1>1 DEF Running, IInv, RoundInv
<1>. QED  BY <1>2 DEF Entries, Of

LEMMA TokenFacts ==
  ASSUME IInv, NEW a \in Alarms, registered[a]
  PROVE  Token(a) \in 1 .. Len(eps.map) /\ Of(eps.map, Running, a) = {Token(a)}
<1>1. PICK i \in DOMAIN eps.map : Of(eps.map, Running, a) = {i}
  BY DEF IInv, AlarmsInv, Slots
<1>2. Entries(a) = {i}
  BY <1>1, EntriesAreSlots
<1>3. Token(a) = i
  BY <1>2 DEF Token
<1>4. DOMAIN eps.map = 1 .. Len(eps.map)
  BY DEF IInv, AlarmsInv, Servers
<1>. QED  BY <1>1, <1>3, <1>4

\* While the program runs, the cursor is at the running alarm.
LEMMA CursorIsRunning ==
  ASSUME IInv, ProgramRuns
  PROVE  /\ Running = eps.cursor /\ Running \in Nat
         /\ loop = "alarms" \/ eps.cursor = 0
         /\ firing => eps.cursor \in 1 .. Len(eps.map)
         /\ ~ firing => eps.cursor = 0
  BY DEF IInv, RoundInv, AlarmsInv, Servers, Running, ProgramRuns

-------------------------------------------------------------------------------
(* Calls of the program. *)

\* A server in the middle of a call: no entry but the one at its cursor is running.
Steady(s, reg, dl) ==
  /\ s \in Servers /\ Ordered(s.map) /\ reg \in Registrations
  /\ s.cursor \in 0 .. Len(s.map) /\ (loop = "alarms" \/ s.cursor = 0)
  /\ Slots(s.map, s.cursor, reg, dl)

\* The running entry stays at the cursor.
SameRunning(s, d) ==
  /\ s.cursor = 0 <=> d.cursor = 0
  /\ s.cursor # 0 => d.map[d.cursor] = s.map[s.cursor]

LEMMA InsertSteady ==
  ASSUME NEW s, NEW reg, NEW dl, NEW dl2, Steady(s, reg, dl), NEW a \in Alarms, NEW t \in Times,
         ~ reg[a], \A x \in Alarms \ {a} : dl2[x] = dl[x], a \in BaseAlarms => dl2[a] = t
  PROVE  LET d == Insert(s, t, a) IN
         /\ Steady(d, [reg EXCEPT ![a] = TRUE], dl2)
         /\ SameRunning(s, d) /\ d.all = s.all /\ d.skipped = s.skipped
<1>. DEFINE d == Insert(s, t, a)
            c == s.cursor
            reg2 == [reg EXCEPT ![a] = TRUE]
<1>1. /\ s \in Servers /\ Ordered(s.map) /\ reg \in Registrations /\ s.map \in Seq(Entry)
      /\ Len(s.map) \in Nat /\ c \in 0 .. Len(s.map) /\ (loop = "alarms" \/ c = 0)
      /\ Slots(s.map, c, reg, dl)
  BY DEF Steady, Servers
<1>2. PICK p \in 0 .. Len(s.map) :
        /\ d \in Servers /\ Ordered(d.map)
        /\ d.map = Inserted(s.map, p, [at |-> t, alarm |-> a])
        /\ d.cursor = IF loop = "alarms" /\ p < s.cursor THEN s.cursor + 1 ELSE s.cursor
        /\ d.all = s.all /\ d.skipped = s.skipped
  BY <1>1, InsertFacts
<1>. HIDE DEF d
<1>3. d.cursor = Pushed(p, c)
  BY <1>1, <1>2 DEF Pushed
<1>4. reg2 \in Registrations
  BY <1>1 DEF Registrations
<1>5. c \in Nat
  BY <1>1
<1>. HIDE DEF c
<1>6. Slots(Inserted(s.map, p, [at |-> t, alarm |-> a]), Pushed(p, c), reg2, dl2)
  BY <1>1, <1>5, SlotsInserted
<1>7. c \in 1 .. Len(s.map) => d.cursor \in 1 .. Len(d.map) /\ d.map[d.cursor] = s.map[c]
  BY <1>1, <1>2, <1>3, InsertedKeeps, SMTT(30)
<1>8. c = 0 => d.cursor = 0
  BY <1>3 DEF Pushed
<1>9. Len(d.map) \in Nat
  BY <1>2 DEF Servers
<1>10. d.cursor \in 0 .. Len(d.map) /\ (loop = "alarms" \/ d.cursor = 0)
  BY <1>1, <1>7, <1>8, <1>9
<1>11. SameRunning(s, d)
  BY <1>1, <1>7, <1>8 DEF SameRunning, c
<1>. HIDE DEF reg2
<1>12. Steady(d, reg2, dl2)
  BY <1>2, <1>3, <1>4, <1>6, <1>10 DEF Steady
<1>. QED  BY <1>2, <1>11, <1>12 DEF d, reg2

LEMMA RemovedKeeps ==
  ASSUME NEW m \in Seq(Entry), NEW p \in 1 .. Len(m), NEW c \in 1 .. Len(m), c # p
  PROVE  /\ Pulled(p, c) \in 1 .. Len(Removed(m, p))
         /\ Removed(m, p)[Pulled(p, c)] = m[c]
<1>1. /\ Len(Removed(m, p)) = Len(m) - 1 /\ Len(m) \in Nat
      /\ \A i \in 1 .. (Len(m) - 1) :
           Removed(m, p)[i] = IF i < p THEN m[i] ELSE m[i + 1]
  <2>1. Len(m) \in Nat
    OBVIOUS
  <2>. QED  BY <2>1, RemovedFacts, Zenon
<1>. QED  BY <1>1 DEF Pulled

LEMMA EraseSteady ==
  ASSUME NEW s, NEW reg, NEW dl, NEW dl2, Steady(s, reg, dl), NEW a \in Alarms, NEW p,
         reg[a], Of(s.map, s.cursor, a) = {p}, \A x \in Alarms \ {a} : dl2[x] = dl[x]
  PROVE  LET d == Erase(s, p) IN
         /\ Steady(d, [reg EXCEPT ![a] = FALSE], dl2)
         /\ SameRunning(s, d) /\ d.all = s.all /\ d.skipped = s.skipped
<1>. DEFINE d == Erase(s, p)
            c == s.cursor
            reg2 == [reg EXCEPT ![a] = FALSE]
<1>1. /\ s \in Servers /\ Ordered(s.map) /\ reg \in Registrations /\ s.map \in Seq(Entry)
      /\ Len(s.map) \in Nat /\ c \in 0 .. Len(s.map) /\ (loop = "alarms" \/ c = 0)
      /\ Slots(s.map, c, reg, dl)
  BY DEF Steady, Servers
<1>2. p \in 1 .. Len(s.map) /\ p # c
  BY <1>1 DEF Of
<1>3. /\ d \in Servers /\ Ordered(d.map)
      /\ d.map = Removed(s.map, p)
      /\ d.cursor = IF loop = "alarms" /\ p < s.cursor THEN s.cursor - 1 ELSE s.cursor
      /\ d.all = s.all /\ d.skipped = s.skipped
  BY <1>1, <1>2, EraseFacts
<1>. HIDE DEF d
<1>4. d.cursor = Pulled(p, c)
  BY <1>1, <1>2, <1>3 DEF Pulled
<1>5. reg2 \in Registrations /\ \A x \in Alarms : reg2[x] = IF x = a THEN FALSE ELSE reg[x]
  BY <1>1 DEF Registrations
<1>6. c \in Nat /\ Pulled(p, c) \in Nat
  BY <1>1, <1>2 DEF Pulled
<1>7. ASSUME NEW x \in Alarms
      PROVE  \/ p \notin Of(s.map, c, x) /\ reg2[x] = reg[x] /\ dl2[x] = dl[x]
             \/ Of(s.map, c, x) = {p} /\ ~ reg2[x]
  <2>1. CASE x = a
    BY <1>5, <2>1
  <2>2. CASE x # a
    <3>1. p \notin Of(s.map, c, x)
      BY <2>2, OfOwner
    <3>. QED  BY <1>5, <2>2, <3>1
  <2>. QED  BY <2>1, <2>2
<1>. HIDE DEF c, reg2
<1>8. Slots(Removed(s.map, p), Pulled(p, c), reg2, dl2)
  BY <1>1, <1>2, <1>5, <1>6, <1>7, SlotsRemoved
<1>9. c \in 1 .. Len(s.map) => d.cursor \in 1 .. Len(d.map) /\ d.map[d.cursor] = s.map[c]
  BY <1>1, <1>2, <1>3, <1>4, RemovedKeeps
<1>10. c = 0 => d.cursor = 0
  BY <1>2, <1>4 DEF Pulled
<1>11. Len(d.map) \in Nat
  BY <1>3 DEF Servers
<1>12. d.cursor \in 0 .. Len(d.map) /\ (loop = "alarms" \/ d.cursor = 0)
  BY <1>1, <1>9, <1>10, <1>11
<1>13. SameRunning(s, d)
  BY <1>1, <1>9, <1>10 DEF SameRunning, c
<1>14. Steady(d, reg2, dl2)
  BY <1>3, <1>4, <1>5, <1>8, <1>12 DEF Steady
<1>. QED  BY <1>3, <1>13, <1>14 DEF d, reg2

LEMMA CallSteady ==
  ASSUME IInv, ProgramRuns, NEW S \in SUBSET Alarms
  PROVE  LET s == [eps EXCEPT !.all = S] IN
         /\ Steady(s, registered, deadline) /\ Steady(eps, registered, deadline)
         /\ s.map = eps.map /\ s.cursor = eps.cursor /\ s.all = S
         /\ SameRunning(eps, s) /\ SameRunning(eps, eps)
<1>. DEFINE s == [eps EXCEPT !.all = S]
<1>1. /\ eps \in Servers /\ Ordered(eps.map) /\ registered \in Registrations
      /\ Slots(eps.map, eps.cursor, registered, deadline)
      /\ eps.cursor \in 0 .. Len(eps.map) /\ (loop = "alarms" \/ eps.cursor = 0)
  <2>1. Len(eps.map) \in Nat
    BY DEF IInv, AlarmsInv, Servers
  <2>. QED  BY <2>1, CursorIsRunning DEF IInv, AlarmsInv, RoundInv
<1>2. s \in Servers /\ s.map = eps.map /\ s.cursor = eps.cursor /\ s.all = S
  BY <1>1 DEF Servers
<1>. QED  BY <1>1, <1>2 DEF Steady, SameRunning

LEMMA CallKeeps ==
  ASSUME IInv, ProgramRuns, UNCHANGED <<clock, loop, firing>>,
         Steady(eps', registered', deadline'), SameRunning(eps, eps'),
         deadline' \in [Alarms -> 0 .. MaxTime], eps'.all = {x \in Alarms : registered'[x]},
         \A x \in BaseAlarms : registered'[x] <=> deadline'[x] # Zero,
         firing /\ AtCursor \in Repeating => ~ registered'[AtCursor]
  PROVE  IInv'
<1>1. /\ firing \in BOOLEAN /\ loop \in {"idle", "events", "alarms"}
      /\ firing => loop = "alarms" /\ eps.cursor # 0
      /\ ~ firing => eps.cursor = 0 /\ loop # "alarms"
  BY CursorIsRunning DEF IInv, RoundInv, ProgramRuns
<1>2. Len(eps'.map) \in Nat /\ eps'.cursor \in 0 .. Len(eps'.map)
  BY DEF Steady, Servers
<1>3. Running' = eps'.cursor
  BY <1>1 DEF SameRunning, Running
<1>4. AlarmsInv'
  BY <1>3 DEF AlarmsInv, Steady, IsSet
<1>5. RoundInv'
  <2>1. CASE firing
    <3>1. AtCursor' = AtCursor /\ eps'.cursor # 0
      BY <1>1, <2>1 DEF AtCursor, SameRunning
    <3>. QED  BY <1>1, <1>2, <2>1, <3>1 DEF RoundInv
  <2>2. CASE ~ firing
    BY <1>1, <2>2 DEF RoundInv, SameRunning
  <2>. QED  BY <2>1, <2>2
<1>. QED  BY <1>4, <1>5 DEF IInv

LEMMA SetStep ==
  ASSUME IInv, ProgramRuns, UNCHANGED <<clock, loop, firing>>,
         NEW a \in Alarms, NEW t \in Times, ~ registered[a],
         firing /\ AtCursor \in Repeating => AtCursor # a,
         SetImpl(a, t), deadline' \in [Alarms -> 0 .. MaxTime],
         \A x \in Alarms \ {a} : deadline'[x] = deadline[x],
         a \in BaseAlarms => deadline'[a] = t
  PROVE  IInv'
<1>. DEFINE s == [eps EXCEPT !.all = eps.all \cup {a}]
            d == Insert(s, t, a)
            reg == [registered EXCEPT ![a] = TRUE]
<1>1. /\ eps \in Servers /\ registered \in Registrations
      /\ eps.all = {x \in Alarms : registered[x]}
  BY DEF IInv, AlarmsInv
<1>2. /\ Steady(s, registered, deadline) /\ s.all = eps.all \cup {a} /\ SameRunning(eps, s)
  <2>1. eps.all \cup {a} \in SUBSET Alarms
    BY <1>1
  <2>. QED  BY <2>1, CallSteady
<1>3. eps' = d /\ registered' = reg
  BY DEF SetImpl, RegisterAlarm
<1>. HIDE DEF s
<1>4. Steady(d, reg, deadline') /\ SameRunning(s, d) /\ d.all = s.all
  BY <1>2, InsertSteady
<1>. HIDE DEF d
<1>5. \A x \in Alarms : reg[x] = IF x = a THEN TRUE ELSE registered[x]
  BY <1>1 DEF Registrations
<1>. HIDE DEF reg
<1>6. SameRunning(eps, d)
  BY <1>2, <1>4 DEF SameRunning
<1>7. d.all = {x \in Alarms : reg[x]}
  BY <1>1, <1>2, <1>4, <1>5
<1>8. \A x \in BaseAlarms : reg[x] <=> deadline'[x] # Zero
  <2>1. t # Zero
    BY AlarmAssumption DEF Times, Zero
  <2>. QED  BY <1>5, <2>1 DEF IInv, AlarmsInv, IsSet, BaseAlarms
<1>9. firing /\ AtCursor \in Repeating => ~ reg[AtCursor]
  BY <1>5, AlarmAssumption DEF IInv, RoundInv
<1>. QED  BY <1>3, <1>4, <1>6, <1>7, <1>8, <1>9, CallKeeps

LEMMA CancelStep ==
  ASSUME IInv, ProgramRuns, UNCHANGED <<clock, loop, firing>>,
         NEW a \in Alarms, registered[a], CancelImpl(a),
         deadline' \in [Alarms -> 0 .. MaxTime],
         \A x \in Alarms \ {a} : deadline'[x] = deadline[x],
         a \in BaseAlarms => deadline'[a] = Zero
  PROVE  IInv'
<1>. DEFINE s == [eps EXCEPT !.all = eps.all \ {a}]
            d == Erase(s, Token(a))
            reg == [registered EXCEPT ![a] = FALSE]
<1>1. /\ eps \in Servers /\ registered \in Registrations
      /\ eps.all = {x \in Alarms : registered[x]}
  BY DEF IInv, AlarmsInv
<1>2. /\ Steady(s, registered, deadline) /\ s.all = eps.all \ {a} /\ SameRunning(eps, s)
      /\ s.map = eps.map /\ s.cursor = eps.cursor
  <2>1. eps.all \ {a} \in SUBSET Alarms
    BY <1>1
  <2>. QED  BY <2>1, CallSteady
<1>3. eps' = d /\ registered' = reg
  BY DEF CancelImpl, UnregisterAlarm
<1>4. Of(s.map, s.cursor, a) = {Token(a)}
  BY <1>2, TokenFacts, CursorIsRunning
<1>. HIDE DEF s
<1>5. Steady(d, reg, deadline') /\ SameRunning(s, d) /\ d.all = s.all
  BY <1>2, <1>4, EraseSteady
<1>. HIDE DEF d
<1>6. \A x \in Alarms : reg[x] = IF x = a THEN FALSE ELSE registered[x]
  BY <1>1 DEF Registrations
<1>. HIDE DEF reg
<1>7. SameRunning(eps, d)
  BY <1>2, <1>5 DEF SameRunning
<1>8. d.all = {x \in Alarms : reg[x]}
  BY <1>1, <1>2, <1>5, <1>6
<1>9. \A x \in BaseAlarms : reg[x] <=> deadline'[x] # Zero
  BY <1>6 DEF IInv, AlarmsInv, IsSet, BaseAlarms
<1>10. firing /\ AtCursor \in Repeating => ~ reg[AtCursor]
  BY <1>6, AlarmAssumption DEF IInv, RoundInv
<1>. QED  BY <1>3, <1>5, <1>7, <1>8, <1>9, <1>10, CallKeeps

LEMMA ReregisterStep ==
  ASSUME IInv, ProgramRuns, UNCHANGED <<clock, loop, firing, registered>>,
         NEW a \in BaseAlarms, NEW t \in Times, registered[a], eps' = ReregisterAlarm(eps, t, a),
         deadline' \in [Alarms -> 0 .. MaxTime],
         \A x \in Alarms \ {a} : deadline'[x] = deadline[x], deadline'[a] = t
  PROVE  IInv'
<1>. DEFINE s == Erase(eps, Token(a))
            d == Insert(s, t, a)
            reg == [registered EXCEPT ![a] = FALSE]
<1>1. /\ eps \in Servers /\ registered \in Registrations /\ a \in Alarms
      /\ eps.all = {x \in Alarms : registered[x]}
  BY DEF IInv, AlarmsInv, BaseAlarms
<1>2. Steady(eps, registered, deadline)
  <2>1. {} \in SUBSET Alarms
    OBVIOUS
  <2>. QED  BY <2>1, CallSteady
<1>3. Of(eps.map, eps.cursor, a) = {Token(a)}
  BY <1>1, TokenFacts, CursorIsRunning
<1>4. Steady(s, reg, deadline) /\ SameRunning(eps, s) /\ s.all = eps.all
  BY <1>1, <1>2, <1>3, EraseSteady
<1>. HIDE DEF s
<1>5. ~ reg[a]
  BY <1>1 DEF Registrations
<1>6. [reg EXCEPT ![a] = TRUE] = registered
  BY <1>1 DEF Registrations
<1>. HIDE DEF reg
<1>7. /\ Steady(d, [reg EXCEPT ![a] = TRUE], deadline')
      /\ SameRunning(s, d) /\ d.all = s.all
  BY <1>1, <1>4, <1>5, InsertSteady
<1>8. eps' = d
  BY DEF ReregisterAlarm, s
<1>. HIDE DEF d
<1>9. SameRunning(eps, d)
  BY <1>4, <1>7 DEF SameRunning
<1>10. \A x \in BaseAlarms : registered[x] <=> deadline'[x] # Zero
  <2>1. t # Zero
    BY AlarmAssumption DEF Times, Zero
  <2>. QED  BY <2>1 DEF IInv, AlarmsInv, IsSet, BaseAlarms
<1>11. firing /\ AtCursor \in Repeating => ~ registered[AtCursor]
  BY DEF IInv, RoundInv
<1>. QED  BY <1>1, <1>4, <1>6, <1>7, <1>8, <1>9, <1>10, <1>11, CallKeeps

LEMMA AlarmCallStep ==
  ASSUME IInv, AlarmCall
  PROVE  IInv'
<1>1. /\ ProgramRuns /\ UNCHANGED <<clock, loop, firing>>
      /\ registered \in Registrations /\ deadline \in [Alarms -> 0 .. MaxTime]
      /\ \A a \in BaseAlarms : registered[a] <=> deadline[a] # Zero
      /\ BaseAlarms \subseteq Alarms /\ Repeating \subseteq Alarms
      /\ BaseAlarms \cap Repeating = {}
      /\ Deadlines \subseteq Times
  BY AlarmAssumption DEF AlarmCall, IInv, AlarmsInv, IsSet, BaseAlarms, Deadlines
<1>2. Times \subseteq 0 .. MaxTime /\ Zero \in 0 .. MaxTime
  BY AlarmAssumption DEF Times, Zero
<1>3. CASE \E a \in BaseAlarms : \E t \in Deadlines :
             Set(a, t) \/ \E granularity \in Granularities : Update(a, t, granularity)
  <2>1. PICK a \in BaseAlarms, t \in Deadlines :
          Set(a, t) \/ \E granularity \in Granularities : Update(a, t, granularity)
    BY <1>3
  <2>2. /\ a \in Alarms /\ t \in Times /\ deadline' = [deadline EXCEPT ![a] = t]
        /\ IF IsSet(a) THEN UpdateImpl(a, t) ELSE SetImpl(a, t)
    BY <1>1, <2>1 DEF Set, Update
  <2>3. /\ deadline' \in [Alarms -> 0 .. MaxTime]
        /\ \A x \in Alarms \ {a} : deadline'[x] = deadline[x]
        /\ deadline'[a] = t
    BY <1>1, <1>2, <2>2
  <2>4. firing /\ AtCursor \in Repeating => AtCursor # a
    BY <1>1
  <2>5. CASE IsSet(a)
    <3>1. registered[a]
      BY <1>1, <2>5 DEF IsSet
    <3>2. eps' = ReregisterAlarm(eps, t, a) /\ UNCHANGED registered
      BY <2>2, <2>5, <3>1 DEF UpdateImpl
    <3>. QED  BY <1>1, <2>2, <2>3, <3>1, <3>2, ReregisterStep
  <2>6. CASE ~ IsSet(a)
    <3>1. ~ registered[a] /\ SetImpl(a, t)
      BY <1>1, <2>2, <2>6 DEF IsSet
    <3>. QED  BY <1>1, <2>2, <2>3, <2>4, <3>1, SetStep
  <2>. QED  BY <2>5, <2>6
<1>4. CASE \E a \in BaseAlarms : Cancel(a)
  <2>1. PICK a \in BaseAlarms : Cancel(a)
    BY <1>4
  <2>2. /\ a \in Alarms /\ registered[a] /\ CancelImpl(a)
        /\ deadline' = [deadline EXCEPT ![a] = Zero]
    BY <1>1, <2>1 DEF Cancel, IsSet
  <2>3. /\ deadline' \in [Alarms -> 0 .. MaxTime]
        /\ \A x \in Alarms \ {a} : deadline'[x] = deadline[x]
        /\ deadline'[a] = Zero
    BY <1>1, <1>2, <2>2
  <2>. QED  BY <1>1, <2>2, <2>3, CancelStep
<1>5. CASE \E a \in Repeating : \E t \in Deadlines : RegisterRepeating(a, t)
  <2>1. PICK a \in Repeating, t \in Deadlines : RegisterRepeating(a, t)
    BY <1>5
  <2>2. /\ a \in Alarms /\ a \notin BaseAlarms /\ t \in Times
        /\ ~ registered[a] /\ SetImpl(a, t) /\ deadline' = deadline
        /\ firing /\ AtCursor \in Repeating => AtCursor # a
    BY <1>1, <2>1 DEF RegisterRepeating, AtCursor
  <2>. QED  BY <1>1, <2>2, SetStep
<1>6. CASE \E a \in Repeating : UnregisterRepeating(a)
  <2>1. PICK a \in Repeating : UnregisterRepeating(a)
    BY <1>6
  <2>2. /\ a \in Alarms /\ a \notin BaseAlarms
        /\ registered[a] /\ CancelImpl(a) /\ deadline' = deadline
    BY <1>1, <2>1 DEF UnregisterRepeating
  <2>. QED  BY <1>1, <2>2, CancelStep
<1>. QED  BY <1>3, <1>4, <1>5, <1>6 DEF AlarmCall

-------------------------------------------------------------------------------
(* The loop. *)

\* Steps that leave the map and the registrations alone.
LEMMA LoopKeeps ==
  ASSUME IInv, ~ firing, ~ firing', UNCHANGED <<registered, deadline>>,
         eps' \in Servers, eps'.map = eps.map, eps'.all = eps.all
  PROVE  AlarmsInv'
<1>1. Running = 0 /\ Running' = 0
  BY DEF Running
<1>. QED  BY <1>1 DEF IInv, AlarmsInv, IsSet

LEMMA LoopStep ==
  ASSUME IInv, Tick \/ Wait \/ EventsDone \/ SkipAlarm \/ AlarmsDone
  PROVE  IInv'
<1>. USE DEF IInv
<1>1. /\ eps \in Servers /\ Len(eps.map) \in Nat /\ DOMAIN eps.map = 1 .. Len(eps.map)
      /\ clock \in Nat /\ MaxTime \in Nat /\ clock \in 1 .. MaxTime
  BY AlarmAssumption DEF AlarmsInv, Servers, Times
<1>2. CASE Tick
  <2>1. clock' \in Times
    BY <1>1, <1>2 DEF Tick, Times
  <2>2. UNCHANGED <<eps, registered, deadline, loop, firing>>
    BY <1>2 DEF Tick
  <2>3. AlarmsInv'
    BY <2>2 DEF AlarmsInv, IsSet, Running
  <2>4. RoundInv'
    BY <2>2 DEF RoundInv, AtCursor
  <2>. QED  BY <2>1, <2>3, <2>4
<1>3. CASE Wait
  <2>1. PICK wake \in clock .. MaxTime :
          clock' = wake /\ eps' = [eps EXCEPT !.recorded = wake, !.armed = eps.map # <<>>]
    BY <1>3 DEF Wait
  <2>2. wake \in 0 .. MaxTime /\ wake \in Times
    BY <1>1 DEF Times
  <2>3. /\ eps' \in Servers /\ eps'.map = eps.map /\ eps'.all = eps.all
        /\ eps'.cursor = eps.cursor
    BY <1>1, <2>1, <2>2 DEF Servers
  <2>4. ~ firing /\ loop = "idle" /\ loop' = "events" /\ UNCHANGED <<registered, deadline, firing>>
    BY <1>3 DEF Wait, RoundInv
  <2>5. AlarmsInv'
    BY <2>3, <2>4, LoopKeeps
  <2>. QED  BY <2>1, <2>2, <2>3, <2>4, <2>5 DEF RoundInv
<1>4. CASE EventsDone
  <2>1. ~ firing /\ eps.cursor = 0 /\ UNCHANGED <<clock, registered, deadline, firing>>
    BY <1>4 DEF EventsDone, RoundInv
  <2>2. CASE eps.armed
    <3>1. eps' = [eps EXCEPT !.cursor = 1] /\ loop' = "alarms"
      BY <1>4, <2>2 DEF EventsDone
    <3>2. /\ eps' \in Servers /\ eps'.map = eps.map /\ eps'.all = eps.all
          /\ eps'.cursor = 1
      BY <1>1, <3>1 DEF Servers
    <3>3. AlarmsInv'
      BY <2>1, <3>2, LoopKeeps
    <3>. QED  BY <1>1, <2>1, <3>1, <3>2, <3>3 DEF RoundInv
  <2>3. CASE ~ eps.armed
    <3>1. eps' = [eps EXCEPT !.recorded = Zero] /\ loop' = "idle"
      BY <1>4, <2>3 DEF EventsDone
    <3>2. /\ eps' \in Servers /\ eps'.map = eps.map /\ eps'.all = eps.all
          /\ eps'.cursor = 0
      BY <1>1, <2>1, <3>1 DEF Servers, Zero
    <3>3. AlarmsInv'
      BY <2>1, <3>2, LoopKeeps
    <3>. QED  BY <2>1, <3>1, <3>2, <3>3 DEF RoundInv
  <2>. QED  BY <2>2, <2>3
<1>5. CASE SkipAlarm
  <2>1. /\ ~ firing /\ loop = "alarms" /\ UNCHANGED <<clock, registered, deadline, loop, firing>>
        /\ eps.cursor \in 1 .. Len(eps.map) /\ eps' = [eps EXCEPT !.cursor = eps.cursor + 1]
    BY <1>1, <1>5 DEF SkipAlarm, Due
  <2>2. /\ eps' \in Servers /\ eps'.map = eps.map /\ eps'.all = eps.all
        /\ eps'.cursor = eps.cursor + 1
    BY <1>1, <2>1 DEF Servers
  <2>3. AlarmsInv'
    BY <2>1, <2>2, LoopKeeps
  <2>. QED  BY <1>1, <2>1, <2>2, <2>3 DEF RoundInv
<1>6. CASE AlarmsDone
  <2>1. /\ ~ firing /\ loop' = "idle" /\ UNCHANGED <<clock, registered, deadline, firing>>
        /\ eps' = [eps EXCEPT !.recorded = Zero, !.skipped = {}, !.cursor = 0]
    BY <1>6 DEF AlarmsDone
  <2>2. /\ eps' \in Servers /\ eps'.map = eps.map /\ eps'.all = eps.all
        /\ eps'.cursor = 0
    <3>1. Zero \in 0 .. MaxTime /\ {} \in SUBSET Repeating
      BY <1>1 DEF Zero
    <3>. QED  BY <1>1, <2>1, <3>1 DEF Servers
  <2>3. AlarmsInv'
    BY <2>1, <2>2, LoopKeeps
  <2>. QED  BY <2>1, <2>2, <2>3 DEF RoundInv
<1>. QED  BY <1>2, <1>3, <1>4, <1>5, <1>6

LEMMA FireAlarmStep ==
  ASSUME IInv, FireAlarm
  PROVE  IInv'
<1>. DEFINE m == eps.map
            c == eps.cursor
            a == AtCursor
<1>1. /\ eps \in Servers /\ Ordered(m) /\ m \in Seq(Entry) /\ DOMAIN m = 1 .. Len(m) /\ Len(m) \in Nat
      /\ registered \in Registrations /\ deadline \in [Alarms -> 0 .. MaxTime]
      /\ eps.all = {x \in Alarms : registered[x]} /\ clock \in Times
      /\ \A x \in BaseAlarms : registered[x] <=> deadline[x] # Zero
  BY DEF IInv, AlarmsInv, Servers, IsSet
<1>2. /\ ~ firing /\ loop = "alarms" /\ UNCHANGED <<clock, loop>> /\ c \in 1 .. Len(m)
      /\ registered' = [registered EXCEPT ![a] = FALSE] /\ deadline' = [deadline EXCEPT ![a] = Zero]
      /\ firing' = (a \in BaseAlarms => IsSet(a))
  BY <1>1 DEF FireAlarm, Due, OnAlarm, Fire
<1>3. Slots(m, 0, registered, deadline)
  BY <1>2 DEF IInv, AlarmsInv, Running
<1>4. /\ a \in Alarms /\ registered[a] /\ Slots(m, c, registered', deadline')
  <2>1. a = m[c].alarm
    BY DEF AtCursor
  <2>2. \A x \in Alarms \ {m[c].alarm} : deadline'[x] = deadline[x]
    BY <1>1, <1>2, <2>1
  <2>. HIDE DEF m, c, a
  <2>. QED  BY <1>1, <1>2, <1>3, <2>1, <2>2, SlotsFired
<1>5. firing' = TRUE
  BY <1>1, <1>2, <1>4 DEF IsSet
<1>6. eps' = [eps EXCEPT !.all = eps.all \ {a}]
  BY <1>5 DEF FireAlarm
<1>. HIDE DEF a
<1>7. /\ eps' \in Servers /\ eps'.map = m /\ eps'.cursor = c /\ eps'.all = eps.all \ {a}
  <2>1. eps.all \ {a} \in SUBSET Alarms
    BY <1>1
  <2>. QED  BY <1>1, <1>6, <2>1 DEF Servers
<1>8. /\ registered' \in Registrations /\ \A x \in Alarms : registered'[x] = IF x = a THEN FALSE ELSE registered[x]
      /\ deadline' \in [Alarms -> 0 .. MaxTime] /\ \A x \in Alarms : deadline'[x] = IF x = a THEN Zero ELSE deadline[x]
  <2>1. Zero \in 0 .. MaxTime
    BY AlarmAssumption DEF Zero
  <2>. QED  BY <1>1, <1>2, <1>4, <2>1 DEF Registrations
<1>9. Running' = c /\ AtCursor' = a
  BY <1>5, <1>7 DEF Running, AtCursor, a
<1>10. AlarmsInv'
  <2>1. eps'.all = {x \in Alarms : registered'[x]}
    BY <1>1, <1>7, <1>8
  <2>2. \A x \in BaseAlarms : registered'[x] <=> deadline'[x] # Zero
    BY <1>1, <1>8 DEF BaseAlarms
  <2>. QED  BY <1>1, <1>4, <1>7, <1>8, <1>9, <2>1, <2>2 DEF AlarmsInv, IsSet
<1>11. RoundInv'
  <2>1. eps'.cursor \in 1 .. (Len(eps'.map) + 1) /\ eps'.cursor <= Len(eps'.map)
    BY <1>1, <1>2, <1>7
  <2>2. AtCursor' \in Repeating => ~ registered'[AtCursor']
    BY <1>4, <1>8, <1>9
  <2>. QED  BY <1>2, <1>5, <2>1, <2>2 DEF RoundInv
<1>. QED  BY <1>1, <1>2, <1>10, <1>11 DEF IInv

LEMMA OnAlarmReturnsStep ==
  ASSUME IInv, OnAlarmReturns
  PROVE  IInv'
<1>. DEFINE m == eps.map
            c == eps.cursor
            a == AtCursor
            s == Erase(eps, c)
<1>1. /\ eps \in Servers /\ Ordered(m) /\ m \in Seq(Entry) /\ DOMAIN m = 1 .. Len(m) /\ Len(m) \in Nat
      /\ registered \in Registrations /\ deadline \in [Alarms -> 0 .. MaxTime]
      /\ eps.all = {x \in Alarms : registered[x]} /\ clock \in Times
      /\ \A x \in BaseAlarms : registered[x] <=> deadline[x] # Zero
  BY DEF IInv, AlarmsInv, Servers, IsSet
<1>2. /\ firing /\ ~ firing' /\ firing' \in BOOLEAN /\ loop = "alarms" /\ UNCHANGED <<clock, deadline, loop>>
      /\ c \in 1 .. Len(m)
      /\ a \in Repeating => ~ registered[a]
  <2>1. firing /\ firing' = FALSE /\ UNCHANGED <<clock, deadline, loop>>
    BY DEF OnAlarmReturns
  <2>2. loop = "alarms"
    BY <2>1 DEF IInv, RoundInv
  <2>3. c \in 1 .. Len(m)
    BY <1>1, <2>1, <2>2 DEF IInv, RoundInv
  <2>4. a \in Repeating => ~ registered[a]
    BY <2>1 DEF IInv, RoundInv
  <2>. QED  BY <2>1, <2>2, <2>3, <2>4
<1>3. Slots(m, c, registered, deadline)
  BY <1>2 DEF IInv, AlarmsInv, Running
<1>4. /\ s \in Servers /\ Ordered(s.map) /\ s.map = Removed(m, c) /\ s.cursor = c
      /\ s.all = eps.all
  BY <1>1, <1>2, EraseFacts
<1>5. Len(s.map) = Len(m) - 1
  BY <1>1, <1>2, <1>4, RemovedFacts
<1>6. Slots(s.map, 0, registered, deadline)
  <2>1. \A x \in Alarms : c \notin Of(m, c, x)
    BY DEF Of
  <2>2. 0 \in Nat /\ c \in Nat
    BY <1>1, <1>2
  <2>. HIDE DEF m, c, s
  <2>. QED  BY <1>1, <1>2, <1>3, <1>4, <2>1, <2>2, SlotsRemoved
<1>. HIDE DEF s
<1>7. Running' = 0
  BY <1>2 DEF Running
<1>8. CASE eps' = s /\ UNCHANGED registered
  <2>1. AlarmsInv'
    BY <1>1, <1>2, <1>4, <1>6, <1>7, <1>8 DEF AlarmsInv, IsSet
  <2>2. RoundInv'
    BY <1>1, <1>2, <1>4, <1>5, <1>8 DEF RoundInv
  <2>. QED  BY <1>1, <1>2, <2>1, <2>2 DEF IInv
<1>9. CASE /\ a \in Repeating
           /\ \E t \in Times : eps' = NextRun(a, t)
           /\ registered' = [registered EXCEPT ![a] = TRUE]
  <2>1. PICK t \in Times : eps' = NextRun(a, t)
    BY <1>9
  <2>. DEFINE u == IF t <= s.recorded THEN [s EXCEPT !.skipped = @ \cup {a}] ELSE s
              v == [u EXCEPT !.all = @ \cup {a}]
              d == Insert(v, t, a)
  <2>2. eps' = d
    BY <2>1 DEF NextRun, RegisterAlarm, s
  <2>3. a \in Alarms /\ a \notin BaseAlarms /\ ~ registered[a] /\ a \in Repeating
    BY <1>2, <1>9, AlarmAssumption DEF BaseAlarms
  <2>. HIDE DEF a
  <2>4. u \in Servers /\ u.map = s.map /\ u.all = s.all /\ u.cursor = s.cursor
    BY <1>4, <2>3 DEF Servers
  <2>. HIDE DEF u
  <2>5. v \in Servers /\ v.map = s.map /\ v.all = s.all \cup {a} /\ v.cursor = c
    BY <1>4, <2>3, <2>4 DEF Servers
  <2>. HIDE DEF v
  <2>6. PICK p \in 0 .. Len(s.map) :
          /\ d \in Servers /\ Ordered(d.map)
          /\ d.map = Inserted(s.map, p, [at |-> t, alarm |-> a])
          /\ d.cursor = IF loop = "alarms" /\ p < c THEN c + 1 ELSE c
          /\ d.all = s.all \cup {a}
    BY <1>4, <2>3, <2>5, InsertFacts
  <2>. HIDE DEF d
  <2>7. s.map \in Seq(Entry)
    BY <1>4 DEF Servers
  <2>8. Slots(d.map, 0, registered', deadline)
    <3>1. Pushed(p, 0) = 0 /\ 0 \in Nat
      BY <1>1, <1>2, <1>5, <2>6 DEF Pushed
    <3>2. Slots(Inserted(s.map, p, [at |-> t, alarm |-> a]), Pushed(p, 0), [registered EXCEPT ![a] = TRUE], deadline)
      BY <1>1, <1>6, <2>3, <2>7, <3>1, SlotsInserted
    <3>. QED  BY <1>9, <2>6, <3>1, <3>2 DEF a
  <2>9. Len(d.map) = Len(s.map) + 1
    <3>. DEFINE e == [at |-> t, alarm |-> a]
    <3>1. e \in Entry
      BY <2>3 DEF Entry
    <3>. HIDE DEF e
    <3>2. Len(Inserted(s.map, p, e)) = Len(s.map) + 1
      BY <2>7, <3>1, InsertedFacts
    <3>. QED  BY <2>6, <3>2 DEF e
  <2>10. /\ registered' \in Registrations
         /\ \A x \in Alarms : registered'[x] = IF x = a THEN TRUE ELSE registered[x]
    BY <1>1, <1>9, <2>3 DEF Registrations, a
  <2>11. AlarmsInv'
    <3>1. d.all = {x \in Alarms : registered'[x]}
      BY <1>1, <1>4, <2>3, <2>6, <2>10
    <3>2. \A x \in BaseAlarms : registered'[x] <=> deadline'[x] # Zero
      BY <1>1, <1>2, <2>3, <2>10 DEF BaseAlarms
    <3>. QED  BY <1>1, <1>2, <1>7, <2>2, <2>6, <2>8, <2>10, <3>1, <3>2 DEF AlarmsInv, IsSet
  <2>12. RoundInv'
    BY <1>1, <1>2, <1>5, <2>2, <2>6, <2>9 DEF RoundInv
  <2>. QED  BY <1>1, <1>2, <2>11, <2>12 DEF IInv
<1>. QED  BY <1>8, <1>9 DEF OnAlarmReturns, s

-------------------------------------------------------------------------------
(* The specification. *)

LEMMA IInvInit == Init => IInv
<1>. SUFFICES ASSUME Init  PROVE IInv
  OBVIOUS
<1>1. /\ clock = 1 /\ eps = EmptyServer /\ registered = [a \in Alarms |-> FALSE]
      /\ deadline = [a \in Alarms |-> Zero] /\ loop = "idle" /\ firing = FALSE
  BY DEF Init
<1>2. MaxTime \in Nat \ {0} /\ Zero \in 0 .. MaxTime /\ {} \in SUBSET Alarms /\ {} \in SUBSET Repeating
      /\ <<>> \in Seq(Entry)
  BY AlarmAssumption DEF Zero
<1>3. /\ eps \in Servers /\ eps.map = <<>> /\ eps.all = {} /\ eps.cursor = 0
  BY <1>1, <1>2 DEF EmptyServer, Servers
<1>4. \A c, a : Of(<<>>, c, a) = {}
  BY DEF Of
<1>5. AlarmsInv
  <2>1. Ordered(eps.map)
    BY <1>3 DEF Ordered
  <2>2. registered \in Registrations /\ deadline \in [Alarms -> 0 .. MaxTime]
    BY <1>1, <1>2 DEF Registrations
  <2>3. Slots(eps.map, Running, registered, deadline)
    BY <1>1, <1>3, <1>4 DEF Slots
  <2>. QED  BY <1>1, <1>3, <2>1, <2>2, <2>3 DEF AlarmsInv, IsSet, BaseAlarms
<1>6. RoundInv
  BY <1>1, <1>3 DEF RoundInv
<1>. QED  BY <1>1, <1>2, <1>5, <1>6 DEF IInv, Times

LEMMA IInvNext == IInv /\ [Next]_vars => IInv'
<1>1. ASSUME IInv, Next  PROVE IInv'
  BY <1>1, AlarmCallStep, LoopStep, FireAlarmStep, OnAlarmReturnsStep DEF Next
<1>2. ASSUME IInv, UNCHANGED vars  PROVE IInv'
  BY <1>2 DEF vars, IInv, AlarmsInv, RoundInv, Running, IsSet, AtCursor
<1>. QED  BY <1>1, <1>2

LEMMA IInvAgrees == IInv => AlarmsAgree
<1>. SUFFICES ASSUME IInv  PROVE AlarmsAgree
  OBVIOUS
<1>1. /\ eps \in Servers /\ Ordered(eps.map) /\ Len(eps.map) \in Nat
      /\ registered \in Registrations /\ deadline \in [Alarms -> 0 .. MaxTime]
      /\ eps.all = {a \in Alarms : registered[a]} /\ clock \in Times
  BY DEF IInv, AlarmsInv, Servers
<1>2. TypeOK
  <2>1. eps.map \in Seq([at : Times, alarm : Alarms]) /\ eps.all \subseteq Alarms
        /\ eps.skipped \subseteq Repeating /\ eps.recorded \in 0 .. MaxTime
    BY <1>1 DEF Servers, Entry
  <2>2. eps.cursor \in 0 .. (Len(eps.map) + 1) /\ loop \in {"idle", "events", "alarms"} /\ firing \in BOOLEAN
    BY <1>1 DEF IInv, RoundInv
  <2>. QED  BY <1>1, <2>1, <2>2 DEF TypeOK, Ordered, Registrations
<1>3. ASSUME NEW a \in Alarms
      PROVE  /\ Cardinality(Entries(a)) = IF registered[a] THEN 1 ELSE 0
             /\ a \in eps.all <=> registered[a]
             /\ a \in BaseAlarms => /\ registered[a] <=> IsSet(a)
                                    /\ registered[a] => eps.map[Token(a)].at = deadline[a]
  <2>1. CASE registered[a]
    <3>1. PICK i \in DOMAIN eps.map :
            Of(eps.map, Running, a) = {i} /\ (a \in BaseAlarms => eps.map[i].at = deadline[a])
      BY <2>1 DEF IInv, AlarmsInv, Slots
    <3>2. Entries(a) = {i}
      BY <3>1, EntriesAreSlots
    <3>3. Token(a) = i
      BY <3>2 DEF Token
    <3>4. Cardinality(Entries(a)) = 1
      BY <3>2, FS_Singleton
    <3>. QED  BY <1>1, <2>1, <3>1, <3>3, <3>4 DEF IInv, AlarmsInv
  <2>2. CASE ~ registered[a]
    <3>1. Entries(a) = {}
      BY <2>2, EntriesAreSlots DEF IInv, AlarmsInv, Slots
    <3>2. Cardinality(Entries(a)) = 0
      BY <3>1, FS_EmptySet
    <3>. QED  BY <1>1, <2>2, <3>2 DEF IInv, AlarmsInv
  <2>. QED  BY <2>1, <2>2
<1>. QED  BY <1>2, <1>3 DEF AlarmsAgree, SetMeansScheduled

\* For any number of alarms, of BaseAlarms and of callbacks that return their next
\* time, whoever sets, updates and cancels them, their own OnAlarm included: an
\* alarm is set exactly when the server holds one entry for it, at its deadline.
THEOREM AlarmsAlwaysAgree == Spec => []AlarmsAgree
<1>. QED  BY IInvInit, IInvNext, IInvAgrees, PTL DEF Spec

-------------------------------------------------------------------------------
(* Alarms on time. *)

FiringIsDue ==
  (firing' /\ ~ firing /\ AtCursor \in BaseAlarms) => deadline[AtCursor] \in 1 .. eps.recorded

WakesInTime ==
  loop = "idle" /\ loop' = "events" /\ clock' > clock
    => \A i \in DOMAIN eps.map :
         /\ clock < eps.map[i].at /\ clock' < eps.map[i].at + Millisecond
         /\ eps.map[i].at >= clock + Millisecond => clock' <= eps.map[i].at

LEMMA OnlyDueAlarmsFire == IInv /\ [Next]_vars => FiringIsDue
<1>. SUFFICES ASSUME IInv, [Next]_vars, firing', ~ firing, AtCursor \in BaseAlarms
              PROVE  deadline[AtCursor] \in 1 .. eps.recorded
  BY DEF FiringIsDue
<1>1. FireAlarm
  BY DEF Next, vars, AlarmCall, Tick, Wait, EventsDone, SkipAlarm, FireAlarm, OnAlarmReturns, AlarmsDone
<1>. DEFINE a == AtCursor
            c == eps.cursor
<1>2. /\ c \in DOMAIN eps.map /\ eps.map[c].at <= eps.recorded /\ eps.map[c].alarm = a
      /\ a \in BaseAlarms /\ a \in Alarms
  BY <1>1 DEF FireAlarm, Due, AtCursor, BaseAlarms
<1>3. IsSet(a) /\ registered[a]
  BY <1>1, <1>2 DEF FireAlarm, Fire, IInv, AlarmsInv
<1>4. /\ eps.map \in Seq(Entry) /\ eps.recorded \in 0 .. MaxTime /\ DOMAIN eps.map = 1 .. Len(eps.map)
      /\ Slots(eps.map, Running, registered, deadline) /\ Running = 0
  BY DEF IInv, AlarmsInv, Servers, Running
<1>. HIDE DEF a, c
<1>5. PICK i \in DOMAIN eps.map : Of(eps.map, 0, a) = {i} /\ eps.map[i].at = deadline[a]
  BY <1>2, <1>3, <1>4 DEF Slots
<1>6. c = i
  BY <1>2, <1>4, <1>5 DEF Of
<1>7. c \in 1 .. Len(eps.map)
  BY <1>2, <1>4
<1>8. eps.map[c] \in Entry
  BY <1>4, <1>7
<1>9. eps.map[c].at \in Times
  BY <1>8 DEF Entry
<1>. QED  BY <1>2, <1>4, <1>5, <1>6, <1>9, AlarmAssumption DEF Times, a

LEMMA WaitEndsInTime == IInv /\ [Next]_vars => WakesInTime
<1>. SUFFICES ASSUME IInv, [Next]_vars, loop = "idle", loop' = "events", clock' > clock,
                     NEW i \in DOMAIN eps.map
              PROVE  /\ clock < eps.map[i].at /\ clock' < eps.map[i].at + Millisecond
                     /\ eps.map[i].at >= clock + Millisecond => clock' <= eps.map[i].at
  BY DEF WakesInTime
<1>1. Wait
  BY DEF Next, vars, AlarmCall, Tick, Wait, EventsDone, SkipAlarm, FireAlarm, OnAlarmReturns, AlarmsDone
<1>2. /\ eps.map \in Seq(Entry) /\ DOMAIN eps.map = 1 .. Len(eps.map) /\ Ordered(eps.map)
      /\ clock \in Times /\ Times \subseteq Nat
  BY AlarmAssumption DEF IInv, AlarmsInv, Servers, Times
<1>3. /\ clock' \in clock .. MaxTime
      /\ Sleep # Forever => clock' <= clock + Sleep
  BY <1>1 DEF Wait
<1>4. /\ eps.map # <<>> /\ 1 \in DOMAIN eps.map
      /\ eps.map[1].at \in Nat /\ eps.map[i].at \in Nat
      /\ eps.map[1].at <= eps.map[i].at
  <2>1. i \in Nat /\ Len(eps.map) \in Nat /\ 1 <= i /\ 1 \in DOMAIN eps.map
    BY <1>2
  <2>2. eps.map[1] \in Entry /\ eps.map[i] \in Entry
    BY <1>2, <2>1
  <2>3. eps.map[1].at \in Nat /\ eps.map[i].at \in Nat
    BY <1>2, <2>2 DEF Entry
  <2>4. eps.map[1].at <= eps.map[i].at
    BY <1>2, <2>1, <2>3 DEF Ordered
  <2>. QED  BY <1>2, <2>1, <2>3, <2>4
<1>. DEFINE first == IF eps.map[1].at > clock THEN eps.map[1].at - clock ELSE 0
<1>5. /\ first \in Nat
      /\ clock + first <= eps.map[1].at \/ first = 0
  BY <1>2, <1>4
<1>6. WaitTime = IF Timeout = Forever \/ first < Timeout THEN first ELSE Timeout
  BY <1>4 DEF WaitTime
<1>. HIDE DEF first
<1>7. WaitTime \in Nat /\ WaitTime <= first /\ WaitTime # Forever
  BY <1>5, <1>6, AlarmAssumption
<1>8. /\ Sleep \in Nat
      /\ WaitTime = 0 => Sleep = 0
      /\ WaitTime < Millisecond => Sleep <= Millisecond
      /\ WaitTime >= Millisecond => Sleep <= WaitTime
  <2>1. WaitTime % Millisecond \in 0 .. Millisecond - 1
    BY <1>7, AlarmAssumption
  <2>2. /\ WaitTime = 0 => Sleep = 0
        /\ WaitTime # 0 /\ WaitTime < Millisecond => Sleep = Millisecond
        /\ WaitTime >= Millisecond => Sleep = WaitTime - (WaitTime % Millisecond)
    BY <1>7, AlarmAssumption DEF Sleep
  <2>. HIDE DEF Sleep
  <2>. QED  BY <1>7, <2>1, <2>2, AlarmAssumption
<1>. DEFINE sleep == Sleep
            waits == WaitTime
            at == eps.map[i].at
            first1 == eps.map[1].at
<1>9. /\ sleep \in Nat
      /\ waits = 0 => sleep = 0
      /\ waits < Millisecond => sleep <= Millisecond
      /\ waits >= Millisecond => sleep <= waits
  BY <1>8
<1>10. waits \in Nat /\ waits <= first /\ at \in Nat /\ first1 \in Nat /\ first1 <= at
  BY <1>4, <1>7
<1>11. first \in Nat /\ (clock + first <= first1 \/ first = 0)
  BY <1>5
<1>12. clock \in Nat /\ MaxTime \in Nat /\ Millisecond \in Nat
  BY <1>2, AlarmAssumption
<1>13. clock' \in clock .. MaxTime
  BY <1>3
<1>14. clock' <= clock + sleep
  BY <1>3, <1>8, AlarmAssumption
<1>. HIDE DEF sleep, waits, at, first1
<1>15. clock' \in Nat
  BY <1>12, <1>13
<1>16. sleep > 0
  BY <1>9, <1>12, <1>14, <1>15
<1>17. waits > 0 /\ first > 0
  BY <1>9, <1>10, <1>11, <1>16
<1>18. clock < at /\ waits <= at - clock
  BY <1>10, <1>11, <1>12, <1>17
<1>19. clock' < at + Millisecond /\ (at >= clock + Millisecond => clock' <= at)
  <2>1. CASE waits < Millisecond
    BY <2>1, <1>9, <1>10, <1>12, <1>14, <1>15, <1>18, AlarmAssumption
  <2>2. CASE waits >= Millisecond
    BY <2>2, <1>9, <1>10, <1>12, <1>14, <1>15, <1>18, AlarmAssumption
  <2>. QED  BY <2>1, <2>2, <1>10, <1>12
<1>. QED  BY <1>18, <1>19 DEF at

LEMMA StepOnTime ==
  ASSUME IInv, [Next]_vars
  PROVE  [FiringIsDue]_vars /\ [WakesInTime]_vars
  BY OnlyDueAlarmsFire, WaitEndsInTime

\* FireAlarm only runs the program for an alarm that is set and due, whatever cancelled
\* it or put it off in between. epoll_wait is never asked to sleep while an alarm is due,
\* beyond a deadline that is a millisecond ahead or more, nor beyond any other by a
\* millisecond, whatever a millisecond is in ticks of the clock.
THEOREM AlarmsAlwaysOnTime == Spec => AlarmsAreOnTime
<1>1. IInv /\ [Next]_vars => [FiringIsDue]_vars /\ [WakesInTime]_vars
  BY StepOnTime
<1>2. Spec => [][FiringIsDue]_vars /\ [][WakesInTime]_vars
  BY <1>1, IInvInit, IInvNext, PTL DEF Spec
<1>. QED  BY <1>2 DEF AlarmsAreOnTime, OnlySetAlarmsGoOff, SleepsPastADeadlineByRounding, FiringIsDue, WakesInTime

=============================================================================
