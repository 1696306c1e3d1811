--------------------------- MODULE TpProxyProofs ----------------------------
(***************************************************************************)
(* The two objects of a proxied connection stay sound, the byte streams    *)
(* survive, and a side that has lost its peer closes only when it is       *)
(* flushed: for any chunk size, threshold, budget and amount of data.      *)
(***************************************************************************)
EXTENDS TpProxy, FiniteSetTheorems, SequenceTheorems, TLAPS

\* A non-empty set of naturals has a least element.
LEMMA LeastNatural ==
  ASSUME NEW S, S \subseteq Nat, S # {}
  PROVE  \E n \in S : \A m \in S : n <= m
<1> DEFINE T == {0 .. n : n \in S}
<1>1. T \subseteq FiniteSubsetsOf(Nat)
  <2> SUFFICES ASSUME NEW n \in S PROVE 0 .. n \in FiniteSubsetsOf(Nat)
    OBVIOUS
  <2>1. IsFiniteSet(0 .. n)
    BY FS_Interval
  <2> QED
    BY <2>1 DEF FiniteSubsetsOf
<1>2. T # {}
  OBVIOUS
<1>3. \E x \in T : \A y \in T : ~ (<<y, x>> \in StrictSubsetOrdering(Nat))
  <2> HIDE DEF T
  <2> QED
    BY <1>1, <1>2, FS_StrictSubsetOrderingWellFounded, WFMin
<1>4. PICK n \in S : \A y \in T : ~ (<<y, 0 .. n>> \in StrictSubsetOrdering(Nat))
  BY <1>3
<1>5. ASSUME NEW m \in S, m < n PROVE FALSE
  <2>1. 0 .. m \in T /\ 0 .. m \subseteq 0 .. n /\ n \in 0 .. n /\ n \notin 0 .. m
    BY <1>5
  <2>2. 0 .. m \subseteq Nat /\ 0 .. n \subseteq Nat
    OBVIOUS
  <2>3. <<0 .. m, 0 .. n>> \in StrictSubsetOrdering(Nat)
    BY <2>1, <2>2 DEF StrictSubsetOrdering
  <2> QED
    BY <2>1, <2>3, <1>4
<1> QED
  BY <1>5

-------------------------------------------------------------------------------
(* Numbers and sequences. *)

LEMMA MinOfTwo ==
  ASSUME NEW a \in Int, NEW b \in Int
  PROVE  Min({a, b}) = IF a <= b THEN a ELSE b
<1>. DEFINE m == IF a <= b THEN a ELSE b
<1>1. m \in {a, b} /\ \A y \in {a, b} : m <= y
  OBVIOUS
<1>2. ASSUME NEW x \in {a, b}, \A y \in {a, b} : x <= y
      PROVE  x = m
  BY <1>2
<1>. QED  BY <1>1, <1>2 DEF Min

LEMMA MaxOfTwo ==
  ASSUME NEW a \in Int, NEW b \in Int
  PROVE  Max({a, b}) = IF a >= b THEN a ELSE b
<1>. DEFINE m == IF a >= b THEN a ELSE b
<1>1. m \in {a, b} /\ \A y \in {a, b} : m >= y
  OBVIOUS
<1>2. ASSUME NEW x \in {a, b}, \A y \in {a, b} : x >= y
      PROVE  x = m
  BY <1>2
<1>. QED  BY <1>1, <1>2 DEF Max

LEMMA Associative ==
  ASSUME NEW a \in Seq(Nat), NEW b \in Seq(Nat), NEW c \in Seq(Nat)
  PROVE  (a \o b) \o c = a \o (b \o c)
BY ConcatAssociative

\* A sequence of units can be cut anywhere.
LEMMA Cut ==
  ASSUME NEW u \in Seq(Nat), NEW a \in 0 .. Len(u), NEW b \in a .. Len(u)
  PROVE  /\ SubSeq(u, a + 1, b) \in Seq(Nat)
         /\ Len(SubSeq(u, a + 1, b)) = b - a
         /\ SubSeq(u, a + 1, b) \o SubSeq(u, b + 1, Len(u)) = SubSeq(u, a + 1, Len(u))
<1>1. a + 1 \in 1 .. (Len(u) + 1) /\ b \in ((a + 1) - 1) .. Len(u) /\ Len(u) \in b .. Len(u)
  OBVIOUS
<1>2. SubSeq(u, a + 1, b) \o SubSeq(u, b + 1, Len(u)) = SubSeq(u, a + 1, Len(u))
  BY <1>1, ConcatAdjacentSubSeq
<1>3. \A i \in (a + 1) .. b : u[i] \in Nat
  OBVIOUS
<1>4. /\ SubSeq(u, a + 1, b) \in Seq(Nat)
      /\ Len(SubSeq(u, a + 1, b)) = IF a + 1 <= b THEN b - (a + 1) + 1 ELSE 0
  BY <1>3, SubSeqProperties
<1>5. (IF a + 1 <= b THEN b - (a + 1) + 1 ELSE 0) = b - a
  OBVIOUS
<1>6. Len(SubSeq(u, a + 1, b)) = b - a
  BY <1>4, <1>5
<1>. QED  BY <1>2, <1>4, <1>6

LEMMA CutAtStart ==
  ASSUME NEW u \in Seq(Nat), NEW n \in 0 .. Len(u)
  PROVE  /\ SubSeq(u, 1, n) \in Seq(Nat) /\ Len(SubSeq(u, 1, n)) = n
         /\ SubSeq(u, n + 1, Len(u)) \in Seq(Nat) /\ Len(SubSeq(u, n + 1, Len(u))) = Len(u) - n
         /\ SubSeq(u, 1, n) \o SubSeq(u, n + 1, Len(u)) = u
<1>1. 0 \in 0 .. Len(u) /\ n \in 0 .. Len(u) /\ 0 + 1 = 1 /\ Len(u) \in n .. Len(u)
  OBVIOUS
<1>2. /\ SubSeq(u, 0 + 1, n) \in Seq(Nat)
      /\ Len(SubSeq(u, 0 + 1, n)) = n - 0
      /\ SubSeq(u, 0 + 1, n) \o SubSeq(u, n + 1, Len(u)) = SubSeq(u, 0 + 1, Len(u))
  BY <1>1, Cut
<1>3. SubSeq(u, n + 1, Len(u)) \in Seq(Nat) /\ Len(SubSeq(u, n + 1, Len(u))) = Len(u) - n
  BY <1>1, Cut
<1>4. SubSeq(u, 1, Len(u)) = u
  BY SubSeqFull
<1>5. SubSeq(u, 1, n) \in Seq(Nat) /\ Len(SubSeq(u, 1, n)) = n
  BY <1>1, <1>2
<1>6. SubSeq(u, 1, n) \o SubSeq(u, n + 1, Len(u)) = u
  BY <1>1, <1>2, <1>4
<1>. QED  BY <1>3, <1>5, <1>6

LEMMA UnitsType ==
  ASSUME NEW n \in Nat
  PROVE  /\ Units(n) \in Seq(Nat) /\ Len(Units(n)) = n
         /\ \A i \in 1 .. n : Units(n)[i] = i
BY DEF Units

LEMMA UnitsGrow ==
  ASSUME NEW n \in Nat
  PROVE  Units(n + 1) = Units(n) \o <<n + 1>>
<1>1. Units(n) \o <<n + 1>> \in Seq(Nat) /\ Len(Units(n) \o <<n + 1>>) = n + 1
  BY UnitsType
<1>2. \A i \in 1 .. (n + 1) : (Units(n) \o <<n + 1>>)[i] = i
  BY UnitsType
<1>3. Units(n + 1) \in Seq(Nat) /\ Len(Units(n + 1)) = n + 1 /\ \A i \in 1 .. (n + 1) : Units(n + 1)[i] = i
  BY UnitsType
<1>. QED  BY <1>1, <1>2, <1>3, SeqEqual

\* The first part of a stream of units is a stream of units.
LEMMA UnitsCut ==
  ASSUME NEW a \in Seq(Nat), NEW b \in Seq(Nat), NEW n \in Nat, a \o b = Units(n)
  PROVE  Len(a) + Len(b) = n /\ a = Units(Len(a))
<1>1. Len(a \o b) = Len(a) + Len(b)
  OBVIOUS
<1>2. Len(a) + Len(b) = n
  BY <1>1, UnitsType
<1>3. \A i \in 1 .. Len(a) : a[i] = i
  <2>1. TAKE i \in 1 .. Len(a)
  <2>2. (a \o b)[i] = a[i]
    OBVIOUS
  <2>3. i \in 1 .. n
    BY <1>2
  <2>. QED  BY <2>2, <2>3, UnitsType
<1>4. Len(a) \in Nat
  OBVIOUS
<1>5. Units(Len(a)) \in Seq(Nat) /\ Len(Units(Len(a))) = Len(a) /\ \A i \in 1 .. Len(a) : Units(Len(a))[i] = i
  BY <1>4, UnitsType
<1>6. a = Units(Len(a))
  BY <1>3, <1>5, SeqEqual
<1>. QED  BY <1>2, <1>6

LEMMA UnitsPrefix ==
  ASSUME NEW m \in Nat, NEW n \in Nat, m <= n
  PROVE  IsPrefix(Units(m), Units(n))
<1>1. Len(Units(m)) = m /\ Len(Units(n)) = n /\ Units(m) \in Seq(Nat) /\ Units(n) \in Seq(Nat)
  BY UnitsType
<1>2. SubSeq(Units(m), 1, m) \in Seq(Nat) /\ Len(SubSeq(Units(m), 1, m)) = m
      /\ SubSeq(Units(n), 1, m) \in Seq(Nat) /\ Len(SubSeq(Units(n), 1, m)) = m
  BY <1>1, CutAtStart
<1>3. \A i \in 1 .. m : SubSeq(Units(m), 1, m)[i] = i /\ SubSeq(Units(n), 1, m)[i] = i
  BY <1>1, UnitsType
<1>4. SubSeq(Units(m), 1, m) = SubSeq(Units(n), 1, m)
  BY <1>2, <1>3, SeqEqual
<1>. QED  BY <1>1, <1>4 DEF IsPrefix

-------------------------------------------------------------------------------
(* Sockets. *)

LEMMA TakenFacts ==
  ASSUME NEW k \in Socket, NEW n \in Nat
  PROVE  /\ Taken(k, n) \in 0 .. n
         /\ k.room - Taken(k, n) \in 0 .. SendRoom
<1>1. k.room \in 0 .. SendRoom /\ SendRoom \in Nat /\ k.room \in Int /\ n \in Int
  BY SocketAssumption DEF Socket
<1>2. Min({n, k.room}) = IF n <= k.room THEN n ELSE k.room
  BY <1>1, MinOfTwo
<1>3. Taken(k, n) \in 0 .. n
  BY <1>1, <1>2 DEF Taken
<1>4. k.room - Taken(k, n) \in 0 .. SendRoom
  BY <1>1, <1>2 DEF Taken
<1>. QED  BY <1>3, <1>4

\* What calls on a socket leave alone.
SameSocket(j, k) ==
  /\ k.open = j.open /\ k.connecting = j.connecting /\ k.unread = j.unread
  /\ k.eof = j.eof /\ k.dead = j.dead

LEMMA SendFacts ==
  ASSUME NEW k \in Socket, NEW data \in Seq(Nat)
  PROVE  LET n == Taken(k, Len(data))
         IN  /\ Send(k, data) \in Socket /\ SameSocket(k, Send(k, data))
             /\ Send(k, data).room = k.room - n
             /\ Send(k, data).sent = k.sent \o SubSeq(data, 1, n)
             /\ Send(k, data).mask = k.mask /\ Send(k, data).edge = k.edge
<1>. DEFINE n == Taken(k, Len(data))
<1>1. n \in 0 .. Len(data) /\ k.room - n \in 0 .. SendRoom
  BY TakenFacts
<1>2. SubSeq(data, 1, n) \in Seq(Nat)
  BY <1>1, CutAtStart
<1>3. Send(k, data) = [k EXCEPT !.room = @ - n, !.sent = @ \o SubSeq(data, 1, n),
                                !.err = IF k.dead THEN FALSE ELSE @]
  BY DEF Send
<1>. HIDE DEF n
<1>4. k.sent \o SubSeq(data, 1, n) \in Seq(Nat)
  BY <1>2 DEF Socket
<1>5. Send(k, data) \in Socket
  BY <1>1, <1>3, <1>4 DEF Socket
<1>6. SameSocket(k, Send(k, data))
  BY <1>3 DEF Socket, SameSocket
<1>7. /\ Send(k, data).room = k.room - n
      /\ Send(k, data).sent = k.sent \o SubSeq(data, 1, n)
      /\ Send(k, data).mask = k.mask /\ Send(k, data).edge = k.edge
  BY <1>3 DEF Socket
<1>. QED  BY <1>5, <1>6, <1>7 DEF n

LEMMA ArmFacts ==
  ASSUME NEW k \in Socket, NEW mask \in SUBSET Events
  PROVE  LET j == Arm(k, mask)
         IN  /\ j \in Socket /\ SameSocket(k, j)
             /\ j.room = k.room /\ j.sent = k.sent /\ j.mask = mask \cup {"RDHUP"}
             /\ ("OUT" \in mask /\ ~ k.connecting /\ k.room # 0) => j.edge
<1>. DEFINE armed == [k EXCEPT !.mask = mask \cup {"RDHUP"}]
            j == [armed EXCEPT !.edge = Reported(armed) # {}]
<1>1. Arm(k, mask) = j
  BY DEF Arm
<1>2. armed \in Socket /\ armed.mask = mask \cup {"RDHUP"} /\ SameSocket(k, armed)
      /\ armed.room = k.room /\ armed.sent = k.sent
  BY DEF Socket, SameSocket, Events
<1>3. ASSUME "OUT" \in mask, ~ k.connecting, k.room # 0
      PROVE  Reported(armed) # {}
  <2>1. k.room > 0
    BY <1>3, SocketAssumption DEF Socket
  <2>2. "OUT" \in Ready(armed)
    BY <1>2, <1>3, <2>1 DEF Ready, Events, SameSocket
  <2>. QED  BY <1>2, <1>3, <2>2 DEF Reported
<1>. HIDE DEF armed
<1>4. /\ j \in Socket /\ SameSocket(k, j)
      /\ j.room = k.room /\ j.sent = k.sent /\ j.mask = mask \cup {"RDHUP"}
      /\ j.edge = (Reported(armed) # {})
  BY <1>2 DEF Socket, SameSocket
<1>. QED  BY <1>1, <1>3, <1>4

-------------------------------------------------------------------------------
(* One object. *)

\* What writing leaves alone.
Same(x, y) ==
  /\ y.life = x.life /\ y.status = x.status /\ y.peer = x.peer /\ y.closing = x.closing
  /\ y.readAlarm = x.readAlarm /\ SameSocket(x.fd, y.fd)

\* Everything that was given to an object to be sent.
Given(x) == x.fd.sent \o x.buffer

\* What is left of a buffer will be sent: a report of the socket is due, or it is full.
Armed(x) ==
  (x.fd.open /\ x.buffer # <<>> /\ ~ x.fd.dead)
    => "OUT" \in x.fd.mask /\ (x.fd.edge \/ x.fd.room = 0)

LEMMA ProxyFields ==
  ASSUME NEW x \in Proxy
  PROVE  /\ x.fd \in Socket /\ x.buffer \in Seq(Nat) /\ x.budget \in -MaxBudget .. MaxBudget
         /\ x.fd.sent \in Seq(Nat) /\ x.fd.unread \in Seq(Nat)
         /\ Len(x.buffer) \in Nat /\ Len(x.fd.unread) \in Nat
<1>1. x.fd \in Socket /\ x.buffer \in Seq(Nat) /\ x.budget \in -MaxBudget .. MaxBudget
  BY DEF Proxy
<1>2. x.fd.sent \in Seq(Nat) /\ x.fd.unread \in Seq(Nat)
  BY <1>1 DEF Socket
<1>. QED  BY <1>1, <1>2

LEMMA ModifyCallbackFacts ==
  ASSUME NEW x \in Proxy, NEW mask \in SUBSET Events
  PROVE  LET y == ModifyCallback(x, mask)
         IN  /\ y \in Proxy /\ Same(x, y) /\ y.buffer = x.buffer /\ y.fd.sent = x.fd.sent
             /\ ~ x.fd.open => y = x
             /\ x.fd.open => y.fd.mask = mask \cup {"RDHUP"}
             /\ y.fd.room = x.fd.room
             /\ (x.fd.open /\ "OUT" \in mask /\ ~ x.fd.connecting) => Armed(y)
<1>1. CASE ~ x.fd.open
  BY <1>1 DEF ModifyCallback, Same, SameSocket
<1>2. CASE x.fd.open
  <2>. DEFINE j == Arm(x.fd, mask)
              y == [x EXCEPT !.fd = j]
  <2>1. ModifyCallback(x, mask) = y
    BY <1>2 DEF ModifyCallback
  <2>2. /\ j \in Socket /\ SameSocket(x.fd, j)
        /\ j.room = x.fd.room /\ j.sent = x.fd.sent /\ j.mask = mask \cup {"RDHUP"}
        /\ ("OUT" \in mask /\ ~ x.fd.connecting /\ x.fd.room # 0) => j.edge
    BY ProxyFields, ArmFacts
  <2>. HIDE DEF j
  <2>3. y \in Proxy /\ y.fd = j /\ y.buffer = x.buffer /\ Same(x, y)
    BY <2>2 DEF Proxy, Same
  <2>4. (x.fd.open /\ "OUT" \in mask /\ ~ x.fd.connecting) => Armed(y)
    BY <2>2, <2>3 DEF Armed
  <2>. QED  BY <1>2, <2>1, <2>2, <2>3, <2>4
<1>. QED  BY <1>1, <1>2

LEMMA IncreaseBudgetType ==
  ASSUME NEW b \in -MaxBudget .. MaxBudget
  PROVE  IncreaseBudget(b) \in -MaxBudget .. MaxBudget
<1>1. b + Quota \in Int /\ MaxBudget \in Int /\ Quota \in Nat /\ MaxBudget \in Nat /\ Quota <= MaxBudget
  BY ProxyAssumption
<1>2. Min({b + Quota, MaxBudget}) = IF b + Quota <= MaxBudget THEN b + Quota ELSE MaxBudget
  BY <1>1, MinOfTwo
<1>. QED  BY <1>1, <1>2 DEF IncreaseBudget

LEMMA CreateWriteAlarmFacts ==
  ASSUME NEW x \in Proxy
  PROVE  LET y == CreateWriteAlarm(x)
         IN  y \in Proxy /\ Same(x, y) /\ y.fd = x.fd /\ y.buffer = x.buffer
<1>1. IncreaseBudget(x.budget) \in -MaxBudget .. MaxBudget
  BY ProxyFields, IncreaseBudgetType
<1>2. CASE x.writeAlarm
  BY <1>2 DEF CreateWriteAlarm, Same, SameSocket
<1>3. CASE ~ x.writeAlarm
  <2>. DEFINE b == IncreaseBudget(x.budget)
  <2>1. CreateWriteAlarm(x) = [x EXCEPT !.writeAlarm = TRUE, !.budget = b]
    BY <1>3 DEF CreateWriteAlarm
  <2>. HIDE DEF b
  <2>. QED  BY <1>1, <2>1 DEF Proxy, Same, SameSocket, b
<1>. QED  BY <1>2, <1>3

LEMMA FlushableType ==
  ASSUME NEW x \in Proxy
  PROVE  Flushable(x) \in 0 .. Len(x.buffer)
<1>. DEFINE chunks == IF x.budget > 0 THEN (x.budget + ChunkSize - 1) \div ChunkSize ELSE 0
            wanted == chunks * ChunkSize
<1>1. ChunkSize \in Nat /\ ChunkSize > 0 /\ x.budget \in Int /\ Len(x.buffer) \in Nat
  BY ProxyAssumption, ProxyFields
<1>2. chunks \in Nat
  <2>1. x.budget > 0 => x.budget + ChunkSize - 1 \in Nat
    BY <1>1
  <2>2. \A a \in Nat : a \div ChunkSize \in Nat
    BY <1>1
  <2>. QED  BY <2>1, <2>2
<1>3. wanted \in Nat
  <2>. HIDE DEF chunks
  <2>. QED  BY <1>1, <1>2
<1>4. Flushable(x) = Min({Len(x.buffer), wanted})
  BY DEF Flushable
<1>. HIDE DEF wanted
<1>5. Min({Len(x.buffer), wanted}) = IF Len(x.buffer) <= wanted THEN Len(x.buffer) ELSE wanted
  BY <1>1, <1>3, MinOfTwo
<1>. QED  BY <1>1, <1>3, <1>4, <1>5

\* FlushBuffer moves the front of the buffer into the socket.
LEMMA FlushBufferFacts ==
  ASSUME NEW x \in Proxy
  PROVE  LET y == FlushBuffer(x)
         IN  /\ y \in Proxy /\ Same(x, y) /\ Given(y) = Given(x)
             /\ (~ x.fd.open \/ x.buffer = <<>>) => y = x
             /\ y.fd.mask = x.fd.mask
             /\ Armed(x) => Armed(y)
<1>. DEFINE m == Flushable(x)
            intended == SubSeq(x.buffer, 1, m)
            n == Taken(x.fd, Len(intended))
            k == Send(x.fd, intended)
            rest == SubSeq(x.buffer, n + 1, Len(x.buffer))
            b == Max({x.budget - n, -MaxBudget})
            y == [x EXCEPT !.fd = k, !.buffer = rest, !.budget = b]
<1>1. x.fd \in Socket /\ x.buffer \in Seq(Nat) /\ m \in 0 .. Len(x.buffer)
      /\ x.budget \in -MaxBudget .. MaxBudget /\ x.fd.sent \in Seq(Nat)
  BY ProxyFields, FlushableType
<1>2. intended \in Seq(Nat) /\ Len(intended) = m
  BY <1>1, CutAtStart
<1>3. FlushBuffer(x) = IF ~ x.fd.open \/ intended = <<>> THEN x ELSE y
  BY DEF FlushBuffer
<1>4. CASE ~ x.fd.open \/ intended = <<>>
  BY <1>3, <1>4 DEF Same, SameSocket
<1>5. CASE x.fd.open /\ intended # <<>>
  <2>1. n \in 0 .. m /\ x.fd.room - n \in 0 .. SendRoom
    <3>1. Len(intended) \in Nat
      BY <1>2
    <3>2. n \in 0 .. Len(intended) /\ x.fd.room - n \in 0 .. SendRoom
      <4>. HIDE DEF intended
      <4>. QED  BY <1>1, <3>1, TakenFacts
    <3>. QED  BY <1>2, <3>2
  <2>2. n \in 0 .. Len(x.buffer) /\ n \in Int
    BY <1>1, <2>1
  <2>3. rest \in Seq(Nat) /\ SubSeq(x.buffer, 1, n) \in Seq(Nat)
        /\ SubSeq(x.buffer, 1, n) \o rest = x.buffer
    BY <1>1, <2>2, CutAtStart
  <2>4. SubSeq(intended, 1, n) = SubSeq(x.buffer, 1, n)
    <3>1. SubSeq(intended, 1, n) \in Seq(Nat) /\ Len(SubSeq(intended, 1, n)) = n
          /\ SubSeq(x.buffer, 1, n) \in Seq(Nat) /\ Len(SubSeq(x.buffer, 1, n)) = n
      BY <1>1, <1>2, <2>1, <2>2, CutAtStart
    <3>2. \A i \in 1 .. n : SubSeq(intended, 1, n)[i] = SubSeq(x.buffer, 1, n)[i]
      <4>1. TAKE i \in 1 .. n
      <4>2. i \in 1 .. m
        BY <1>1, <2>1
      <4>3. SubSeq(x.buffer, 1, m)[i] = x.buffer[i]
        BY <1>1, <4>2
      <4>4. SubSeq(x.buffer, 1, n)[i] = x.buffer[i]
        BY <1>1, <2>2
      <4>5. SubSeq(intended, 1, n)[i] = intended[i]
        BY <1>2, <2>1
      <4>. QED  BY <4>3, <4>4, <4>5
    <3>. QED  BY <3>1, <3>2, SeqEqual
  <2>5. /\ k \in Socket /\ SameSocket(x.fd, k)
        /\ k.room = x.fd.room - n
        /\ k.sent = x.fd.sent \o SubSeq(x.buffer, 1, n)
        /\ k.mask = x.fd.mask /\ k.edge = x.fd.edge
    BY <1>1, <1>2, <2>4, SendFacts
  <2>6. b \in -MaxBudget .. MaxBudget
    <3>1. x.budget - n \in Int /\ -MaxBudget \in Int /\ x.budget - n <= MaxBudget /\ MaxBudget \in Nat
      BY <1>1, <2>1, ProxyAssumption
    <3>2. b = IF x.budget - n >= -MaxBudget THEN x.budget - n ELSE -MaxBudget
      BY <3>1, MaxOfTwo
    <3>. HIDE DEF n
    <3>. QED  BY <3>1, <3>2
  <2>7. x.fd.room = 0 => k.room = 0
    <3>1. x.fd.room = 0 => n = 0
      <4>. HIDE DEF n
      <4>. QED  BY <2>1, <2>2
    <3>. HIDE DEF n, k
    <3>. QED  BY <2>5, <3>1
  <2>8. x.buffer = <<>> => intended = <<>>
    BY <1>2, <1>1
  <2>. HIDE DEF k, rest, b, n
  <2>9. y \in Proxy /\ y.fd = k /\ y.buffer = rest /\ Same(x, y)
    BY <2>3, <2>5, <2>6 DEF Proxy, Same
  <2>10. Given(y) = Given(x)
    <3>. DEFINE front == SubSeq(x.buffer, 1, n)
    <3>1. (x.fd.sent \o front) \o rest = x.fd.sent \o (front \o rest)
      <4>1. front \in Seq(Nat) /\ rest \in Seq(Nat) /\ x.fd.sent \in Seq(Nat)
        BY <1>1, <2>3
      <4>. HIDE DEF front
      <4>. QED  BY <4>1, Associative
    <3>. QED  BY <2>3, <2>5, <2>9, <3>1 DEF Given
  <2>11. Armed(x) => Armed(y)
    <3>1. x.buffer # <<>>
      BY <1>5, <2>8
    <3>. QED  BY <2>5, <2>7, <2>9, <3>1 DEF Armed, SameSocket
  <2>12. FlushBuffer(x) = y
    BY <1>3, <1>5
  <2>. HIDE DEF y
  <2>. QED  BY <1>5, <2>5, <2>8, <2>9, <2>10, <2>11, <2>12
<1>. QED  BY <1>4, <1>5

\* OnWriteEvent flushes and asks for a report if anything is left.
LEMMA FlushAndArmFacts ==
  ASSUME NEW x \in Proxy
  PROVE  LET y == FlushAndArm(x)
         IN  /\ y \in Proxy /\ Same(x, y) /\ Given(y) = Given(x)
             /\ ~ x.fd.open => y = x
             /\ "IN" \notin x.fd.mask => "IN" \notin y.fd.mask
             /\ ~ x.fd.connecting => Armed(y)
<1>. DEFINE f == FlushBuffer(x)
            mask == IF f.buffer # <<>> THEN {"OUT"} ELSE {}
            y == ModifyCallback(f, mask)
<1>1. /\ f \in Proxy /\ Same(x, f) /\ Given(f) = Given(x)
      /\ (~ x.fd.open \/ x.buffer = <<>>) => f = x
      /\ f.fd.mask = x.fd.mask
  BY FlushBufferFacts
<1>2. FlushAndArm(x) = y
  BY DEF FlushAndArm
<1>3. mask \in SUBSET Events /\ "IN" \notin mask
  BY DEF Events
<1>4. f.buffer # <<>> => "OUT" \in mask
  OBVIOUS
<1>. HIDE DEF f, mask
<1>5. /\ y \in Proxy /\ Same(f, y) /\ y.buffer = f.buffer /\ y.fd.sent = f.fd.sent
      /\ ~ f.fd.open => y = f
      /\ f.fd.open => y.fd.mask = mask \cup {"RDHUP"}
      /\ (f.fd.open /\ "OUT" \in mask /\ ~ f.fd.connecting) => Armed(y)
  BY <1>1, <1>3, ModifyCallbackFacts
<1>. HIDE DEF y
<1>6. Same(x, y)
  BY <1>1, <1>5 DEF Same, SameSocket
<1>7. Given(y) = Given(x)
  BY <1>1, <1>5 DEF Given
<1>8. ~ x.fd.open => y = x
  BY <1>1, <1>5 DEF Same, SameSocket
<1>9. "IN" \notin x.fd.mask => "IN" \notin y.fd.mask
  <2>1. CASE f.fd.open
    BY <1>3, <1>5, <2>1
  <2>2. CASE ~ f.fd.open
    BY <1>1, <1>5, <2>2
  <2>. QED  BY <2>1, <2>2
<1>10. ~ x.fd.connecting => Armed(y)
  <2>1. CASE f.fd.open /\ f.buffer # <<>>
    BY <1>1, <1>4, <1>5, <2>1 DEF Same, SameSocket
  <2>2. CASE ~ f.fd.open \/ f.buffer = <<>>
    <3>1. ~ y.fd.open \/ y.buffer = <<>>
      BY <1>5, <2>2 DEF Same, SameSocket
    <3>. QED  BY <3>1 DEF Armed
  <2>. QED  BY <2>1, <2>2
<1>. QED  BY <1>2, <1>5, <1>6, <1>7, <1>8, <1>9, <1>10

LEMMA AppendToBufferFacts ==
  ASSUME NEW x \in Proxy, NEW data \in Seq(Nat)
  PROVE  LET y == AppendToBuffer(x, data)
         IN  /\ y \in Proxy /\ Same(x, y) /\ Given(y) = Given(x) \o data
             /\ x.buffer # <<>> /\ Armed(x) => Armed(y)
<1>. DEFINE longer == x.buffer \o data
            y == [x EXCEPT !.buffer = longer]
<1>1. x.fd.sent \in Seq(Nat) /\ x.buffer \in Seq(Nat)
  BY ProxyFields
<1>2. longer \in Seq(Nat)
  BY <1>1
<1>3. AppendToBuffer(x, data) = y
  BY DEF AppendToBuffer
<1>4. y \in Proxy /\ y.buffer = longer /\ y.fd = x.fd /\ Same(x, y)
  <2>. HIDE DEF longer
  <2>. QED  BY <1>2 DEF Proxy, Same, SameSocket
<1>5. Given(y) = Given(x) \o data
  <2>1. (x.fd.sent \o x.buffer) \o data = x.fd.sent \o (x.buffer \o data)
    BY <1>1, Associative
  <2>2. Given(y) = x.fd.sent \o (x.buffer \o data)
    BY <1>4 DEF Given
  <2>. QED  BY <2>1, <2>2 DEF Given
<1>6. x.buffer # <<>> /\ Armed(x) => Armed(y)
  <2>. HIDE DEF y, longer
  <2>. QED  BY <1>4 DEF Armed
<1>. HIDE DEF y, longer
<1>. QED  BY <1>3, <1>4, <1>5, <1>6

LEMMA SendNowFacts ==
  ASSUME NEW x \in Proxy, NEW data \in Seq(Nat),
         x.fd.open, ~ x.fd.connecting, x.buffer = <<>>
  PROVE  LET y == SendNow(x, data)
         IN  y \in Proxy /\ Same(x, y) /\ Given(y) = Given(x) \o data /\ Armed(y)
<1>. DEFINE n == Taken(x.fd, Len(data))
            k == Send(x.fd, data)
            rest == SubSeq(data, n + 1, Len(data))
            sent == [x EXCEPT !.fd = k, !.buffer = rest]
            y == ModifyCallback(sent, {"IN", "OUT"})
<1>1. x.fd \in Socket /\ x.fd.sent \in Seq(Nat) /\ Len(data) \in Nat
  BY ProxyFields
<1>2. n \in 0 .. Len(data)
  BY <1>1, TakenFacts
<1>3. /\ k \in Socket /\ SameSocket(x.fd, k)
      /\ k.sent = x.fd.sent \o SubSeq(data, 1, n)
  BY <1>1, SendFacts
<1>4. /\ SubSeq(data, 1, n) \in Seq(Nat) /\ rest \in Seq(Nat) /\ Len(rest) = Len(data) - n
      /\ SubSeq(data, 1, n) \o rest = data
  <2>. HIDE DEF n
  <2>. QED  BY <1>2, CutAtStart
<1>5. SendNow(x, data) = IF n = Len(data) THEN sent ELSE y
  BY DEF SendNow
<1>. HIDE DEF k, rest, n
<1>6. sent \in Proxy /\ sent.fd = k /\ sent.buffer = rest /\ Same(x, sent)
  BY <1>3, <1>4 DEF Proxy, Same
<1>. HIDE DEF sent
<1>7. Given(sent) = Given(x) \o data
  <2>. DEFINE front == SubSeq(data, 1, n)
  <2>1. (x.fd.sent \o front) \o rest = x.fd.sent \o (front \o rest)
    <3>1. front \in Seq(Nat)
      BY <1>4
    <3>. HIDE DEF front
    <3>. QED  BY <1>1, <1>4, <3>1, Associative
  <2>2. Given(x) = x.fd.sent
    BY <1>1, ConcatEmptySeq DEF Given
  <2>. QED  BY <1>3, <1>4, <1>6, <2>1, <2>2 DEF Given
<1>8. CASE n = Len(data)
  <2>1. rest = <<>>
    BY <1>1, <1>4, <1>8
  <2>. QED  BY <1>5, <1>6, <1>7, <1>8, <2>1 DEF Armed
<1>9. CASE n # Len(data)
  <2>1. {"IN", "OUT"} \in SUBSET Events
    BY DEF Events
  <2>2. sent.fd.open /\ ~ sent.fd.connecting
    BY <1>6 DEF Same, SameSocket
  <2>3. /\ y \in Proxy /\ Same(sent, y) /\ y.buffer = sent.buffer /\ y.fd.sent = sent.fd.sent
        /\ Armed(y)
    BY <1>6, <2>1, <2>2, ModifyCallbackFacts
  <2>. HIDE DEF y
  <2>4. Same(x, y)
    BY <1>6, <2>3 DEF Same, SameSocket
  <2>5. Given(y) = Given(x) \o data
    BY <1>7, <2>3 DEF Given
  <2>. QED  BY <1>5, <1>9, <2>3, <2>4, <2>5
<1>. QED  BY <1>8, <1>9

\* SendData adds to what was given to an open object, in order, and leaves it armed.
LEMMA SendDataFacts ==
  ASSUME NEW x \in Proxy, NEW data \in Seq(Nat),
         x.fd.open => x.status = "connected" /\ ~ x.fd.connecting
  PROVE  LET y == SendData(x, data)
         IN  /\ y \in Proxy /\ Same(x, y)
             /\ ~ x.fd.open => y = x
             /\ x.fd.open => Given(y) = Given(x) \o data
             /\ Armed(x) => Armed(y)
<1>. DEFINE w == CreateWriteAlarm(x)
            f == FlushBuffer(w)
            y == SendData(x, data)
<1>1. CASE ~ x.fd.open
  <2>1. y = x
    BY <1>1 DEF SendData
  <2>. QED  BY <1>1, <2>1 DEF Same, SameSocket
<1>2. CASE x.fd.open
  <2>1. w \in Proxy /\ Same(x, w) /\ w.fd = x.fd /\ w.buffer = x.buffer
    BY CreateWriteAlarmFacts
  <2>2. y = IF f.buffer # <<>> THEN AppendToBuffer(f, data) ELSE SendNow(f, data)
    BY <1>2 DEF SendData
  <2>. HIDE DEF w, y
  <2>3. f \in Proxy /\ Same(w, f) /\ Given(f) = Given(w) /\ (Armed(w) => Armed(f))
    BY <2>1, FlushBufferFacts
  <2>. HIDE DEF f
  <2>4. Same(x, f) /\ Given(f) = Given(x) /\ (Armed(x) => Armed(f))
    BY <2>1, <2>3 DEF Same, SameSocket, Given, Armed
  <2>5. CASE f.buffer # <<>>
    <3>1. y = AppendToBuffer(f, data)
      BY <2>2, <2>5
    <3>2. /\ y \in Proxy /\ Same(f, y) /\ Given(y) = Given(f) \o data
          /\ f.buffer # <<>> /\ Armed(f) => Armed(y)
      BY <2>3, <3>1, AppendToBufferFacts
    <3>3. Same(x, y)
      BY <2>4, <3>2 DEF Same, SameSocket
    <3>. QED  BY <1>2, <2>4, <2>5, <3>2, <3>3 DEF y
  <2>6. CASE f.buffer = <<>>
    <3>1. y = SendNow(f, data)
      BY <2>2, <2>6
    <3>2. f.fd.open /\ ~ f.fd.connecting
      BY <1>2, <2>4 DEF Same, SameSocket
    <3>3. y \in Proxy /\ Same(f, y) /\ Given(y) = Given(f) \o data /\ Armed(y)
      BY <2>3, <2>6, <3>1, <3>2, SendNowFacts
    <3>4. Same(x, y)
      BY <2>4, <3>3 DEF Same, SameSocket
    <3>. QED  BY <1>2, <2>4, <3>3, <3>4 DEF y
  <2>. QED  BY <2>5, <2>6
<1>. QED  BY <1>1, <1>2

\* CloseAlone leaves nothing open, and all that was sent, read and buffered as it is.
LEMMA CloseAloneFacts ==
  ASSUME NEW x \in Proxy, x.life = "live" <=> x.fd.open
  PROVE  LET y == CloseAlone(x)
         IN  /\ y \in Proxy /\ y.life # "live" /\ ~ y.fd.open /\ ~ y.peer
             /\ y.life = "none" => x.life = "none"
             /\ y.status = IF x.fd.open THEN "disconnect" ELSE x.status
             /\ y.buffer = x.buffer /\ y.closing = x.closing /\ y.readAlarm = x.readAlarm
             /\ y.fd.sent = x.fd.sent /\ y.fd.unread = x.fd.unread /\ y.fd.eof = x.fd.eof
             /\ y.fd.dead = x.fd.dead /\ y.fd.connecting = x.fd.connecting
             /\ y.fd.mask \subseteq x.fd.mask
<1>. DEFINE k == CloseSocket(x.fd)
            c == [x EXCEPT !.fd = k, !.status = "disconnect", !.peer = FALSE]
            d == [x EXCEPT !.peer = FALSE]
<1>1. /\ k \in Socket /\ ~ k.open /\ k.mask = {} /\ k.sent = x.fd.sent /\ k.unread = x.fd.unread
      /\ k.eof = x.fd.eof /\ k.dead = x.fd.dead /\ k.connecting = x.fd.connecting
  BY ProxyFields DEF CloseSocket, Socket
<1>2. CloseAlone(x) = DeleteSelf(IF x.fd.open THEN c ELSE d)
  BY DEF CloseAlone
<1>3. CASE x.fd.open
  <2>. HIDE DEF k
  <2>1. c.life = "live"
    BY <1>3 DEF Proxy
  <2>2. CloseAlone(x) = [c EXCEPT !.life = "destroyed"]
    BY <1>2, <1>3, <2>1 DEF DeleteSelf
  <2>. QED  BY <1>1, <1>3, <2>2 DEF Proxy
<1>4. CASE ~ x.fd.open
  <2>1. d.life # "live"
    BY <1>4 DEF Proxy
  <2>2. CloseAlone(x) = d
    BY <1>2, <1>4, <2>1 DEF DeleteSelf
  <2>. QED  BY <1>4, <2>2 DEF Proxy
<1>. QED  BY <1>3, <1>4

\* What the peer does when it is told: it closes if it has nothing to send.
LEMMA NotifyCloseFacts ==
  ASSUME NEW x \in Proxy, x.life = "live" <=> x.fd.open
  PROVE  LET y == NotifyClose(x)
         IN  /\ y \in Proxy /\ (y.life = "live" <=> y.fd.open) /\ ~ y.peer
             /\ y.life = "none" => x.life = "none"
             /\ y.fd.open <=> (x.fd.open /\ x.buffer # <<>>)
             /\ y.status = IF x.fd.open /\ ~ y.fd.open THEN "disconnect" ELSE x.status
             /\ y.buffer = x.buffer /\ y.readAlarm = x.readAlarm
             /\ y.fd.sent = x.fd.sent /\ y.fd.unread = x.fd.unread /\ y.fd.eof = x.fd.eof
             /\ y.fd.dead = x.fd.dead /\ y.fd.connecting = x.fd.connecting
             /\ y.fd.mask \subseteq x.fd.mask
             /\ y.fd.open => y.fd = x.fd
<1>. DEFINE z == [x EXCEPT !.closing = TRUE]
            e == [x EXCEPT !.peer = FALSE, !.closing = TRUE]
<1>1. CASE x.buffer = <<>>
  <2>1. /\ z \in Proxy /\ z.fd = x.fd /\ z.buffer = x.buffer /\ z.status = x.status
        /\ z.life = x.life /\ z.readAlarm = x.readAlarm
    BY DEF Proxy
  <2>2. NotifyClose(x) = CloseAlone(z)
    BY <1>1 DEF NotifyClose
  <2>. HIDE DEF z
  <2>3. z.life = "live" <=> z.fd.open
    BY <2>1
  <2>. DEFINE y == CloseAlone(z)
  <2>4. /\ y \in Proxy /\ y.life # "live" /\ ~ y.fd.open /\ ~ y.peer
        /\ y.life = "none" => z.life = "none"
        /\ y.status = IF z.fd.open THEN "disconnect" ELSE z.status
        /\ y.buffer = z.buffer /\ y.closing = z.closing /\ y.readAlarm = z.readAlarm
        /\ y.fd.sent = z.fd.sent /\ y.fd.unread = z.fd.unread /\ y.fd.eof = z.fd.eof
        /\ y.fd.dead = z.fd.dead /\ y.fd.connecting = z.fd.connecting
        /\ y.fd.mask \subseteq z.fd.mask
    BY <2>1, <2>3, CloseAloneFacts
  <2>. HIDE DEF y
  <2>5. NotifyClose(x) = y
    BY <2>2 DEF y
  <2>. QED  BY <1>1, <2>1, <2>4, <2>5
<1>2. CASE x.buffer # <<>>
  <2>1. NotifyClose(x) = e
    BY <1>2 DEF NotifyClose
  <2>2. /\ e \in Proxy /\ e.fd = x.fd /\ e.buffer = x.buffer /\ e.status = x.status
        /\ e.life = x.life /\ e.readAlarm = x.readAlarm /\ ~ e.peer
    BY DEF Proxy
  <2>. HIDE DEF e
  <2>. QED  BY <1>2, <2>1, <2>2
<1>. QED  BY <1>1, <1>2

-------------------------------------------------------------------------------
(* The objects of a connection. *)

Pairs == [left : Proxy, right : Proxy, fault : {"none", "FlushBuffer", "OnReadEvent"}]

LEMMA Others ==
  ASSUME NEW s \in Sides
  PROVE  Other(s) \in Sides /\ Other(s) # s /\ Other(Other(s)) = s
         /\ \A r \in Sides : r = s \/ r = Other(s)
BY DEF Sides, Other

LEMMA PairsHave ==
  ASSUME NEW p \in Pairs, NEW s \in Sides
  PROVE  p[s] \in Proxy
BY DEF Pairs, Sides

\* The pair with another object at side s.
Put(p, s, x) == [p EXCEPT ![s] = x]

LEMMA PutFacts ==
  ASSUME NEW p \in Pairs, NEW s \in Sides, NEW x \in Proxy
  PROVE  /\ Put(p, s, x) \in Pairs /\ Put(p, s, x).fault = p.fault
         /\ Put(p, s, x)[s] = x /\ Put(p, s, x)[Other(s)] = p[Other(s)]
<1>1. CASE s = "left"
  BY <1>1 DEF Pairs, Other, Put
<1>2. CASE s = "right"
  BY <1>2 DEF Pairs, Other, Put
<1>. QED  BY <1>1, <1>2 DEF Sides

LEMMA PutBoth ==
  ASSUME NEW p \in Pairs, NEW s \in Sides, NEW x \in Proxy, NEW y \in Proxy
  PROVE  LET q == Put(Put(p, s, x), Other(s), y)
         IN  q \in Pairs /\ q.fault = p.fault /\ q[s] = x /\ q[Other(s)] = y
BY PutFacts, Others

\* An object of one side s is in a state that its methods keep.
OwnSound(s, x) ==
  /\ x.life = "live" <=> x.fd.open
  /\ x.closing => ~ x.peer
  /\ x.fd.dead => x.fd.eof
  /\ x.fd.open => x.status # "disconnect"
  /\ x.status = "connecting" => x.fd.open /\ s = "right"
  /\ (x.fd.open /\ x.fd.connecting) =>
       x.status = "connecting" /\ x.fd.unread = <<>> /\ ~ x.fd.eof /\ ~ x.fd.dead

Linked(q, s) == q[s].peer => q[Other(s)].life = "live" /\ q[Other(s)].peer

\* Of the n units that came in at the other side, x is given those that are not
\* unread; what was sent when it is closed is a first part of them, or all of them
\* if its own remote host goes on.
Passed(x, n, unread) ==
  /\ Len(unread) <= n
  /\ x.fd.open => Given(x) \o unread = Units(n)
  /\ ~ x.fd.open => /\ x.fd.sent = Units(Len(x.fd.sent))
                    /\ Len(x.fd.sent) <= n - Len(unread)
                    /\ ~ x.fd.eof => Len(x.fd.sent) = n - Len(unread)

\* The pair is sound when n[s] units came in at each side s, and the sides in armed are.
Good(q, n, armed) ==
  /\ q \in Pairs
  /\ \A s \in Sides :
       /\ OwnSound(s, q[s]) /\ Linked(q, s)
       /\ Passed(q[s], n[Other(s)], q[Other(s)].fd.unread)
  /\ \A s \in armed : Armed(q[s])

\* While the right side connects nothing is read from the left one, and a report that
\* it is connected will come.
Quiet(q) ==
  q.right.status = "connecting" =>
    /\ q.right.buffer = <<>> /\ q.right.fd.room = SendRoom
    /\ "IN" \in q.right.fd.mask /\ "OUT" \in q.right.fd.mask
    /\ ~ q.left.readAlarm /\ ~ q.right.readAlarm /\ "IN" \notin q.left.fd.mask

\* What no method changes, or only by closing.
Kept(p, q) ==
  \A s \in Sides :
    /\ q[s].fd.eof = p[s].fd.eof /\ q[s].fd.connecting = p[s].fd.connecting
    /\ q[s].status \in {p[s].status, "disconnect"}
    /\ q[s].life = "none" => p[s].life = "none"

LEMMA KeptTransitive ==
  ASSUME NEW p, NEW q, NEW r, Kept(p, q), Kept(q, r)
  PROVE  Kept(p, r)
BY DEF Kept

LEMMA GoodSide ==
  ASSUME NEW q, NEW n, NEW armed, Good(q, n, armed), NEW s \in Sides
  PROVE  /\ q \in Pairs /\ q[s] \in Proxy /\ OwnSound(s, q[s]) /\ Linked(q, s)
         /\ Passed(q[s], n[Other(s)], q[Other(s)].fd.unread)
BY PairsHave DEF Good

\* To show that a pair is good, look at one side and the other.
LEMMA GoodBySides ==
  ASSUME NEW q \in Pairs, NEW n, NEW armed, NEW s \in Sides,
         OwnSound(s, q[s]), OwnSound(Other(s), q[Other(s)]),
         Linked(q, s), Linked(q, Other(s)),
         Passed(q[s], n[Other(s)], q[Other(s)].fd.unread),
         Passed(q[Other(s)], n[s], q[s].fd.unread),
         \A r \in armed : Armed(q[r])
  PROVE  Good(q, n, armed)
<1>1. \A r \in Sides : r = s \/ r = Other(s)
  BY Others
<1>2. Other(Other(s)) = s
  BY Others
<1>. QED  BY <1>1, <1>2 DEF Good

\* Writing on one side.
LEMMA GoodWrite ==
  ASSUME NEW p, NEW n, NEW armed \in SUBSET Sides, Good(p, n, armed), NEW s \in Sides,
         NEW x \in Proxy, Same(p[s], x),
         ~ p[s].fd.open => x.fd.sent = p[s].fd.sent,
         p[s].fd.open => Given(x) = Given(p[s])
  PROVE  LET q == Put(p, s, x)
         IN  /\ Good(q, n, armed \ {s}) /\ Kept(p, q)
             /\ Armed(x) => Good(q, n, armed \cup {s})
<1>. DEFINE q == Put(p, s, x)
            o == Other(s)
<1>1. /\ p \in Pairs /\ OwnSound(s, p[s]) /\ OwnSound(o, p[o]) /\ Linked(p, s) /\ Linked(p, o)
      /\ Passed(p[s], n[o], p[o].fd.unread) /\ Passed(p[o], n[s], p[s].fd.unread)
      /\ \A r \in armed : Armed(p[r])
      /\ Other(o) = s /\ o \in Sides /\ \A r \in Sides : r = s \/ r = o
  BY GoodSide, Others DEF Good
<1>2. q \in Pairs /\ q[s] = x /\ q[o] = p[o]
  BY <1>1, PutFacts
<1>. HIDE DEF q, o
<1>3. OwnSound(s, q[s]) /\ OwnSound(o, q[o])
  BY <1>1, <1>2 DEF OwnSound, Same, SameSocket
<1>4. Linked(q, s) /\ Linked(q, o)
  BY <1>1, <1>2 DEF Linked, Same, o
<1>5. Passed(q[s], n[o], q[o].fd.unread)
  BY <1>1, <1>2 DEF Passed, Same, SameSocket
<1>6. Passed(q[o], n[s], q[s].fd.unread)
  BY <1>1, <1>2 DEF Same, SameSocket
<1>7. \A r \in armed \ {s} : Armed(q[r])
  BY <1>1, <1>2
<1>8. Armed(x) => \A r \in armed \cup {s} : Armed(q[r])
  BY <1>1, <1>2
<1>9. Kept(p, q)
  BY <1>1, <1>2 DEF Kept, Same, SameSocket
<1>10. Good(q, n, armed \ {s})
  BY <1>2, <1>3, <1>4, <1>5, <1>6, <1>7, GoodBySides DEF o
<1>11. Armed(x) => Good(q, n, armed \cup {s})
  BY <1>2, <1>3, <1>4, <1>5, <1>6, <1>8, GoodBySides DEF o
<1>. QED  BY <1>9, <1>10, <1>11 DEF q

LEMMA PassedWhenClosed ==
  ASSUME NEW x \in Proxy, NEW n \in Nat, NEW unread \in Seq(Nat), Passed(x, n, unread),
         NEW y \in Proxy, ~ y.fd.open, y.fd.sent = x.fd.sent, y.fd.eof = x.fd.eof,
         x.fd.open => x.fd.eof \/ x.buffer = <<>>
  PROVE  Passed(y, n, unread)
<1>. DEFINE a == x.fd.sent \o x.buffer
<1>1. CASE ~ x.fd.open
  BY <1>1 DEF Passed
<1>2. CASE x.fd.open
  <2>1. /\ x.fd.sent \in Seq(Nat) /\ x.buffer \in Seq(Nat) /\ a \in Seq(Nat) /\ Len(a) \in Nat
        /\ Len(x.fd.sent) \in Nat /\ Len(x.buffer) \in Nat /\ Len(unread) \in Nat
    <3>1. x.fd.sent \in Seq(Nat) /\ x.buffer \in Seq(Nat)
      BY ProxyFields
    <3>2. a \in Seq(Nat)
      BY <3>1
    <3>. HIDE DEF a
    <3>3. Len(a) \in Nat /\ Len(x.fd.sent) \in Nat /\ Len(x.buffer) \in Nat /\ Len(unread) \in Nat
      BY <3>1, <3>2
    <3>. QED  BY <3>1, <3>2, <3>3
  <2>2. a \o unread = Units(n)
    BY <1>2 DEF Passed, Given
  <2>3. Len(a) + Len(unread) = n /\ a = Units(Len(a))
    <3>. HIDE DEF a
    <3>. QED  BY <2>1, <2>2, UnitsCut
  <2>4. Len(x.fd.sent) + Len(x.buffer) = Len(a) /\ x.fd.sent = Units(Len(x.fd.sent))
    <3>1. x.fd.sent \o x.buffer = Units(Len(a))
      BY <2>3
    <3>. QED  BY <2>1, <3>1, UnitsCut
  <2>5. x.buffer = <<>> => Len(x.buffer) = 0
    OBVIOUS
  <2>. HIDE DEF a
  <2>. DEFINE given == Len(a)
              sent == Len(x.fd.sent)
              waiting == Len(x.buffer)
              left == Len(unread)
  <2>6. /\ left <= n /\ sent <= n - left
        /\ waiting = 0 => sent = n - left
    <3>1. given \in Nat /\ sent \in Nat /\ waiting \in Nat /\ left \in Nat
          /\ given + left = n /\ sent + waiting = given
      BY <2>1, <2>3, <2>4
    <3>. HIDE DEF given, sent, waiting, left
    <3>. QED  BY <3>1
  <2>7. x.buffer = <<>> => Len(x.fd.sent) = n - Len(unread)
    BY <2>5, <2>6
  <2>. QED  BY <1>2, <2>4, <2>6, <2>7 DEF Passed
<1>. QED  BY <1>1, <1>2

\* CloseFd keeps the pair sound if its object has sent everything, or the remote host
\* has finished.
LEMMA CloseFdGood ==
  ASSUME NEW p, NEW n \in [Sides -> Nat], NEW armed \in SUBSET Sides, Good(p, n, armed),
         NEW s \in Sides, p[s].fd.open => p[s].fd.eof \/ p[s].buffer = <<>>
  PROVE  LET q == CloseFd(p, s)
         IN  Good(q, n, armed \cup {s}) /\ Kept(p, q) /\ (Quiet(p) => Quiet(q))
<1>. DEFINE q == CloseFd(p, s)
            o == Other(s)
            x == CloseAlone(p[s])
            y == NotifyClose(p[o])
<1>1. /\ p \in Pairs /\ p[s] \in Proxy /\ p[o] \in Proxy
      /\ OwnSound(s, p[s]) /\ OwnSound(o, p[o]) /\ Linked(p, s) /\ Linked(p, o)
      /\ Passed(p[s], n[o], p[o].fd.unread) /\ Passed(p[o], n[s], p[s].fd.unread)
      /\ \A r \in armed : Armed(p[r])
      /\ Other(o) = s /\ o \in Sides /\ \A r \in Sides : r = s \/ r = o
  BY GoodSide, Others DEF Good
<1>2. p[s].life = "live" <=> p[s].fd.open
  BY <1>1 DEF OwnSound
<1>3. p[o].life = "live" <=> p[o].fd.open
  BY <1>1 DEF OwnSound
<1>4. /\ x \in Proxy /\ x.life # "live" /\ ~ x.fd.open /\ ~ x.peer
      /\ x.life = "none" => p[s].life = "none"
      /\ x.status = IF p[s].fd.open THEN "disconnect" ELSE p[s].status
      /\ x.buffer = p[s].buffer /\ x.closing = p[s].closing /\ x.readAlarm = p[s].readAlarm
      /\ x.fd.sent = p[s].fd.sent /\ x.fd.unread = p[s].fd.unread /\ x.fd.eof = p[s].fd.eof
      /\ x.fd.dead = p[s].fd.dead /\ x.fd.connecting = p[s].fd.connecting
      /\ x.fd.mask \subseteq p[s].fd.mask
  <2>. DEFINE z == p[s]
  <2>1. z \in Proxy /\ (z.life = "live" <=> z.fd.open)
    BY <1>1, <1>2
  <2>. HIDE DEF z
  <2>2. LET c == CloseAlone(z)
        IN  /\ c \in Proxy /\ c.life # "live" /\ ~ c.fd.open /\ ~ c.peer
            /\ c.life = "none" => z.life = "none"
            /\ c.status = IF z.fd.open THEN "disconnect" ELSE z.status
            /\ c.buffer = z.buffer /\ c.closing = z.closing /\ c.readAlarm = z.readAlarm
            /\ c.fd.sent = z.fd.sent /\ c.fd.unread = z.fd.unread /\ c.fd.eof = z.fd.eof
            /\ c.fd.dead = z.fd.dead /\ c.fd.connecting = z.fd.connecting
            /\ c.fd.mask \subseteq z.fd.mask
    BY <2>1, CloseAloneFacts
  <2>. QED  BY <2>2 DEF z
<1>5. /\ y \in Proxy /\ (y.life = "live" <=> y.fd.open) /\ ~ y.peer
      /\ y.life = "none" => p[o].life = "none"
      /\ y.fd.open <=> (p[o].fd.open /\ p[o].buffer # <<>>)
      /\ y.status = IF p[o].fd.open /\ ~ y.fd.open THEN "disconnect" ELSE p[o].status
      /\ y.buffer = p[o].buffer /\ y.readAlarm = p[o].readAlarm
      /\ y.fd.sent = p[o].fd.sent /\ y.fd.unread = p[o].fd.unread /\ y.fd.eof = p[o].fd.eof
      /\ y.fd.dead = p[o].fd.dead /\ y.fd.connecting = p[o].fd.connecting
      /\ y.fd.mask \subseteq p[o].fd.mask
      /\ y.fd.open => y.fd = p[o].fd
  <2>. DEFINE z == p[o]
  <2>1. z \in Proxy /\ (z.life = "live" <=> z.fd.open)
    BY <1>1, <1>3
  <2>. HIDE DEF z
  <2>2. LET c == NotifyClose(z)
        IN  /\ c \in Proxy /\ (c.life = "live" <=> c.fd.open) /\ ~ c.peer
            /\ c.life = "none" => z.life = "none"
            /\ c.fd.open <=> (z.fd.open /\ z.buffer # <<>>)
            /\ c.status = IF z.fd.open /\ ~ c.fd.open THEN "disconnect" ELSE z.status
            /\ c.buffer = z.buffer /\ c.readAlarm = z.readAlarm
            /\ c.fd.sent = z.fd.sent /\ c.fd.unread = z.fd.unread /\ c.fd.eof = z.fd.eof
            /\ c.fd.dead = z.fd.dead /\ c.fd.connecting = z.fd.connecting
            /\ c.fd.mask \subseteq z.fd.mask
            /\ c.fd.open => c.fd = z.fd
    BY <2>1, NotifyCloseFacts
  <2>. QED  BY <2>2 DEF z
<1>6. p \in Pairs /\ x \in Proxy /\ y \in Proxy
  BY <1>1, <1>4, <1>5
<1>7. /\ q \in Pairs /\ q[s] = x /\ q[o] = IF p[s].peer THEN y ELSE p[o]
  <2>1. q = IF p[s].peer THEN Put(Put(p, s, x), o, NotifyClose(Put(p, s, x)[o])) ELSE Put(p, s, x)
    BY DEF CloseFd, Put
  <2>. HIDE DEF q, x
  <2>2. Put(p, s, x) \in Pairs /\ Put(p, s, x)[s] = x /\ Put(p, s, x)[o] = p[o]
    BY <1>6, PutFacts
  <2>3. q = IF p[s].peer THEN Put(Put(p, s, x), o, y) ELSE Put(p, s, x)
    BY <2>1, <2>2
  <2>. HIDE DEF y
  <2>4. LET q2 == Put(Put(p, s, x), o, y)
        IN  q2 \in Pairs /\ q2.fault = p.fault /\ q2[s] = x /\ q2[o] = y
    BY <1>6, PutBoth
  <2>. QED  BY <2>2, <2>3, <2>4
<1>. HIDE DEF q, x, y
<1>8. Passed(x, n[o], p[o].fd.unread)
  <2>1. n[o] \in Nat /\ p[o].fd.unread \in Seq(Nat)
    BY <1>1, ProxyFields
  <2>. QED  BY <1>1, <1>4, <2>1, PassedWhenClosed
<1>9. Passed(q[s], n[o], q[o].fd.unread)
  BY <1>5, <1>7, <1>8
<1>10. Passed(q[o], n[s], q[s].fd.unread)
  <2>1. CASE ~ p[s].peer
    BY <1>1, <1>4, <1>7, <2>1
  <2>2. CASE p[s].peer /\ y.fd.open
    <3>1. Given(y) = Given(p[o])
      BY <1>5, <2>2 DEF Given
    <3>. QED  BY <1>1, <1>4, <1>5, <1>7, <2>2, <3>1 DEF Passed
  <2>3. CASE p[s].peer /\ ~ y.fd.open
    <3>1. n[s] \in Nat /\ p[s].fd.unread \in Seq(Nat)
      BY <1>1, ProxyFields
    <3>2. p[o].fd.open => p[o].fd.eof \/ p[o].buffer = <<>>
      BY <1>5, <2>3
    <3>3. Passed(y, n[s], p[s].fd.unread)
      BY <1>1, <1>5, <2>3, <3>1, <3>2, PassedWhenClosed
    <3>. QED  BY <1>4, <1>7, <2>3, <3>3
  <2>. QED  BY <2>1, <2>2, <2>3
<1>11. OwnSound(s, q[s])
  BY <1>1, <1>4, <1>7 DEF OwnSound
<1>12. OwnSound(o, q[o])
  <2>1. CASE ~ p[s].peer
    BY <1>1, <1>7, <2>1
  <2>2. CASE p[s].peer /\ y.fd.open
    BY <1>1, <1>5, <1>7, <2>2 DEF OwnSound
  <2>3. CASE p[s].peer /\ ~ y.fd.open
    BY <1>1, <1>5, <1>7, <2>3 DEF OwnSound
  <2>. QED  BY <2>1, <2>2, <2>3
<1>13. Linked(q, s) /\ Linked(q, o)
  <2>1. ~ q[s].peer
    BY <1>4, <1>7
  <2>2. ~ q[o].peer
    BY <1>1, <1>5, <1>7 DEF Linked
  <2>. QED  BY <2>1, <2>2 DEF Linked
<1>14. \A r \in armed \cup {s} : Armed(q[r])
  <2>1. Armed(q[s])
    BY <1>4, <1>7 DEF Armed
  <2>2. o \in armed => Armed(q[o])
    BY <1>1, <1>5, <1>7 DEF Armed
  <2>. QED  BY <1>1, <2>1, <2>2
<1>15. Good(q, n, armed \cup {s})
  BY <1>7, <1>9, <1>10, <1>11, <1>12, <1>13, <1>14, GoodBySides DEF o
<1>16. Kept(p, q)
  <2>1. /\ q[s].fd.eof = p[s].fd.eof /\ q[s].fd.connecting = p[s].fd.connecting
        /\ q[s].status \in {p[s].status, "disconnect"}
        /\ q[s].life = "none" => p[s].life = "none"
    BY <1>4, <1>7
  <2>2. /\ q[o].fd.eof = p[o].fd.eof /\ q[o].fd.connecting = p[o].fd.connecting
        /\ q[o].status \in {p[o].status, "disconnect"}
        /\ q[o].life = "none" => p[o].life = "none"
    BY <1>5, <1>7
  <2>. QED  BY <1>1, <2>1, <2>2 DEF Kept
<1>17. Quiet(p) => Quiet(q)
  <2>. SUFFICES ASSUME Quiet(p), q.right.status = "connecting"
                PROVE  Quiet(q)
    BY DEF Quiet
  <2>1. s = "left"
    <3>1. s = "right" => q.right = x
      BY <1>7
    <3>2. x.status # "connecting"
      BY <1>1, <1>4 DEF OwnSound
    <3>. QED  BY <3>1, <3>2 DEF Sides
  <2>2. o = "right" /\ q.left = x
    BY <1>7, <2>1 DEF o, Other
  <2>3. q.right = p.right
    <3>1. CASE p[s].peer
      <4>1. q.right = y
        BY <1>7, <2>2, <3>1
      <4>2. y.status = "connecting" /\ p.right.status = "connecting"
        BY <1>5, <2>2, <4>1
      <4>3. p.right.buffer = <<>>
        BY <4>2 DEF Quiet
      <4>4. p.right.fd.open
        BY <1>1, <2>2, <4>2 DEF OwnSound
      <4>. QED  BY <1>5, <2>2, <4>2, <4>3, <4>4
    <3>2. CASE ~ p[s].peer
      BY <1>7, <2>2, <3>2
    <3>. QED  BY <3>1, <3>2
  <2>. QED  BY <1>4, <2>1, <2>2, <2>3 DEF Quiet
<1>. QED  BY <1>15, <1>16, <1>17 DEF q

LEMMA GoodLess ==
  ASSUME NEW p, NEW n, NEW armed, Good(p, n, armed), NEW fewer \in SUBSET armed
  PROVE  Good(p, n, fewer)
BY DEF Good

LEMMA KeptItself ==
  ASSUME NEW p
  PROVE  Kept(p, p)
BY DEF Kept

\* A failed CHECK changes neither object.
LEMMA CheckGood ==
  ASSUME NEW p, NEW n, NEW armed \in SUBSET Sides, Good(p, n, armed), NEW condition,
         NEW place \in {"FlushBuffer", "OnReadEvent"}
  PROVE  LET q == Check(p, condition, place)
         IN  Good(q, n, armed) /\ q.left = p.left /\ q.right = p.right
<1>. DEFINE q == Check(p, condition, place)
<1>1. p \in Pairs
  BY DEF Good
<1>2. q \in Pairs /\ q.left = p.left /\ q.right = p.right
  BY <1>1 DEF Check, Pairs
<1>. HIDE DEF q
<1>3. \A s \in Sides : q[s] = p[s] /\ q[Other(s)] = p[Other(s)]
  BY <1>2 DEF Sides, Other
<1>4. Good(q, n, armed)
  BY <1>2, <1>3 DEF Good, Linked
<1>. QED  BY <1>2, <1>4 DEF q

LEMMA CheckCloseFdGood ==
  ASSUME NEW p, NEW n \in [Sides -> Nat], NEW armed \in SUBSET Sides, Good(p, n, armed),
         NEW s \in Sides
  PROVE  LET q == CheckCloseFd(p, s)
         IN  Good(q, n, armed) /\ Kept(p, q) /\ (Quiet(p) => Quiet(q))
<1>1. CASE p[s].closing /\ p[s].buffer = <<>>
  <2>. DEFINE q == CloseFd(p, s)
  <2>1. Good(q, n, armed \cup {s}) /\ Kept(p, q) /\ (Quiet(p) => Quiet(q))
    BY <1>1, CloseFdGood
  <2>2. CheckCloseFd(p, s) = q
    BY <1>1 DEF CheckCloseFd
  <2>. HIDE DEF q
  <2>3. Good(q, n, armed)
    BY <2>1, GoodLess
  <2>. QED  BY <2>1, <2>2, <2>3
<1>2. CASE ~ (p[s].closing /\ p[s].buffer = <<>>)
  <2>1. CheckCloseFd(p, s) = p
    BY <1>2 DEF CheckCloseFd
  <2>. QED  BY <2>1, KeptItself
<1>. QED  BY <1>1, <1>2

\* OnWriteEvent arms the side it writes on.
LEMMA OnWriteEventGood ==
  ASSUME NEW p, NEW n \in [Sides -> Nat], NEW armed \in SUBSET Sides, Good(p, n, armed),
         NEW s \in Sides, p[s].status # "connecting"
  PROVE  LET q == OnWriteEvent(p, s)
         IN  Good(q, n, armed \cup {s}) /\ Kept(p, q) /\ (Quiet(p) => Quiet(q))
<1>. DEFINE x == p[s]
            f == FlushAndArm(x)
            p1 == Put(p, s, f)
            p2 == Check(p1, IsOpen(p, s) \/ p[s].buffer = <<>>, "FlushBuffer")
            q == CheckCloseFd(p2, s)
<1>1. OnWriteEvent(p, s) = q
  BY DEF OnWriteEvent, Then, Put
<1>2. p \in Pairs /\ x \in Proxy /\ OwnSound(s, x)
  BY GoodSide
<1>. HIDE DEF x
<1>3. /\ f \in Proxy /\ Same(x, f) /\ Given(f) = Given(x)
      /\ ~ x.fd.open => f = x
      /\ "IN" \notin x.fd.mask => "IN" \notin f.fd.mask
      /\ ~ x.fd.connecting => Armed(f)
  BY <1>2, FlushAndArmFacts
<1>4. Armed(f)
  <2>1. x.fd.open => ~ x.fd.connecting
    BY <1>2 DEF OwnSound, x
  <2>2. ~ x.fd.open => ~ f.fd.open
    BY <1>3
  <2>. HIDE DEF f
  <2>. QED  BY <1>3, <2>1, <2>2 DEF Armed
<1>. HIDE DEF f
<1>5. Good(p1, n, armed \cup {s}) /\ Kept(p, p1)
  <2>1. Same(p[s], f)
    BY <1>3 DEF x
  <2>2. p[s].fd.open => Given(f) = Given(p[s])
    BY <1>3 DEF x
  <2>3. ~ p[s].fd.open => f.fd.sent = p[s].fd.sent
    BY <1>3 DEF x
  <2>. QED  BY <1>3, <1>4, <2>1, <2>2, <2>3, GoodWrite
<1>6. Quiet(p) => Quiet(p1)
  <2>. SUFFICES ASSUME Quiet(p), p1.right.status = "connecting"
                PROVE  Quiet(p1)
    BY DEF Quiet
  <2>1. p1[s] = f /\ p1[Other(s)] = p[Other(s)]
    BY <1>2, <1>3, PutFacts
  <2>. HIDE DEF p1
  <2>2. s = "left"
    <3>1. f.status # "connecting"
      BY <1>3 DEF Same, x
    <3>. QED  BY <2>1, <3>1 DEF Sides
  <2>3. p1.left = f /\ x = p.left /\ p1.right = p.right
    BY <2>1, <2>2 DEF Other, x
  <2>. QED  BY <1>3, <2>3 DEF Quiet, Same
<1>7. Good(p2, n, armed \cup {s}) /\ p2.left = p1.left /\ p2.right = p1.right
  <2>. HIDE DEF p1
  <2>. QED  BY <1>5, CheckGood
<1>8. Kept(p, p2) /\ (Quiet(p) => Quiet(p2))
  <2>. HIDE DEF p1, p2
  <2>. QED  BY <1>5, <1>6, <1>7 DEF Kept, Quiet, Sides
<1>9. Good(q, n, armed \cup {s}) /\ Kept(p2, q) /\ (Quiet(p2) => Quiet(q))
  <2>. HIDE DEF p2
  <2>. QED  BY <1>7, CheckCloseFdGood
<1>. HIDE DEF q
<1>10. Kept(p, q)
  <2>. HIDE DEF p2
  <2>. QED  BY <1>8, <1>9, KeptTransitive
<1>. QED  BY <1>1, <1>8, <1>9, <1>10

-------------------------------------------------------------------------------
(* Reading. *)

LEMMA ReadByFacts ==
  ASSUME NEW unread \in Seq(Nat)
  PROVE  /\ ReadBy(0, unread) = 0
         /\ \A k \in Nat : ReadBy(k, unread) \in 0 .. Len(unread)
         /\ \A k \in Nat \ {0} : ReadBy(k - 1, unread) <= ReadBy(k, unread)
<1>. DEFINE len == Len(unread)
<1>1. len \in Nat /\ ChunkSize \in Nat
  BY ProxyAssumption
<1>2. \A k \in Nat : k * ChunkSize \in Nat
  BY <1>1
<1>3. \A k \in Nat : ReadBy(k, unread) = IF k * ChunkSize <= len THEN k * ChunkSize ELSE len
  <2>1. TAKE k \in Nat
  <2>2. k * ChunkSize \in Int /\ len \in Int
    BY <1>1, <1>2
  <2>. QED  BY <2>2, MinOfTwo DEF ReadBy
<1>. HIDE DEF len
<1>4. ReadBy(0, unread) = 0
  BY <1>1, <1>3
<1>5. \A k \in Nat : ReadBy(k, unread) \in 0 .. len
  BY <1>1, <1>2, <1>3
<1>6. \A k \in Nat \ {0} : ReadBy(k - 1, unread) <= ReadBy(k, unread)
  <2>1. TAKE k \in Nat \ {0}
  <2>. DEFINE j == k - 1
              a == j * ChunkSize
              b == k * ChunkSize
  <2>2. j \in Nat /\ k \in Nat /\ k = j + 1
    OBVIOUS
  <2>3. a \in Nat /\ b \in Nat /\ b = a + ChunkSize
    BY <1>1, <2>2
  <2>4. ReadBy(j, unread) = IF a <= len THEN a ELSE len
    BY <1>3, <2>2
  <2>5. ReadBy(k, unread) = IF b <= len THEN b ELSE len
    BY <1>3, <2>2
  <2>. HIDE DEF a, b
  <2>6. ReadBy(j, unread) <= ReadBy(k, unread)
    BY <1>1, <2>3, <2>4, <2>5
  <2>. QED  BY <2>6
<1>. QED  BY <1>4, <1>5, <1>6 DEF len

\* The peers of the model after each chunk; that there is such a function is shown
\* with the first number of chunks for which there is none.
After(f, x, n, unread) ==
  f = [i \in 0 .. n |->
        IF i = 0 THEN x ELSE Then(f[i - 1], LAMBDA y : SendData(y, Chunk(i, unread)))]

LEMMA AfterExists ==
  ASSUME NEW x, NEW unread, NEW n \in Nat
  PROVE  \E f : After(f, x, n, unread)
<1>. DEFINE T == {m \in Nat : ~ \E f : After(f, x, m, unread)}
<1>. SUFFICES ASSUME T # {} PROVE FALSE
  OBVIOUS
<1>1. PICK m \in T : \A k \in T : m <= k
  <2>1. T \subseteq Nat
    OBVIOUS
  <2>. HIDE DEF T
  <2>. QED  BY <2>1, LeastNatural
<1>2. m \in Nat /\ ~ \E f : After(f, x, m, unread)
  BY <1>1
<1>3. CASE m = 0
  <2>. DEFINE g == [i \in 0 .. 0 |-> x]
  <2>1. After(g, x, 0, unread)
    BY DEF After
  <2>. QED  BY <1>2, <1>3, <2>1
<1>4. CASE m # 0
  <2>1. m - 1 \in Nat /\ m - 1 \notin T
    BY <1>1, <1>2, <1>4
  <2>2. PICK f : After(f, x, m - 1, unread)
    BY <2>1
  <2>. DEFINE g == [i \in 0 .. m |-> IF i < m THEN f[i] ELSE SendData(f[m - 1], Chunk(m, unread))]
              h == [i \in 0 .. m |-> IF i = 0 THEN x ELSE Then(g[i - 1], LAMBDA y : SendData(y, Chunk(i, unread)))]
  <2>3. \A i \in 0 .. m : g[i] = h[i]
    <3>1. TAKE i \in 0 .. m
    <3>2. CASE i = 0
      <4>1. f[0] = x
        BY <2>1, <2>2 DEF After
      <4>. QED  BY <1>2, <1>4, <3>2, <4>1
    <3>3. CASE i # 0 /\ i < m
      <4>1. i \in 0 .. (m - 1) /\ i - 1 \in 0 .. m /\ i - 1 < m
        BY <1>2, <3>3
      <4>2. f[i] = SendData(f[i - 1], Chunk(i, unread))
        BY <2>2, <3>3, <4>1 DEF After, Then
      <4>3. g[i] = f[i] /\ g[i - 1] = f[i - 1]
        BY <3>3, <4>1
      <4>4. h[i] = SendData(g[i - 1], Chunk(i, unread))
        <5>. HIDE DEF g
        <5>. QED  BY <3>3 DEF Then
      <4>. QED  BY <4>2, <4>3, <4>4
    <3>4. CASE i # 0 /\ ~ (i < m)
      <4>1. i = m /\ m - 1 \in 0 .. m /\ m - 1 < m
        BY <1>2, <1>4, <3>4
      <4>2. g[m] = SendData(f[m - 1], Chunk(m, unread)) /\ g[m - 1] = f[m - 1]
        BY <1>2, <4>1
      <4>3. h[m] = SendData(g[m - 1], Chunk(m, unread))
        <5>. HIDE DEF g
        <5>. QED  BY <1>2, <1>4, <4>1 DEF Then
      <4>. QED  BY <4>1, <4>2, <4>3
    <3>. QED  BY <3>2, <3>3, <3>4
  <2>4. g = [i \in 0 .. m |-> g[i]] /\ h = [i \in 0 .. m |-> h[i]]
    OBVIOUS
  <2>5. g = h
    <3>. HIDE DEF g, h
    <3>. QED  BY <2>3, <2>4
  <2>6. After(g, x, m, unread)
    <3>1. After(g, x, m, unread) <=> g = h
      BY DEF After
    <3>. QED  BY <2>5, <3>1
  <2>. QED  BY <1>2, <2>6
<1>. QED  BY <1>3, <1>4

LEMMA PassedOnAfter ==
  ASSUME NEW x, NEW unread, NEW n \in Nat
  PROVE  \E f : After(f, x, n, unread) /\ PassedOn(x, n, unread) = f[n]
<1>. DEFINE f == CHOOSE f : After(f, x, n, unread)
<1>1. After(f, x, n, unread)
  BY AfterExists
<1>2. PassedOn(x, n, unread) = f[n]
  BY DEF PassedOn, After
<1>. QED  BY <1>1, <1>2

\* Whatever the chunks, the peer is given what was read, in order.
LEMMA PassedOnFacts ==
  ASSUME NEW x \in Proxy, NEW unread \in Seq(Nat), NEW n \in Nat,
         x.fd.open => x.status = "connected" /\ ~ x.fd.connecting
  PROVE  LET y == PassedOn(x, n, unread)
         IN  /\ y \in Proxy /\ Same(x, y)
             /\ ~ x.fd.open => y = x
             /\ x.fd.open => Given(y) \o SubSeq(unread, ReadBy(n, unread) + 1, Len(unread))
                               = Given(x) \o unread
             /\ Armed(x) => Armed(y)
<1>. DEFINE Rest(i) == SubSeq(unread, ReadBy(i, unread) + 1, Len(unread))
            P(y, i) == /\ y \in Proxy /\ Same(x, y)
                       /\ ~ x.fd.open => y = x
                       /\ x.fd.open => Given(y) \o Rest(i) = Given(x) \o unread
                       /\ Armed(x) => Armed(y)
<1>1. PICK f : After(f, x, n, unread) /\ PassedOn(x, n, unread) = f[n]
  BY PassedOnAfter
<1>2. P(x, 0)
  <2>1. ReadBy(0, unread) = 0 /\ SubSeq(unread, 1, Len(unread)) = unread
    BY ReadByFacts, SubSeqFull
  <2>2. Rest(0) = unread
    BY <2>1
  <2>. QED  BY <2>2 DEF Same, SameSocket
<1>3. ASSUME NEW i \in Nat \ {0}, NEW y, P(y, i - 1)
      PROVE  P(SendData(y, Chunk(i, unread)), i)
  <2>. DEFINE a == ReadBy(i - 1, unread)
              b == ReadBy(i, unread)
              data == SubSeq(unread, a + 1, b)
              z == SendData(y, data)
  <2>1. i - 1 \in Nat /\ i \in Nat
    OBVIOUS
  <2>2. a \in 0 .. Len(unread) /\ b \in 0 .. Len(unread) /\ a <= b
    BY <2>1, ReadByFacts
  <2>3. Chunk(i, unread) = data
    BY DEF Chunk
  <2>4. Rest(i - 1) = SubSeq(unread, a + 1, Len(unread)) /\ Rest(i) = SubSeq(unread, b + 1, Len(unread))
    OBVIOUS
  <2>. HIDE DEF a, b
  <2>5. data \in Seq(Nat) /\ Rest(i) \in Seq(Nat) /\ data \o Rest(i) = Rest(i - 1)
    <3>1. b \in a .. Len(unread) /\ Len(unread) \in b .. Len(unread)
      BY <2>2
    <3>2. data \in Seq(Nat) /\ data \o SubSeq(unread, b + 1, Len(unread)) = SubSeq(unread, a + 1, Len(unread))
      BY <2>2, <3>1, Cut
    <3>3. SubSeq(unread, b + 1, Len(unread)) \in Seq(Nat)
      BY <2>2, <3>1, Cut
    <3>. HIDE DEF data
    <3>. QED  BY <2>4, <3>2, <3>3
  <2>6. /\ y \in Proxy /\ Same(x, y)
        /\ ~ x.fd.open => y = x
        /\ x.fd.open => Given(y) \o Rest(i - 1) = Given(x) \o unread
        /\ Armed(x) => Armed(y)
    BY <1>3
  <2>. HIDE DEF data, Rest
  <2>7. y.fd.open => y.status = "connected" /\ ~ y.fd.connecting
    BY <2>6 DEF Same, SameSocket
  <2>8. /\ z \in Proxy /\ Same(y, z)
        /\ ~ y.fd.open => z = y
        /\ y.fd.open => Given(z) = Given(y) \o data
        /\ Armed(y) => Armed(z)
    BY <2>5, <2>6, <2>7, SendDataFacts
  <2>. HIDE DEF z
  <2>9. Same(x, z)
    BY <2>6, <2>8 DEF Same, SameSocket
  <2>10. ~ x.fd.open => z = x
    BY <2>6, <2>8
  <2>11. x.fd.open => Given(z) \o Rest(i) = Given(x) \o unread
    <3>1. Given(y) \in Seq(Nat)
      BY <2>6, ProxyFields DEF Given
    <3>2. (Given(y) \o data) \o Rest(i) = Given(y) \o (data \o Rest(i))
      BY <2>5, <3>1, Associative
    <3>. QED  BY <2>5, <2>6, <2>8, <3>2 DEF Same, SameSocket
  <2>12. P(z, i)
    BY <2>6, <2>8, <2>9, <2>10, <2>11
  <2>. HIDE DEF P
  <2>. QED  BY <2>3, <2>12 DEF z
<1>4. f[0] = x /\ \A i \in 1 .. n : f[i] = SendData(f[i - 1], Chunk(i, unread))
  BY <1>1 DEF After, Then
<1>. HIDE DEF P
<1>. DEFINE T == {i \in 0 .. n : ~ P(f[i], i)}
<1>5. T = {}
  <2>. SUFFICES ASSUME T # {} PROVE FALSE
    OBVIOUS
  <2>1. PICK i \in T : \A k \in T : i <= k
    <3>1. T \subseteq Nat
      OBVIOUS
    <3>. HIDE DEF T
    <3>. QED  BY <3>1, LeastNatural
  <2>2. i \in 0 .. n /\ ~ P(f[i], i)
    BY <2>1
  <2>3. i # 0
    BY <1>2, <1>4, <2>2
  <2>4. i - 1 \in 0 .. n /\ i - 1 \notin T
    BY <2>1, <2>2, <2>3
  <2>5. P(f[i - 1], i - 1)
    BY <2>4
  <2>6. i \in Nat \ {0} /\ i \in 1 .. n
    BY <2>2, <2>3
  <2>. HIDE DEF T
  <2>7. P(SendData(f[i - 1], Chunk(i, unread)), i)
    BY <1>3, <2>5, <2>6
  <2>. QED  BY <1>4, <2>2, <2>6, <2>7
<1>6. P(f[n], n)
  BY <1>5
<1>. QED  BY <1>1, <1>6 DEF P

\* What one side reads the other is given; nothing else of the first changes.
LEMMA ReadChunksGood ==
  ASSUME NEW p, NEW n \in [Sides -> Nat], NEW armed \in SUBSET Sides, Good(p, n, armed),
         NEW s \in Sides, s = "left" => p.right.status # "connecting", NEW m \in Nat
  PROVE  LET q == ReadChunks(p, s, m)
         IN  Good(q, n, armed) /\ Kept(p, q)
<1>. DEFINE q == ReadChunks(p, s, m)
            o == Other(s)
            unread == p[s].fd.unread
            b == ReadBy(m, unread)
            rest == SubSeq(unread, b + 1, Len(unread))
            k == [p[s].fd EXCEPT !.unread = rest]
            x == [p[s] EXCEPT !.fd = k]
            y == PassedOn(p[o], m, unread)
<1>1. /\ p \in Pairs /\ p[s] \in Proxy /\ p[o] \in Proxy
      /\ OwnSound(s, p[s]) /\ OwnSound(o, p[o]) /\ Linked(p, s) /\ Linked(p, o)
      /\ Passed(p[s], n[o], p[o].fd.unread) /\ Passed(p[o], n[s], unread)
      /\ \A r \in armed : Armed(p[r])
      /\ Other(o) = s /\ o \in Sides /\ \A r \in Sides : r = s \/ r = o
  BY GoodSide, Others DEF Good
<1>2. CASE m > 0 /\ ~ p[s].peer
  <2>. DEFINE c == Check(p, FALSE, "OnReadEvent")
  <2>1. q = c
    BY <1>2 DEF ReadChunks
  <2>2. Good(c, n, armed) /\ c.left = p.left /\ c.right = p.right
    BY CheckGood
  <2>. HIDE DEF c, q
  <2>3. Kept(p, c)
    BY <2>2 DEF Kept, Sides
  <2>. QED  BY <2>1, <2>2, <2>3 DEF q
<1>3. CASE ~ (m > 0 /\ ~ p[s].peer)
  <2>1. unread \in Seq(Nat) /\ Len(unread) \in Nat
    BY <1>1, ProxyFields
  <2>2. b \in 0 .. Len(unread) /\ (m = 0 => b = 0)
    <3>. HIDE DEF unread
    <3>. QED  BY <2>1, ReadByFacts
  <2>3. rest \in Seq(Nat) /\ Len(rest) = Len(unread) - b /\ (b = 0 => rest = unread)
    <3>. HIDE DEF unread, b
    <3>1. rest \in Seq(Nat) /\ Len(rest) = Len(unread) - b
      BY <2>1, <2>2, CutAtStart
    <3>2. SubSeq(unread, 1, Len(unread)) = unread
      BY <2>1, SubSeqFull
    <3>. QED  BY <3>1, <3>2
  <2>4. q = Put(Put(p, s, x), o, PassedOn(Put(p, s, x)[o], m, unread))
    BY <1>3 DEF ReadChunks, Put
  <2>. HIDE DEF rest, b
  <2>5. x \in Proxy /\ x.fd.unread = rest
        /\ x.life = p[s].life /\ x.status = p[s].status /\ x.peer = p[s].peer
        /\ x.closing = p[s].closing /\ x.readAlarm = p[s].readAlarm /\ x.buffer = p[s].buffer
        /\ x.fd.sent = p[s].fd.sent /\ x.fd.open = p[s].fd.open /\ x.fd.eof = p[s].fd.eof
        /\ x.fd.dead = p[s].fd.dead /\ x.fd.connecting = p[s].fd.connecting
        /\ x.fd.mask = p[s].fd.mask /\ x.fd.edge = p[s].fd.edge /\ x.fd.room = p[s].fd.room
    <3>1. p[s] \in Proxy /\ p[s].fd \in Socket /\ rest \in Seq(Nat)
      BY <1>1, <2>3, ProxyFields
    <3>. HIDE DEF rest
    <3>2. k \in Socket /\ k.unread = rest
          /\ k.sent = p[s].fd.sent /\ k.open = p[s].fd.open /\ k.eof = p[s].fd.eof
          /\ k.dead = p[s].fd.dead /\ k.connecting = p[s].fd.connecting
          /\ k.mask = p[s].fd.mask /\ k.edge = p[s].fd.edge /\ k.room = p[s].fd.room
      BY <3>1 DEF Socket
    <3>. HIDE DEF k
    <3>3. x.fd = k /\ x \in Proxy
          /\ x.life = p[s].life /\ x.status = p[s].status /\ x.peer = p[s].peer
          /\ x.closing = p[s].closing /\ x.readAlarm = p[s].readAlarm /\ x.buffer = p[s].buffer
      BY <3>1, <3>2 DEF Proxy
    <3>. HIDE DEF x
    <3>. QED  BY <3>2, <3>3
  <2>. HIDE DEF x, q
  <2>6. Put(p, s, x)[o] = p[o]
    BY <1>1, <2>5, PutFacts
  <2>7. q = Put(Put(p, s, x), o, y)
    BY <2>4, <2>6
  <2>8. p[o].fd.open => p[o].status = "connected" /\ ~ p[o].fd.connecting
    <3>1. p[o].status # "connecting"
      <4>1. CASE s = "left"
        BY <4>1 DEF Other
      <4>2. CASE s = "right"
        BY <1>1, <4>2 DEF OwnSound, Other
      <4>. QED  BY <4>1, <4>2 DEF Sides
    <3>2. p[o].status \in {"disconnect", "connecting", "connected"}
      BY <1>1 DEF Proxy
    <3>. QED  BY <1>1, <3>1, <3>2 DEF OwnSound
  <2>9. /\ y \in Proxy /\ Same(p[o], y)
        /\ ~ p[o].fd.open => y = p[o]
        /\ p[o].fd.open => Given(y) \o rest = Given(p[o]) \o unread
        /\ Armed(p[o]) => Armed(y)
    <3>1. p[o] \in Proxy /\ unread \in Seq(Nat)
      BY <1>1, <2>1
    <3>2. LET z == PassedOn(p[o], m, unread)
          IN  /\ z \in Proxy /\ Same(p[o], z)
              /\ ~ p[o].fd.open => z = p[o]
              /\ p[o].fd.open => Given(z) \o SubSeq(unread, ReadBy(m, unread) + 1, Len(unread))
                                   = Given(p[o]) \o unread
              /\ Armed(p[o]) => Armed(z)
      <4>. DEFINE x0 == p[o]
                  u0 == unread
      <4>1. x0 \in Proxy /\ u0 \in Seq(Nat) /\ (x0.fd.open => x0.status = "connected" /\ ~ x0.fd.connecting)
        BY <2>8, <3>1
      <4>. HIDE DEF x0, u0
      <4>2. LET z == PassedOn(x0, m, u0)
            IN  /\ z \in Proxy /\ Same(x0, z)
                /\ ~ x0.fd.open => z = x0
                /\ x0.fd.open => Given(z) \o SubSeq(u0, ReadBy(m, u0) + 1, Len(u0))
                                     = Given(x0) \o u0
                /\ Armed(x0) => Armed(z)
        BY <4>1, PassedOnFacts
      <4>. QED  BY <4>2 DEF x0, u0
    <3>. QED  BY <3>2 DEF rest, b
  <2>. HIDE DEF y
  <2>10. q \in Pairs /\ q[s] = x /\ q[o] = y
    <3>1. LET r == Put(Put(p, s, x), Other(s), y)
          IN  r \in Pairs /\ r.fault = p.fault /\ r[s] = x /\ r[Other(s)] = y
      BY <1>1, <2>5, <2>9, PutBoth
    <3>. QED  BY <2>7, <3>1
  <2>. HIDE DEF unread, o
  <2>11. OwnSound(s, q[s])
    <3>1. unread = <<>> => rest = <<>>
      BY <2>1, <2>2, <2>3
    <3>2. p[s].fd.connecting /\ p[s].fd.open => unread = <<>>
      BY <1>1 DEF OwnSound, unread
    <3>. QED  BY <1>1, <2>5, <2>10, <3>1, <3>2 DEF OwnSound
  <2>12. OwnSound(o, q[o])
    BY <1>1, <2>9, <2>10 DEF OwnSound, Same, SameSocket
  <2>13. Linked(q, s) /\ Linked(q, o)
    BY <1>1, <2>5, <2>9, <2>10 DEF Linked, Same, o
  <2>14. Passed(q[s], n[o], q[o].fd.unread)
    <3>1. q[o].fd.unread = p[o].fd.unread
      BY <2>9, <2>10 DEF Same, SameSocket
    <3>2. Given(x) = Given(p[s])
      BY <2>5 DEF Given
    <3>. QED  BY <1>1, <2>5, <2>10, <3>1, <3>2 DEF Passed
  <2>15. Passed(q[o], n[s], q[s].fd.unread)
    <3>1. CASE p[o].fd.open
      <4>1. Len(rest) <= n[s]
        <5>1. Len(unread) <= n[s] /\ n[s] \in Nat
          BY <1>1 DEF Passed
        <5>. QED  BY <2>1, <2>2, <2>3, <5>1
      <4>2. Given(y) \o rest = Units(n[s])
        BY <1>1, <2>9, <3>1 DEF Passed
      <4>3. y.fd.open
        BY <2>9, <3>1 DEF Same, SameSocket
      <4>. QED  BY <2>5, <2>10, <4>1, <4>2, <4>3 DEF Passed
    <3>2. CASE ~ p[o].fd.open
      <4>1. m = 0
        <5>1. ~ p[s].peer
          BY <1>1, <3>2 DEF Linked, OwnSound, o
        <5>. QED  BY <1>3, <5>1
      <4>2. rest = unread
        BY <2>2, <2>3, <4>1
      <4>. QED  BY <1>1, <2>5, <2>9, <2>10, <3>2, <4>2
    <3>. QED  BY <3>1, <3>2
  <2>16. \A r \in armed : Armed(q[r])
    <3>1. Armed(p[s]) => Armed(q[s])
      BY <2>5, <2>10 DEF Armed
    <3>. QED  BY <1>1, <2>9, <2>10, <3>1
  <2>17. Good(q, n, armed)
    BY <2>10, <2>11, <2>12, <2>13, <2>14, <2>15, <2>16, GoodBySides DEF o
  <2>18. Kept(p, q)
    BY <1>1, <2>5, <2>9, <2>10 DEF Kept, Same, SameSocket
  <2>. QED  BY <2>17, <2>18 DEF q
<1>. QED  BY <1>2, <1>3

LEMMA OnReadEventGood ==
  ASSUME NEW p, NEW n \in [Sides -> Nat], NEW armed \in SUBSET Sides, Good(p, n, armed),
         NEW s \in Sides, s = "left" => p.right.status # "connecting",
         NEW q \in OnReadEvent(p, s)
  PROVE  Good(q, n, armed) /\ Kept(p, q)
<1>1. CASE ~ IsOpen(p, s)
  BY <1>1, KeptItself DEF OnReadEvent
<1>2. \A m \in Nat : Good(ReadChunks(p, s, m), n, armed) /\ Kept(p, ReadChunks(p, s, m))
  BY ReadChunksGood
<1>3. \A m \in 1 .. ReadsOf(p[s].fd.unread) : m \in Nat
  OBVIOUS
<1>4. ReadsOf(p[s].fd.unread) \in Nat
  <2>1. Len(p[s].fd.unread) \in Nat
    BY GoodSide, ProxyFields
  <2>. DEFINE len == Len(p[s].fd.unread)
  <2>2. len + ChunkSize - 1 \in Nat /\ ChunkSize \in Nat /\ ChunkSize > 0
    BY <2>1, ProxyAssumption
  <2>3. \A a \in Nat : a \div ChunkSize \in Nat
    BY <2>2
  <2>4. ReadsOf(p[s].fd.unread) = (len + ChunkSize - 1) \div ChunkSize
    BY DEF ReadsOf
  <2>. HIDE DEF len
  <2>. QED  BY <2>2, <2>3, <2>4
<1>5. Good(ReadToEnd(p, s), n, armed) /\ Kept(p, ReadToEnd(p, s))
  <2>. DEFINE r == ReadChunks(p, s, ReadsOf(p[s].fd.unread))
              k == ReadsError(r[s].fd)
              x == [r[s] EXCEPT !.fd = k]
  <2>1. Good(r, n, armed) /\ Kept(p, r)
    BY <1>2, <1>4
  <2>2. ReadToEnd(p, s) = IF ReadsEnd(r[s].fd) THEN CloseFd(r, s) ELSE Put(r, s, x)
    BY DEF ReadToEnd, Then, Put
  <2>. HIDE DEF r
  <2>3. CASE ReadsEnd(r[s].fd)
    <3>. DEFINE q1 == CloseFd(r, s)
    <3>1. r[s].fd.eof
      BY <2>3 DEF ReadsEnd
    <3>2. Good(q1, n, armed \cup {s}) /\ Kept(r, q1)
      BY <2>1, <3>1, CloseFdGood
    <3>. HIDE DEF q1
    <3>3. Good(q1, n, armed) /\ Kept(p, q1)
      BY <2>1, <3>2, GoodLess, KeptTransitive
    <3>. QED  BY <2>2, <2>3, <3>3 DEF q1
  <2>4. CASE ~ ReadsEnd(r[s].fd)
    <3>1. r[s] \in Proxy /\ r[s].fd \in Socket
      BY <2>1, GoodSide, ProxyFields
    <3>2. k \in Socket /\ SameSocket(r[s].fd, k) /\ k.sent = r[s].fd.sent
          /\ k.mask = r[s].fd.mask /\ k.edge = r[s].fd.edge /\ k.room = r[s].fd.room
      BY <3>1 DEF ReadsError, Socket, SameSocket
    <3>. HIDE DEF k
    <3>3. x \in Proxy /\ Same(r[s], x) /\ x.fd = k /\ x.buffer = r[s].buffer
      BY <3>1, <3>2 DEF Proxy, Same
    <3>. HIDE DEF x
    <3>4. Given(x) = Given(r[s]) /\ x.fd.sent = r[s].fd.sent /\ (Armed(r[s]) => Armed(x))
      BY <3>2, <3>3 DEF Given, Armed, SameSocket
    <3>. DEFINE q1 == Put(r, s, x)
    <3>5. Good(q1, n, armed \ {s}) /\ Kept(r, q1) /\ (Armed(x) => Good(q1, n, armed \cup {s}))
      BY <2>1, <3>3, <3>4, GoodWrite
    <3>. HIDE DEF q1
    <3>6. Good(q1, n, armed)
      <4>1. CASE s \in armed
        <5>1. Armed(r[s])
          BY <2>1, <4>1 DEF Good
        <5>. QED  BY <3>4, <3>5, <5>1, GoodLess
      <4>2. CASE s \notin armed
        <5>1. armed \ {s} = armed
          BY <4>2
        <5>. QED  BY <3>5, <5>1
      <4>. QED  BY <4>1, <4>2
    <3>7. Kept(p, q1)
      BY <2>1, <3>5, KeptTransitive
    <3>. QED  BY <2>2, <2>4, <3>6, <3>7 DEF q1
  <2>. QED  BY <2>3, <2>4
<1>6. CASE IsOpen(p, s)
  <2>1. q = ReadToEnd(p, s) \/ \E m \in 1 .. ReadsOf(p[s].fd.unread) : q = ReadChunks(p, s, m)
    BY <1>6 DEF OnReadEvent
  <2>. QED  BY <1>2, <1>3, <1>5, <2>1
<1>. QED  BY <1>1, <1>6

-------------------------------------------------------------------------------
(* The invariant, and the callbacks. *)

\* What came in at each side: what the proxy read and what it has not yet read.
Came == [s \in Sides |-> consumed[s] + Len(px[s].fd.unread)]

ProxyInv ==
  /\ consumed \in [Sides -> Nat]
  /\ Good(px, Came, Sides) /\ Quiet(px)
  /\ px.left.life = "none" => Init

\* A side that closes has heard of the end of its remote host before, or not at all.
ClosesKnowing ==
  \A s \in Sides : (px[s].fd.open /\ ~ px'[s].fd.open) => px'[s].fd.eof = px[s].fd.eof

LEMMA CameType ==
  ASSUME ProxyInv
  PROVE  /\ Came \in [Sides -> Nat] /\ px \in Pairs
         /\ \A s \in Sides : px[s] \in Proxy /\ OwnSound(s, px[s]) /\ Armed(px[s])
         /\ px.left = px["left"] /\ px.right = px["right"]
<1>1. \A s \in Sides : px[s] \in Proxy /\ OwnSound(s, px[s]) /\ Armed(px[s])
  BY GoodSide DEF ProxyInv, Good
<1>2. \A s \in Sides : consumed[s] \in Nat /\ Len(px[s].fd.unread) \in Nat
  BY <1>1, ProxyFields DEF ProxyInv
<1>3. \A s \in Sides : consumed[s] + Len(px[s].fd.unread) \in Nat
  BY <1>2
<1>4. Came \in [Sides -> Nat]
  BY <1>3 DEF Came
<1>5. px \in Pairs
  BY DEF ProxyInv, Good
<1>6. px.left = px["left"] /\ px.right = px["right"]
  BY <1>5 DEF Pairs
<1>. QED  BY <1>1, <1>4, <1>5, <1>6

\* A callback that leaves a good pair keeps the invariant.
LEMMA BecomesKeeps ==
  ASSUME ProxyInv, NEW q, Good(q, Came, Sides), Quiet(q), q.left.life # "none", Becomes(q)
  PROVE  ProxyInv'
<1>. DEFINE n == Came
<1>1. n \in [Sides -> Nat]
  BY CameType
<1>2. \A s \in Sides : Len(q[s].fd.unread) \in Nat /\ Len(q[s].fd.unread) <= n[s]
  <2>1. TAKE s \in Sides
  <2>2. Passed(q[Other(s)], n[Other(Other(s))], q[Other(Other(s))].fd.unread)
    BY Others, GoodSide
  <2>3. Other(Other(s)) = s
    BY Others
  <2>4. Len(q[s].fd.unread) \in Nat
    BY GoodSide, ProxyFields
  <2>. QED  BY <2>2, <2>3, <2>4 DEF Passed
<1>3. /\ consumed' = [s \in Sides |-> consumed[s] + Len(px[s].fd.unread) - Len(q[s].fd.unread)]
      /\ px' = q
  BY DEF Becomes
<1>. DEFINE read(s) == consumed[s] + Len(px[s].fd.unread) - Len(q[s].fd.unread)
<1>4. \A s \in Sides : read(s) \in Nat /\ read(s) + Len(q[s].fd.unread) = n[s]
  <2>1. TAKE s \in Sides
  <2>. DEFINE a == consumed[s] + Len(px[s].fd.unread)
              b == Len(q[s].fd.unread)
  <2>2. n[s] = a
    BY DEF Came
  <2>3. a \in Nat /\ b \in Nat /\ b <= a
    BY <1>1, <1>2, <2>2
  <2>4. read(s) = a - b
    <3>. DEFINE c == consumed[s]
                u == Len(px[s].fd.unread)
    <3>1. c \in Nat /\ u \in Nat
      BY CameType, ProxyFields DEF ProxyInv
    <3>2. read(s) = c + (u - b) /\ a = c + u
      OBVIOUS
    <3>. HIDE DEF a, b, c, u, n, read
    <3>. QED  BY <2>3, <3>1, <3>2
  <2>5. a - b \in Nat /\ (a - b) + b = a
    <3>. HIDE DEF a, b, n
    <3>. QED  BY <2>3
  <2>6. read(s) \in Nat /\ read(s) + b = n[s]
    <3>. HIDE DEF a, b, n, read
    <3>. QED  BY <2>2, <2>4, <2>5
  <2>. QED  BY <2>6
<1>. HIDE DEF n, read
<1>5. /\ consumed' \in [Sides -> Nat]
      /\ \A s \in Sides : consumed'[s] + Len(q[s].fd.unread) = n[s]
  <2>1. consumed' = [s \in Sides |-> read(s)]
    BY <1>3 DEF read
  <2>. QED  BY <1>4, <2>1
<1>6. Came' = n
  <2>1. Came' = [s \in Sides |-> consumed'[s] + Len(q[s].fd.unread)]
    BY <1>3 DEF Came
  <2>2. n = [s \in Sides |-> n[s]]
    BY <1>1
  <2>. QED  BY <1>5, <2>1, <2>2
<1>7. Good(q, n, Sides)
  BY DEF n
<1>8. Good(px', Came', Sides) /\ Quiet(px') /\ px'.left.life # "none"
  BY <1>3, <1>6, <1>7
<1>. QED  BY <1>5, <1>8 DEF ProxyInv, Good, Quiet

LEMMA KeptIsKnowing ==
  ASSUME NEW q, Kept(px, q), Becomes(q)
  PROVE  ClosesKnowing
BY DEF Kept, Becomes, ClosesKnowing

LEMMA MethodsKeep ==
  ASSUME ProxyInv, px.left.life # "none",
         NEW q, Good(q, Came, Sides), Quiet(q), Kept(px, q), Becomes(q)
  PROVE  ProxyInv' /\ ClosesKnowing
<1>1. q.left.life # "none"
  BY DEF Kept, Sides
<1>. QED  BY <1>1, BecomesKeeps, KeptIsKnowing

\* If the right object is there, so is the left.
LEMMA LeftComesFirst ==
  ASSUME ProxyInv, NEW s \in Sides, px[s].life # "none"
  PROVE  px.left.life # "none"
BY DEF ProxyInv, Init, NoProxy, Sides

\* An object on which nothing has happened yet but that it was opened and closed.
Fresh(x) ==
  /\ x \in Proxy /\ x.buffer = <<>> /\ x.fd.sent = <<>> /\ x.fd.unread = <<>> /\ ~ x.fd.dead

LEMMA FreshGood ==
  ASSUME NEW q \in Pairs, NEW n, \A s \in Sides : n[s] = 0,
         \A s \in Sides : Fresh(q[s]) /\ OwnSound(s, q[s]) /\ Linked(q, s)
  PROVE  Good(q, n, Sides)
<1>1. ASSUME NEW x, Fresh(x)
      PROVE  Armed(x) /\ Passed(x, 0, <<>>)
  <2>1. Units(0) = <<>> /\ Len(<<>>) = 0
    BY UnitsType
  <2>2. Given(x) \o <<>> = <<>>
    <3>1. x.fd.sent = <<>> /\ x.buffer = <<>>
      BY <1>1 DEF Fresh
    <3>. QED  BY <3>1 DEF Given
  <2>3. x.fd.sent = <<>> /\ x.buffer = <<>>
    BY <1>1 DEF Fresh
  <2>4. Armed(x)
    BY <2>3 DEF Armed
  <2>5. Passed(x, 0, <<>>)
    <3>1. 0 <= 0 /\ 0 = 0 - 0
      OBVIOUS
    <3>2. x.fd.sent = Units(Len(x.fd.sent)) /\ Len(x.fd.sent) = 0
      BY <2>1, <2>3
    <3>3. Given(x) \o <<>> = Units(0)
      BY <2>1, <2>2
    <3>. QED  BY <2>1, <3>1, <3>2, <3>3 DEF Passed
  <2>. QED  BY <2>4, <2>5
<1>2. \A s \in Sides : Other(s) \in Sides
  BY Others
<1>3. \A s \in Sides : n[Other(s)] = 0 /\ q[Other(s)].fd.unread = <<>>
  BY <1>2 DEF Fresh
<1>. QED  BY <1>1, <1>3 DEF Good

LEMMA CalledGood ==
  ASSUME ProxyInv, NEW s \in Sides, HasEvent(s)
  PROVE  /\ Good(Called(s), Came, Sides \ {s}) /\ Kept(px, Called(s)) /\ Quiet(Called(s))
         /\ "OUT" \notin Reported(px[s].fd) => Good(Called(s), Came, Sides)
         /\ Called(s)[s].fd.eof = px[s].fd.eof
<1>. DEFINE k == [px[s].fd EXCEPT !.edge = FALSE]
            x == [px[s] EXCEPT !.fd = k]
            c == Put(px, s, x)
<1>1. Called(s) = c
  BY DEF Called, Put
<1>2. px \in Pairs /\ px[s] \in Proxy /\ px[s].fd \in Socket /\ Came \in [Sides -> Nat]
      /\ Good(px, Came, Sides) /\ OwnSound(s, px[s]) /\ Armed(px[s]) /\ Quiet(px)
      /\ px.left = px["left"] /\ px.right = px["right"]
  BY CameType, ProxyFields DEF ProxyInv
<1>3. k \in Socket /\ SameSocket(px[s].fd, k) /\ k.sent = px[s].fd.sent
      /\ k.mask = px[s].fd.mask /\ k.room = px[s].fd.room
  BY <1>2 DEF Socket, SameSocket
<1>. HIDE DEF k
<1>4. x \in Proxy /\ Same(px[s], x) /\ x.fd = k /\ x.buffer = px[s].buffer
  BY <1>2, <1>3 DEF Proxy, Same
<1>. HIDE DEF x
<1>5. Given(x) = Given(px[s]) /\ x.fd.sent = px[s].fd.sent
  BY <1>3, <1>4 DEF Given
<1>6. "OUT" \notin Reported(px[s].fd) => Armed(x)
  <2>. SUFFICES ASSUME "OUT" \notin Reported(px[s].fd), x.fd.open, x.buffer # <<>>, ~ x.fd.dead
                PROVE  "OUT" \in x.fd.mask /\ x.fd.room = 0
    BY DEF Armed
  <2>1. px[s].fd.open /\ px[s].buffer # <<>> /\ ~ px[s].fd.dead
    BY <1>3, <1>4 DEF SameSocket
  <2>2. "OUT" \in px[s].fd.mask
    BY <1>2, <2>1 DEF Armed
  <2>3. ~ px[s].fd.connecting
    <3>1. CASE px[s].fd.connecting
      <4>1. px[s].status = "connecting" /\ s = "right"
        BY <1>2, <2>1, <3>1 DEF OwnSound
      <4>. QED  BY <1>2, <2>1, <4>1 DEF Quiet
    <3>. QED  BY <3>1
  <2>4. px[s].fd.room \in Nat
    BY <1>2, SocketAssumption DEF Socket
  <2>5. ~ (px[s].fd.room > 0)
    BY <2>2, <2>3 DEF Reported, Ready, Events
  <2>. QED  BY <1>3, <1>4, <2>2, <2>4, <2>5
<1>7. Good(c, Came, Sides \ {s}) /\ Kept(px, c) /\ (Armed(x) => Good(c, Came, Sides \cup {s}))
  <2>. DEFINE n == Came
  <2>1. n \in [Sides -> Nat] /\ Good(px, n, Sides)
    BY <1>2
  <2>. HIDE DEF n
  <2>2. Good(c, n, Sides \ {s}) /\ Kept(px, c) /\ (Armed(x) => Good(c, n, Sides \cup {s}))
    BY <1>2, <1>4, <1>5, <2>1, GoodWrite
  <2>. QED  BY <2>2 DEF n
<1>8. Sides \cup {s} = Sides
  OBVIOUS
<1>9. c[s] = x /\ c[Other(s)] = px[Other(s)]
  BY <1>2, <1>4, PutFacts
<1>. HIDE DEF c
<1>10. Quiet(c)
  <2>1. CASE s = "left"
    <3>1. c.left = x /\ c.right = px.right
      BY <1>9, <2>1 DEF Other
    <3>. QED  BY <1>2, <1>3, <1>4, <2>1, <3>1 DEF Quiet, Same
  <2>2. CASE s = "right"
    <3>1. c.right = x /\ c.left = px.left
      BY <1>9, <2>2 DEF Other
    <3>. QED  BY <1>2, <1>3, <1>4, <2>2, <3>1 DEF Quiet, Same
  <2>. QED  BY <2>1, <2>2 DEF Sides
<1>11. c[s].fd.eof = px[s].fd.eof
  BY <1>3, <1>4, <1>9 DEF SameSocket
<1>. QED  BY <1>1, <1>6, <1>7, <1>8, <1>10, <1>11

\* An event of the left side: it reads only when the right one is connected, and
\* is armed again after it wrote.
LEMMA LeftOnEventStep ==
  ASSUME ProxyInv, LeftOnEvent
  PROVE  ProxyInv' /\ ClosesKnowing
<1>. DEFINE n == Came
            events == Reported(px.left.fd)
            c == Called("left")
<1>1. "left" \in Sides /\ Sides \ {"left"} \in SUBSET Sides /\ (Sides \ {"left"}) \cup {"left"} = Sides
  BY DEF Sides
<1>2. /\ n \in [Sides -> Nat] /\ px["left"] = px.left /\ px.left.life # "none" /\ Quiet(px)
  <2>1. n \in [Sides -> Nat] /\ px["left"] = px.left /\ OwnSound("left", px.left) /\ px.left.fd.open
    BY <1>1, CameType DEF LeftOnEvent, HasEvent, IsOpen
  <2>. QED  BY <2>1 DEF ProxyInv, OwnSound
<1>3. /\ Good(c, n, Sides \ {"left"}) /\ Kept(px, c) /\ Quiet(c)
      /\ "OUT" \notin events => Good(c, n, Sides)
  BY <1>1, <1>2, CalledGood DEF LeftOnEvent
<1>4. PICK p \in IF "IN" \in events THEN OnReadEvent(c, "left") ELSE {c} :
         Becomes(IF "OUT" \in events THEN OnWriteEvent(p, "left") ELSE p)
  BY DEF LeftOnEvent
<1>. HIDE DEF n, c, events
<1>5. "IN" \in events => px.right.status # "connecting"
  <2>1. "IN" \in events => "IN" \in px.left.fd.mask
    BY DEF events, Reported
  <2>. QED  BY <1>2, <2>1 DEF Quiet
<1>6. /\ Good(p, n, Sides \ {"left"}) /\ Kept(c, p) /\ ("OUT" \notin events => Good(p, n, Sides))
      /\ "IN" \notin events => p = c
  <2>1. CASE "IN" \in events
    <3>1. c.right.status # "connecting"
      BY <1>3, <1>5, <2>1 DEF Kept, Sides
    <3>2. p \in OnReadEvent(c, "left")
      BY <1>4, <2>1
    <3>. QED  BY <1>1, <1>2, <1>3, <2>1, <3>1, <3>2, OnReadEventGood
  <2>2. CASE "IN" \notin events
    BY <1>3, <1>4, <2>2, KeptItself
  <2>. QED  BY <2>1, <2>2
<1>7. Kept(px, p) /\ Quiet(p)
  <2>1. Kept(px, p)
    BY <1>3, <1>6, KeptTransitive
  <2>2. CASE "IN" \in events
    <3>1. p.right.status # "connecting"
      BY <1>5, <2>1, <2>2 DEF Kept, Sides
    <3>. QED  BY <2>1, <3>1 DEF Quiet
  <2>3. CASE "IN" \notin events
    BY <1>3, <1>6, <2>1, <2>3
  <2>. QED  BY <2>2, <2>3
<1>8. ASSUME NEW q, Becomes(q), Good(q, n, Sides), Quiet(q), Kept(px, q)
      PROVE  ProxyInv' /\ ClosesKnowing
  BY <1>2, <1>8, MethodsKeep DEF n
<1>9. CASE "OUT" \in events
  <2>. DEFINE q == OnWriteEvent(p, "left")
  <2>1. p["left"].status # "connecting"
    <3>1. OwnSound("left", p["left"])
      BY <1>1, <1>6, GoodSide
    <3>. QED  BY <3>1 DEF OwnSound
  <2>2. Good(q, n, (Sides \ {"left"}) \cup {"left"}) /\ Kept(p, q) /\ (Quiet(p) => Quiet(q))
    BY <1>1, <1>2, <1>6, <2>1, OnWriteEventGood
  <2>3. Becomes(q)
    BY <1>4, <1>9
  <2>. HIDE DEF q
  <2>4. Kept(px, q)
    BY <1>7, <2>2, KeptTransitive
  <2>. QED  BY <1>1, <1>7, <1>8, <2>2, <2>3, <2>4
<1>10. CASE "OUT" \notin events
  <2>1. Becomes(p)
    BY <1>4, <1>10
  <2>. QED  BY <1>6, <1>7, <1>8, <1>10, <2>1
<1>. QED  BY <1>9, <1>10

\* The right object has connected: from now on both sides may read.
LEMMA ConnectedGood ==
  ASSUME NEW p, NEW n \in [Sides -> Nat], NEW armed \in SUBSET Sides, Good(p, n, armed),
         p.right.status = "connecting", ~ p.right.fd.connecting
  PROVE  LET q == Connected(p)
         IN  /\ Good(q, n, armed \ {"right"})
             /\ q.right.status = "connected" /\ ~ q.right.fd.connecting
             /\ \A s \in Sides : q[s].fd.eof = p[s].fd.eof /\ q[s].life = p[s].life
<1>. DEFINE w == p.right
            x == [w EXCEPT !.status = "connected"]
            y == ModifyCallback(x, {"OUT"})
            z == CreateReadAlarm(y)
            l == IF w.peer THEN CreateReadAlarm(p.left) ELSE p.left
            q == Connected(p)
<1>1. /\ p \in Pairs /\ p["right"] = w /\ p["left"] = p.left /\ w \in Proxy /\ p.left \in Proxy
      /\ OwnSound("right", w) /\ OwnSound("left", p.left)
      /\ Linked(p, "left") /\ Linked(p, "right")
      /\ Passed(w, n["left"], p.left.fd.unread) /\ Passed(p.left, n["right"], w.fd.unread)
      /\ \A r \in armed : Armed(p[r])
  <2>1. "left" \in Sides /\ "right" \in Sides /\ Other("left") = "right" /\ Other("right") = "left"
    BY DEF Sides, Other
  <2>2. p \in Pairs
    BY DEF Good
  <2>3. p["right"] = w /\ p["left"] = p.left
    BY <2>2 DEF Pairs
  <2>4. /\ OwnSound("right", p["right"]) /\ OwnSound("left", p["left"])
        /\ Linked(p, "left") /\ Linked(p, "right")
        /\ Passed(p["right"], n["left"], p["left"].fd.unread)
        /\ Passed(p["left"], n["right"], p["right"].fd.unread)
        /\ p["right"] \in Proxy /\ p["left"] \in Proxy
    BY <2>1, GoodSide
  <2>. QED  BY <2>2, <2>3, <2>4 DEF Good
<1>2. x \in Proxy /\ x.fd = w.fd /\ x.status = "connected" /\ x.life = w.life /\ x.peer = w.peer
      /\ x.closing = w.closing /\ x.buffer = w.buffer
  BY <1>1 DEF Proxy
<1>3. p.right.fd.open /\ w.fd.open /\ ~ w.fd.connecting
  BY <1>1 DEF OwnSound
<1>4. q = [p EXCEPT !.right = z, !.left = l]
  BY DEF Connected
<1>. HIDE DEF x, w
<1>5. y \in Proxy /\ Same(x, y) /\ y.buffer = x.buffer /\ y.fd.sent = x.fd.sent
  <2>1. {"OUT"} \in SUBSET Events
    BY DEF Events
  <2>. QED  BY <1>2, <2>1, ModifyCallbackFacts
<1>. HIDE DEF y
<1>6. z \in Proxy /\ z.fd = y.fd /\ z.status = y.status /\ z.life = y.life /\ z.peer = y.peer
      /\ z.closing = y.closing /\ z.buffer = y.buffer
  BY <1>5 DEF Proxy, CreateReadAlarm
<1>7. l \in Proxy /\ l.fd = p.left.fd /\ l.status = p.left.status /\ l.life = p.left.life
      /\ l.peer = p.left.peer /\ l.closing = p.left.closing /\ l.buffer = p.left.buffer
  BY <1>1 DEF Proxy, CreateReadAlarm
<1>. HIDE DEF z, l, q
<1>8. q \in Pairs /\ q["left"] = l /\ q["right"] = z /\ q.right = z /\ q.left = l
  BY <1>1, <1>4, <1>6, <1>7 DEF Pairs
<1>9. z.status = "connected" /\ z.life = w.life /\ z.peer = w.peer /\ z.closing = w.closing
      /\ SameSocket(w.fd, z.fd) /\ Given(z) = Given(w)
  BY <1>2, <1>5, <1>6 DEF Same, SameSocket, Given
<1>10. OwnSound("right", z) /\ OwnSound("left", l)
  BY <1>1, <1>3, <1>7, <1>9 DEF OwnSound, SameSocket
<1>11. Linked(q, "left") /\ Linked(q, "right")
  BY <1>1, <1>7, <1>8, <1>9 DEF Linked, Other
<1>12. Passed(z, n["left"], l.fd.unread)
  BY <1>1, <1>3, <1>7, <1>9 DEF Passed, SameSocket
<1>13. Passed(l, n["right"], z.fd.unread)
  BY <1>1, <1>7, <1>9 DEF Passed, SameSocket, Given
<1>14. \A r \in armed \ {"right"} : Armed(q[r])
  <2>1. "left" \in armed => Armed(p.left)
    BY <1>1
  <2>2. Armed(p.left) => Armed(l)
    BY <1>7 DEF Armed
  <2>3. \A r \in armed \ {"right"} : r = "left"
    BY DEF Sides
  <2>. QED  BY <1>8, <2>1, <2>2, <2>3
<1>15. Good(q, n, armed \ {"right"})
  <2>1. "left" \in Sides /\ Other("left") = "right"
    BY DEF Sides, Other
  <2>2. /\ OwnSound("left", q["left"]) /\ OwnSound(Other("left"), q[Other("left")])
        /\ Linked(q, "left") /\ Linked(q, Other("left"))
        /\ Passed(q["left"], n[Other("left")], q[Other("left")].fd.unread)
        /\ Passed(q[Other("left")], n["left"], q["left"].fd.unread)
    BY <1>8, <1>10, <1>11, <1>12, <1>13, <2>1
  <2>. QED  BY <1>8, <1>14, <2>1, <2>2, GoodBySides
<1>16. \A s \in Sides : q[s].fd.eof = p[s].fd.eof /\ q[s].life = p[s].life
  BY <1>1, <1>7, <1>8, <1>9 DEF Sides, SameSocket
<1>17. q.right.status = "connected" /\ ~ q.right.fd.connecting
  BY <1>3, <1>8, <1>9 DEF SameSocket
<1>. QED  BY <1>15, <1>16, <1>17 DEF q

\* What EPOLLOUT does on the right side: it is connected, written to and armed.
LEMMA RightOnOutGood ==
  ASSUME NEW p, NEW n \in [Sides -> Nat], NEW armed \in SUBSET Sides, Good(p, n, armed),
         ~ p.right.fd.connecting
  PROVE  LET q == RightOnOut(p)
         IN  /\ Good(q, n, armed \cup {"right"}) /\ q.right.status # "connecting"
             /\ \A s \in Sides : /\ q[s].fd.eof = p[s].fd.eof
                                 /\ q[s].life = "none" => p[s].life = "none"
<1>. DEFINE c == IF p.right.status = "connecting" THEN Connected(p) ELSE p
            q == OnWriteEvent(c, "right")
<1>1. RightOnOut(p) = q
  BY DEF RightOnOut, Then
<1>2. /\ Good(c, n, armed \ {"right"}) /\ c.right.status # "connecting"
      /\ \A s \in Sides : c[s].fd.eof = p[s].fd.eof /\ c[s].life = p[s].life
  <2>1. CASE p.right.status = "connecting"
    BY <2>1, ConnectedGood
  <2>2. CASE p.right.status # "connecting"
    <3>1. Good(p, n, armed \ {"right"})
      BY GoodLess
    <3>. QED  BY <2>2, <3>1
  <2>. QED  BY <2>1, <2>2
<1>. HIDE DEF c
<1>3. "right" \in Sides /\ armed \ {"right"} \in SUBSET Sides /\ c["right"] = c.right
      /\ (armed \ {"right"}) \cup {"right"} = armed \cup {"right"}
  BY <1>2 DEF Sides, Good, Pairs
<1>4. Good(q, n, (armed \ {"right"}) \cup {"right"}) /\ Kept(c, q)
  BY <1>2, <1>3, OnWriteEventGood
<1>. HIDE DEF q
<1>5. q.right.status # "connecting"
  <2>1. q["right"] = q.right
    BY <1>4 DEF Good, Pairs
  <2>. QED  BY <1>2, <1>3, <1>4, <2>1 DEF Kept
<1>6. \A s \in Sides : /\ q[s].fd.eof = p[s].fd.eof
                       /\ q[s].life = "none" => p[s].life = "none"
  BY <1>2, <1>4 DEF Kept
<1>. QED  BY <1>1, <1>3, <1>4, <1>5, <1>6

\* An event of the right side; while it connects the only report is that it is done.
LEMMA RightOnEventStep ==
  ASSUME ProxyInv, RightOnEvent
  PROVE  ProxyInv' /\ ClosesKnowing
<1>. DEFINE n == Came
            events == Reported(px.right.fd)
            c == Called("right")
            c1 == IF events \cap {"RDHUP", "HUP"} # {} THEN CloseFd(c, "right") ELSE c
<1>1. "right" \in Sides /\ Sides \ {"right"} \in SUBSET Sides /\ (Sides \ {"right"}) \cup {"right"} = Sides
  BY DEF Sides
<1>2. /\ n \in [Sides -> Nat] /\ px["right"] = px.right /\ Quiet(px) /\ px.right \in Proxy
      /\ OwnSound("right", px.right) /\ px.right.fd.open /\ events # {} /\ px.left.life # "none"
  <2>1. n \in [Sides -> Nat] /\ px["right"] = px.right /\ px.right \in Proxy
        /\ OwnSound("right", px.right) /\ px.right.fd.open /\ events # {}
    BY <1>1, CameType DEF RightOnEvent, HasEvent, IsOpen
  <2>2. px["right"].life # "none"
    BY <2>1 DEF OwnSound
  <2>. QED  BY <1>1, <2>1, <2>2, LeftComesFirst DEF ProxyInv
<1>3. /\ Good(c, n, Sides \ {"right"}) /\ Kept(px, c) /\ Quiet(c)
      /\ "OUT" \notin events => Good(c, n, Sides)
      /\ c["right"].fd.eof = px.right.fd.eof
  BY <1>1, <1>2, CalledGood DEF RightOnEvent
<1>4. PICK p \in IF "IN" \in events THEN OnReadEvent(c1, "right") ELSE {c1} :
         Becomes(IF "OUT" \in events THEN RightOnOut(p) ELSE p)
  BY DEF RightOnEvent
<1>5. events \cap {"RDHUP", "HUP"} # {} => px.right.fd.eof
  <2>1. "RDHUP" \in events => px.right.fd.eof
    BY DEF Reported, Ready
  <2>2. "HUP" \in events => px.right.fd.dead
    BY DEF Reported, Ready
  <2>. QED  BY <1>2, <2>1, <2>2 DEF OwnSound
<1>6. "OUT" \in events => ~ px.right.fd.connecting
  BY DEF Reported, Ready
<1>7. px.right.status = "connecting" => "OUT" \in events
  <2>. SUFFICES ASSUME px.right.status = "connecting" PROVE "OUT" \in events
    OBVIOUS
  <2>1. ~ px.right.fd.connecting
    <3>. SUFFICES ASSUME px.right.fd.connecting PROVE FALSE
      OBVIOUS
    <3>1. px.right.fd.unread = <<>> /\ ~ px.right.fd.eof /\ ~ px.right.fd.dead
      BY <1>2 DEF OwnSound
    <3>2. Ready(px.right.fd) = {}
      BY <3>1 DEF Ready
    <3>. QED  BY <1>2, <3>2 DEF Reported
  <2>2. px.right.fd.room > 0 /\ "OUT" \in px.right.fd.mask
    BY <1>2, SocketAssumption DEF Quiet
  <2>3. "OUT" \in Ready(px.right.fd)
    BY <2>1, <2>2 DEF Ready, Events
  <2>. QED  BY <2>2, <2>3 DEF Reported
<1>. HIDE DEF n, events, c
<1>8. /\ Good(c1, n, Sides \ {"right"}) /\ Kept(c, c1)
      /\ "OUT" \notin events => Good(c1, n, Sides)
  <2>1. CASE events \cap {"RDHUP", "HUP"} # {}
    <3>1. c["right"].fd.eof
      BY <1>3, <1>5, <2>1
    <3>2. Good(CloseFd(c, "right"), n, (Sides \ {"right"}) \cup {"right"}) /\ Kept(c, CloseFd(c, "right"))
      BY <1>1, <1>2, <1>3, <3>1, CloseFdGood
    <3>3. Good(CloseFd(c, "right"), n, Sides) /\ Good(CloseFd(c, "right"), n, Sides \ {"right"})
      BY <1>1, <3>2, GoodLess
    <3>. QED  BY <2>1, <3>2, <3>3
  <2>2. CASE ~ (events \cap {"RDHUP", "HUP"} # {})
    BY <1>3, <2>2, KeptItself
  <2>. QED  BY <2>1, <2>2
<1>. HIDE DEF c1
<1>9. /\ Good(p, n, Sides \ {"right"}) /\ Kept(c1, p)
      /\ "OUT" \notin events => Good(p, n, Sides)
  <2>1. CASE "IN" \in events
    <3>1. p \in OnReadEvent(c1, "right")
      BY <1>4, <2>1
    <3>. QED  BY <1>1, <1>2, <1>8, <3>1, OnReadEventGood
  <2>2. CASE "IN" \notin events
    BY <1>4, <1>8, <2>2, KeptItself
  <2>. QED  BY <2>1, <2>2
<1>10. Kept(px, p)
  <2>1. Kept(px, c1)
    BY <1>3, <1>8, KeptTransitive
  <2>. QED  BY <1>9, <2>1, KeptTransitive
<1>11. p["right"] = p.right /\ p["left"] = p.left
  BY <1>9 DEF Good, Pairs
<1>12. CASE "OUT" \in events
  <2>. DEFINE q == RightOnOut(p)
  <2>1. ~ p.right.fd.connecting
    BY <1>1, <1>2, <1>6, <1>10, <1>11, <1>12 DEF Kept
  <2>2. /\ Good(q, n, (Sides \ {"right"}) \cup {"right"}) /\ q.right.status # "connecting"
        /\ \A s \in Sides : /\ q[s].fd.eof = p[s].fd.eof
                            /\ q[s].life = "none" => p[s].life = "none"
    BY <1>1, <1>2, <1>9, <2>1, RightOnOutGood
  <2>3. Becomes(q)
    BY <1>4, <1>12
  <2>. HIDE DEF q
  <2>4. Good(q, Came, Sides) /\ Quiet(q)
    BY <1>1, <2>2 DEF Quiet, n
  <2>5. q.left.life # "none"
    <3>1. q["left"] = q.left /\ px["left"] = px.left /\ "left" \in Sides
      BY <2>4, CameType DEF Good, Pairs, Sides
    <3>. QED  BY <1>2, <1>10, <2>2, <3>1 DEF Kept
  <2>6. ClosesKnowing
    BY <1>10, <2>2, <2>3 DEF ClosesKnowing, Kept, Becomes
  <2>. QED  BY <2>3, <2>4, <2>5, <2>6, BecomesKeeps
<1>13. CASE "OUT" \notin events
  <2>1. p.right.status # "connecting"
    BY <1>1, <1>2, <1>7, <1>10, <1>11, <1>13 DEF Kept
  <2>2. Quiet(p)
    BY <2>1 DEF Quiet
  <2>3. Becomes(p) /\ Good(p, Came, Sides)
    BY <1>4, <1>9, <1>13 DEF n
  <2>. QED  BY <1>2, <1>10, <2>2, <2>3, MethodsKeep
<1>. QED  BY <1>12, <1>13

LEMMA OnReadBudgetAlarmStep ==
  ASSUME ProxyInv, NEW s \in Sides, OnReadBudgetAlarm(s)
  PROVE  ProxyInv' /\ ClosesKnowing
<1>. DEFINE n == Came
            reads == /\ IsOpen(px, s)
                     /\ ~ (px[s].peer /\ IsBufferAboveThreshold(px[Other(s)]))
                     /\ px[s].status = "connected"
<1>1. /\ n \in [Sides -> Nat] /\ Good(px, n, Sides) /\ Quiet(px)
      /\ px.left = px["left"] /\ px.right = px["right"]
  BY CameType DEF ProxyInv
<1>2. PICK p \in IF reads THEN OnReadEvent(px, s) ELSE {px} : Becomes(CheckCloseFd(p, s))
  BY DEF OnReadBudgetAlarm
<1>3. px[s].readAlarm /\ px[s].life # "none"
  BY DEF OnReadBudgetAlarm, HasAlarm
<1>4. px.right.status # "connecting"
  BY <1>1, <1>3 DEF Quiet, Sides
<1>. HIDE DEF n, reads
<1>5. Sides \in SUBSET Sides
  OBVIOUS
<1>6. Good(p, n, Sides) /\ Kept(px, p)
  <2>1. CASE reads
    <3>1. p \in OnReadEvent(px, s)
      BY <1>2, <2>1
    <3>. QED  BY <1>1, <1>4, <1>5, <3>1, OnReadEventGood
  <2>2. CASE ~ reads
    BY <1>1, <1>2, <2>2, KeptItself
  <2>. QED  BY <2>1, <2>2
<1>. DEFINE q == CheckCloseFd(p, s)
<1>7. Good(q, n, Sides) /\ Kept(p, q)
  BY <1>1, <1>5, <1>6, CheckCloseFdGood
<1>8. Becomes(q)
  BY <1>2
<1>. HIDE DEF q
<1>9. Kept(px, q)
  BY <1>6, <1>7, KeptTransitive
<1>10. q.right.status # "connecting"
  <2>1. q["right"] = q.right /\ "right" \in Sides
    BY <1>7 DEF Good, Pairs, Sides
  <2>. QED  BY <1>1, <1>4, <1>9, <2>1 DEF Kept
<1>11. Quiet(q) /\ Good(q, Came, Sides)
  BY <1>7, <1>10 DEF Quiet, n
<1>12. px.left.life # "none"
  BY <1>3, LeftComesFirst
<1>. QED  BY <1>8, <1>9, <1>11, <1>12, MethodsKeep

LEMMA OnWriteBudgetAlarmStep ==
  ASSUME ProxyInv, NEW s \in Sides, OnWriteBudgetAlarm(s)
  PROVE  ProxyInv' /\ ClosesKnowing
<1>. DEFINE n == Came
            b == IncreaseBudget(px[s].budget)
            x == [px[s] EXCEPT !.budget = b]
            q == Put(px, s, x)
<1>1. /\ n \in [Sides -> Nat] /\ Good(px, n, Sides) /\ Quiet(px) /\ px \in Pairs /\ px[s] \in Proxy
      /\ px.left = px["left"] /\ px.right = px["right"] /\ Armed(px[s])
  BY CameType DEF ProxyInv
<1>2. Becomes(q)
  BY DEF OnWriteBudgetAlarm, Put
<1>3. px[s].life # "none"
  BY DEF OnWriteBudgetAlarm, HasAlarm
<1>4. b \in -MaxBudget .. MaxBudget
  BY <1>1, ProxyFields, IncreaseBudgetType
<1>. HIDE DEF b, n
<1>5. x \in Proxy /\ Same(px[s], x) /\ x.fd = px[s].fd /\ x.buffer = px[s].buffer
  BY <1>1, <1>4 DEF Proxy, Same, SameSocket
<1>. HIDE DEF x
<1>6. Given(x) = Given(px[s]) /\ Armed(x)
  BY <1>1, <1>5 DEF Given, Armed
<1>7. Good(q, n, Sides \cup {s}) /\ Kept(px, q)
  BY <1>1, <1>5, <1>6, GoodWrite
<1>8. q[s] = x /\ q[Other(s)] = px[Other(s)]
  BY <1>1, <1>5, PutFacts
<1>. HIDE DEF q
<1>9. Good(q, Came, Sides)
  BY <1>7, GoodLess DEF n
<1>10. Quiet(q)
  <2>1. q.left = q["left"] /\ q.right = q["right"]
    BY <1>9 DEF Good, Pairs
  <2>2. CASE s = "left"
    BY <1>1, <1>5, <1>8, <2>1, <2>2 DEF Quiet, Same, Other
  <2>3. CASE s = "right"
    BY <1>1, <1>5, <1>8, <2>1, <2>3 DEF Quiet, Same, Other
  <2>. QED  BY <2>2, <2>3 DEF Sides
<1>11. px.left.life # "none"
  BY <1>3, LeftComesFirst
<1>. QED  BY <1>2, <1>7, <1>9, <1>10, <1>11, MethodsKeep

\* No peer points to an object that is deleted.
LEMMA DeleteStep ==
  ASSUME ProxyInv, NEW s \in Sides, Delete(s)
  PROVE  ProxyInv' /\ ClosesKnowing
<1>. DEFINE n == Came
            o == Other(s)
            x == [px[s] EXCEPT !.life = "deleted", !.readAlarm = FALSE, !.writeAlarm = FALSE]
            q == Put(px, s, x)
<1>1. /\ Good(px, n, Sides) /\ Quiet(px) /\ px \in Pairs /\ px[s] \in Proxy
      /\ OwnSound(s, px[s]) /\ OwnSound(o, px[o]) /\ Linked(px, s) /\ Linked(px, o)
      /\ Passed(px[s], n[o], px[o].fd.unread) /\ Passed(px[o], n[s], px[s].fd.unread)
      /\ Armed(px[s]) /\ Armed(px[o])
      /\ Other(o) = s /\ o \in Sides /\ \A r \in Sides : r = s \/ r = o
  BY CameType, GoodSide, Others DEF ProxyInv
<1>2. px[s].life = "destroyed" /\ Becomes(q)
  BY DEF Delete, Put
<1>3. x \in Proxy /\ x.fd = px[s].fd /\ x.buffer = px[s].buffer /\ x.status = px[s].status
      /\ x.peer = px[s].peer /\ x.closing = px[s].closing /\ x.life = "deleted" /\ ~ x.readAlarm
  BY <1>1 DEF Proxy
<1>. HIDE DEF x, n, o
<1>4. q[s] = x /\ q[o] = px[o] /\ q \in Pairs
  BY <1>1, <1>3, PutFacts DEF o
<1>. HIDE DEF q
<1>5. OwnSound(s, q[s]) /\ OwnSound(o, q[o])
  BY <1>1, <1>2, <1>3, <1>4 DEF OwnSound
<1>6. ~ px[o].peer /\ ~ px[s].peer
  BY <1>1, <1>2 DEF Linked, o
<1>7. Linked(q, s) /\ Linked(q, o)
  BY <1>3, <1>4, <1>6 DEF Linked
<1>8. Passed(q[s], n[o], q[o].fd.unread) /\ Passed(q[o], n[s], q[s].fd.unread)
  BY <1>1, <1>3, <1>4 DEF Passed, Given
<1>9. \A r \in Sides : Armed(q[r])
  <2>1. Armed(x)
    BY <1>1, <1>3 DEF Armed
  <2>. QED  BY <1>1, <1>4, <2>1
<1>10. Good(q, n, Sides)
  BY <1>4, <1>5, <1>7, <1>8, <1>9, GoodBySides DEF o
<1>11. Kept(px, q)
  BY <1>1, <1>3, <1>4 DEF Kept
<1>12. Quiet(q)
  <2>1. q.left = q["left"] /\ q.right = q["right"] /\ px.left = px["left"] /\ px.right = px["right"]
    BY <1>1, <1>4 DEF Pairs
  <2>2. CASE s = "left"
    BY <1>1, <1>3, <1>4, <2>1, <2>2 DEF Quiet, Other, o
  <2>3. CASE s = "right"
    BY <1>1, <1>3, <1>4, <2>1, <2>3 DEF Quiet, Other, o
  <2>. QED  BY <2>2, <2>3 DEF Sides
<1>13. px.left.life # "none"
  BY <1>2, LeftComesFirst
<1>. QED  BY <1>2, <1>10, <1>11, <1>12, <1>13, MethodsKeep DEF n

-------------------------------------------------------------------------------
(* The constructor. *)

LEMMA NewProxyFresh ==
  ASSUME NEW k \in Socket, k.open, k.sent = <<>>, k.unread = <<>>, ~ k.dead
  PROVE  LET x == NewProxy(k)
         IN  /\ Fresh(x) /\ x.fd = k /\ x.life = "live" /\ x.status = "disconnect"
             /\ ~ x.peer /\ ~ x.closing /\ ~ x.readAlarm
<1>1. NoProxy \in Proxy
  <2>1. NoSocket \in Socket
    BY SocketAssumption DEF NoSocket, Socket, Events
  <2>2. 0 \in -MaxBudget .. MaxBudget
    BY ProxyAssumption
  <2>. QED  BY <2>1, <2>2 DEF NoProxy, Proxy
<1>. DEFINE x == NewProxy(k)
<1>2. x = [NoProxy EXCEPT !.life = "live", !.fd = k]
  BY DEF NewProxy
<1>3. x \in Proxy /\ x.fd = k /\ x.life = "live"
  BY <1>1, <1>2 DEF Proxy
<1>4. x.status = "disconnect" /\ ~ x.peer /\ ~ x.closing /\ ~ x.readAlarm /\ x.buffer = <<>>
  BY <1>2 DEF NoProxy
<1>. HIDE DEF x
<1>5. Fresh(x)
  BY <1>3, <1>4 DEF Fresh
<1>. QED  BY <1>3, <1>4, <1>5 DEF x

LEMMA NewSockets ==
  /\ LET k == Arm(AcceptedSocket, {"OUT"})
     IN  k \in Socket /\ k.open /\ k.sent = <<>> /\ k.unread = <<>> /\ ~ k.dead
         /\ ~ k.eof /\ ~ k.connecting /\ k.mask = {"OUT", "RDHUP"}
  /\ LET k == ConnectingSocket
     IN  k \in Socket /\ k.open /\ k.sent = <<>> /\ k.unread = <<>> /\ ~ k.dead
         /\ ~ k.eof /\ k.connecting /\ k.room = SendRoom
<1>0. NoSocket \in Socket
  BY SocketAssumption DEF NoSocket, Socket, Events
<1>1. /\ ConnectingSocket \in Socket /\ ConnectingSocket.open /\ ConnectingSocket.sent = <<>>
      /\ ConnectingSocket.unread = <<>> /\ ~ ConnectingSocket.dead
      /\ ~ ConnectingSocket.eof /\ ConnectingSocket.connecting /\ ConnectingSocket.room = SendRoom
  <2>1. ConnectingSocket \in Socket
    BY <1>0, SocketAssumption DEF ConnectingSocket, Socket
  <2>2. /\ ConnectingSocket.open /\ ConnectingSocket.sent = <<>>
        /\ ConnectingSocket.unread = <<>> /\ ~ ConnectingSocket.dead
        /\ ~ ConnectingSocket.eof /\ ConnectingSocket.connecting /\ ConnectingSocket.room = SendRoom
    BY DEF ConnectingSocket, NoSocket
  <2>. QED  BY <2>1, <2>2
<1>. DEFINE a == AcceptedSocket
            k == Arm(a, {"OUT"})
<1>2. a \in Socket /\ a.open /\ a.sent = <<>> /\ a.unread = <<>> /\ ~ a.dead /\ ~ a.eof /\ ~ a.connecting
  <2>1. a \in Socket
    BY <1>0, SocketAssumption DEF AcceptedSocket, Socket
  <2>2. a.open /\ a.sent = <<>> /\ a.unread = <<>> /\ ~ a.dead /\ ~ a.eof /\ ~ a.connecting
    BY DEF AcceptedSocket, NoSocket
  <2>. QED  BY <2>1, <2>2
<1>. HIDE DEF a
<1>3. {"OUT"} \in SUBSET Events
  BY DEF Events
<1>4. /\ k \in Socket /\ SameSocket(a, k) /\ k.room = a.room /\ k.sent = a.sent
      /\ k.mask = {"OUT"} \cup {"RDHUP"}
  BY <1>2, <1>3, ArmFacts
<1>. HIDE DEF k
<1>5. k \in Socket /\ k.open /\ k.sent = <<>> /\ k.unread = <<>> /\ ~ k.dead
      /\ ~ k.eof /\ ~ k.connecting /\ k.mask = {"OUT", "RDHUP"}
  BY <1>2, <1>4 DEF SameSocket
<1>. QED  BY <1>1, <1>5 DEF k, a

\* An object that has been closed before anything happened to it.
LEMMA FreshClosed ==
  ASSUME NEW x, Fresh(x), x.life = "live", x.fd.open, ~ x.closing
  PROVE  LET y == CloseAlone(x)
         IN  Fresh(y) /\ y.life \notin {"live", "none"} /\ ~ y.fd.open /\ ~ y.peer /\ y.status = "disconnect"
             /\ ~ y.closing
<1>. DEFINE y == CloseAlone(x)
<1>1. x \in Proxy
  BY DEF Fresh
<1>2. /\ y \in Proxy /\ y.life # "live" /\ ~ y.fd.open /\ ~ y.peer
      /\ y.life = "none" => x.life = "none"
      /\ y.status = IF x.fd.open THEN "disconnect" ELSE x.status
      /\ y.buffer = x.buffer /\ y.closing = x.closing /\ y.readAlarm = x.readAlarm
      /\ y.fd.sent = x.fd.sent /\ y.fd.unread = x.fd.unread /\ y.fd.eof = x.fd.eof
      /\ y.fd.dead = x.fd.dead /\ y.fd.connecting = x.fd.connecting
      /\ y.fd.mask \subseteq x.fd.mask
  BY <1>1, CloseAloneFacts
<1>. HIDE DEF y
<1>3. Fresh(y)
  BY <1>2 DEF Fresh
<1>. QED  BY <1>2, <1>3 DEF y

LEMMA FreshNotified ==
  ASSUME NEW x, Fresh(x), x.life \notin {"live", "none"}, ~ x.fd.open, x.status = "disconnect"
  PROVE  LET y == NotifyClose(x)
         IN  Fresh(y) /\ y.life \notin {"live", "none"} /\ ~ y.fd.open /\ ~ y.peer /\ y.status = "disconnect"
<1>. DEFINE y == NotifyClose(x)
<1>1. x \in Proxy /\ (x.life = "live" <=> x.fd.open)
  BY DEF Fresh
<1>2. /\ y \in Proxy /\ (y.life = "live" <=> y.fd.open) /\ ~ y.peer
      /\ y.life = "none" => x.life = "none"
      /\ y.fd.open <=> (x.fd.open /\ x.buffer # <<>>)
      /\ y.status = IF x.fd.open /\ ~ y.fd.open THEN "disconnect" ELSE x.status
      /\ y.buffer = x.buffer /\ y.readAlarm = x.readAlarm
      /\ y.fd.sent = x.fd.sent /\ y.fd.unread = x.fd.unread /\ y.fd.eof = x.fd.eof
      /\ y.fd.dead = x.fd.dead /\ y.fd.connecting = x.fd.connecting
      /\ y.fd.mask \subseteq x.fd.mask
      /\ y.fd.open => y.fd = x.fd
  BY <1>1, NotifyCloseFacts
<1>. HIDE DEF y
<1>3. Fresh(y)
  BY <1>2 DEF Fresh
<1>. QED  BY <1>2, <1>3 DEF y

\* Closed objects, and those that were never made, are sound.
LEMMA GoneIsSound ==
  ASSUME NEW x, Fresh(x), x.life # "live", ~ x.fd.open, ~ x.peer, x.status = "disconnect", NEW s
  PROVE  OwnSound(s, x)
BY DEF OwnSound, Fresh

\* The constructor leaves nothing, or two objects that point to each other and of which
\* the right one is connecting.
LEMMA TpProxyLeftStep ==
  ASSUME ProxyInv, TpProxyLeft
  PROVE  ProxyInv' /\ ClosesKnowing
<1>. DEFINE k == Arm(AcceptedSocket, {"OUT"})
            l == NewProxy(k)
            c == ConnectingSocket
            r == NewProxy(c)
            left == [px EXCEPT !.left = l]
            both == [left EXCEPT !.left.peer = TRUE, !.right = r]
<1>1. px = [left |-> NoProxy, right |-> NoProxy, fault |-> "none"] /\ Came = [s \in Sides |-> 0]
  <2>1. px = [left |-> NoProxy, right |-> NoProxy, fault |-> "none"] /\ consumed = [s \in Sides |-> 0]
    BY DEF TpProxyLeft, ProxyInv, Init
  <2>2. \A s \in Sides : Len(px[s].fd.unread) = 0
    BY <2>1 DEF Sides, NoProxy, NoSocket
  <2>. QED  BY <2>1, <2>2 DEF Came
<1>2. \A s \in Sides : Came[s] = 0
  BY <1>1
<1>3. Fresh(NoProxy) /\ NoProxy.life = "none" /\ ~ NoProxy.fd.open /\ ~ NoProxy.peer
      /\ NoProxy.status = "disconnect"
  <2>1. px.right \in Proxy
    BY CameType DEF Sides
  <2>. QED  BY <1>1, <2>1 DEF NoProxy, NoSocket, Fresh
<1>4. k \in Socket /\ k.open /\ k.sent = <<>> /\ k.unread = <<>> /\ ~ k.dead
      /\ ~ k.eof /\ ~ k.connecting /\ k.mask = {"OUT", "RDHUP"}
  BY NewSockets
<1>5. c \in Socket /\ c.open /\ c.sent = <<>> /\ c.unread = <<>> /\ ~ c.dead
      /\ ~ c.eof /\ c.connecting /\ c.room = SendRoom
  BY NewSockets
<1>. HIDE DEF k, c
<1>6. /\ Fresh(l) /\ l.fd = k /\ l.life = "live" /\ l.status = "disconnect"
      /\ ~ l.peer /\ ~ l.closing /\ ~ l.readAlarm
  BY <1>4, NewProxyFresh
<1>7. /\ Fresh(r) /\ r.fd = c /\ r.life = "live" /\ r.status = "disconnect"
      /\ ~ r.peer /\ ~ r.closing /\ ~ r.readAlarm
  BY <1>5, NewProxyFresh
<1>. DEFINE lp == [l EXCEPT !.peer = TRUE]
<1>8. /\ \/ Becomes(CloseFd(left, "left"))
         \/ \E p \in AsynConnect(both) :
              Becomes(IF IsOpen(p, "right")
                      THEN [p EXCEPT !.right.peer = TRUE, !.left.status = "connected"]
                      ELSE CloseFd(p, "left"))
  BY DEF TpProxyLeft, k, c
<1>. HIDE DEF l, r
<1>9. /\ left = [left |-> l, right |-> NoProxy, fault |-> "none"]
      /\ both = [left |-> lp, right |-> r, fault |-> "none"]
  <2>1. left = [left |-> l, right |-> NoProxy, fault |-> "none"]
    BY <1>1
  <2>2. both = [[left EXCEPT !.left = lp] EXCEPT !.right = r]
    BY <2>1
  <2>. HIDE DEF left, both, lp
  <2>3. both = [left |-> lp, right |-> r, fault |-> "none"]
    BY <2>1, <2>2
  <2>. QED  BY <2>1, <2>3
<1>10. Fresh(lp) /\ lp.fd = k /\ lp.life = "live" /\ lp.status = "disconnect"
       /\ lp.peer /\ ~ lp.closing /\ ~ lp.readAlarm
  BY <1>6 DEF Fresh, Proxy
<1>. HIDE DEF left, both, lp
<1>11. ASSUME NEW x, NEW y, NEW q, q = [left |-> x, right |-> y, fault |-> "none"], Becomes(q),
              Fresh(x), x.life \notin {"live", "none"}, ~ x.fd.open, ~ x.peer, x.status = "disconnect",
              Fresh(y), y.life # "live", ~ y.fd.open, ~ y.peer, y.status = "disconnect"
       PROVE  ProxyInv' /\ ClosesKnowing
  <2>1. q \in Pairs
    BY <1>11 DEF Pairs, Fresh
  <2>2. \A s \in Sides : Fresh(q[s]) /\ OwnSound(s, q[s]) /\ Linked(q, s)
    <3>1. OwnSound("left", x) /\ OwnSound("right", y)
      BY <1>11, GoneIsSound
    <3>2. q["left"] = x /\ q["right"] = y
      BY <1>11
    <3>. QED  BY <1>11, <3>1, <3>2 DEF Sides, Linked
  <2>3. Good(q, Came, Sides)
    BY <1>2, <2>1, <2>2, FreshGood
  <2>4. Quiet(q) /\ q.left.life # "none"
    BY <1>11 DEF Quiet
  <2>5. ClosesKnowing
    <3>1. \A s \in Sides : ~ px[s].fd.open
      BY <1>1, <1>3 DEF Sides
    <3>. QED  BY <3>1 DEF ClosesKnowing
  <2>. QED  BY <1>11, <2>3, <2>4, <2>5, BecomesKeeps
<1>12. CASE Becomes(CloseFd(left, "left"))
  <2>. DEFINE x == CloseAlone(l)
  <2>1. Fresh(x) /\ x.life \notin {"live", "none"} /\ ~ x.fd.open /\ ~ x.peer /\ x.status = "disconnect"
    BY <1>4, <1>6, FreshClosed
  <2>2. CloseFd(left, "left") = [left |-> x, right |-> NoProxy, fault |-> "none"]
    BY <1>6, <1>9 DEF CloseFd
  <2>. HIDE DEF x
  <2>. QED  BY <1>3, <1>11, <1>12, <2>1, <2>2
<1>13. ASSUME NEW p \in AsynConnect(both),
              Becomes(IF IsOpen(p, "right")
                      THEN [p EXCEPT !.right.peer = TRUE, !.left.status = "connected"]
                      ELSE CloseFd(p, "left"))
       PROVE  ProxyInv' /\ ClosesKnowing
  <2>1. CASE p = CloseFd(both, "right")
    <3>. DEFINE y == CloseAlone(r)
                x == CloseAlone(lp)
                z == NotifyClose(y)
    <3>1. Fresh(y) /\ y.life \notin {"live", "none"} /\ ~ y.fd.open /\ ~ y.peer /\ y.status = "disconnect"
      BY <1>5, <1>7, FreshClosed
    <3>2. p = [left |-> lp, right |-> y, fault |-> "none"]
      BY <1>7, <1>9, <2>1 DEF CloseFd
    <3>. HIDE DEF y
    <3>3. Fresh(x) /\ x.life \notin {"live", "none"} /\ ~ x.fd.open /\ ~ x.peer /\ x.status = "disconnect"
      BY <1>4, <1>10, FreshClosed
    <3>4. Fresh(z) /\ z.life \notin {"live", "none"} /\ ~ z.fd.open /\ ~ z.peer /\ z.status = "disconnect"
      BY <3>1, FreshNotified
    <3>5. CloseFd(p, "left") = [left |-> x, right |-> z, fault |-> "none"]
      BY <1>10, <3>2 DEF CloseFd, Other
    <3>. HIDE DEF x, z
    <3>6. Becomes(CloseFd(p, "left"))
      BY <1>13, <3>1, <3>2 DEF IsOpen
    <3>. QED  BY <1>11, <3>3, <3>4, <3>5, <3>6
  <2>2. CASE p = [both EXCEPT !.right.status = "connecting", !.right.fd = Arm(@, {"IN", "OUT"})]
    <3>. DEFINE a == Arm(c, {"IN", "OUT"})
                y == [r EXCEPT !.status = "connecting", !.fd = a]
                yp == [y EXCEPT !.peer = TRUE]
                x == [lp EXCEPT !.status = "connected"]
                q == [left |-> x, right |-> yp, fault |-> "none"]
    <3>1. a \in Socket /\ SameSocket(c, a) /\ a.room = c.room /\ a.sent = c.sent
          /\ a.mask = {"IN", "OUT"} \cup {"RDHUP"}
      <4>1. {"IN", "OUT"} \in SUBSET Events
        BY DEF Events
      <4>. QED  BY <1>5, <4>1, ArmFacts
    <3>2. p = [left |-> lp, right |-> y, fault |-> "none"]
      BY <1>7, <1>9, <2>2
    <3>. HIDE DEF a
    <3>3. /\ y \in Proxy /\ y.fd = a /\ y.status = "connecting" /\ y.life = "live"
          /\ ~ y.closing /\ ~ y.readAlarm /\ y.buffer = <<>>
      BY <1>7, <3>1 DEF Proxy, Fresh
    <3>. HIDE DEF y
    <3>4. /\ yp \in Proxy /\ yp.fd = a /\ yp.status = "connecting" /\ yp.life = "live"
          /\ ~ yp.closing /\ ~ yp.readAlarm /\ yp.buffer = <<>> /\ yp.peer
      BY <3>3 DEF Proxy
    <3>5. /\ x \in Proxy /\ x.fd = k /\ x.status = "connected" /\ x.life = "live"
          /\ ~ x.closing /\ ~ x.readAlarm /\ x.buffer = <<>> /\ x.peer
      BY <1>10 DEF Proxy, Fresh
    <3>6. y.fd.open
      BY <1>5, <3>1, <3>3 DEF SameSocket
    <3>7. [p EXCEPT !.right.peer = TRUE, !.left.status = "connected"] = q
      <4>1. p.right = y /\ p.left = lp
        BY <3>2
      <4>2. [p EXCEPT !.right.peer = TRUE, !.left.status = "connected"]
              = [[p EXCEPT !.right = yp] EXCEPT !.left = x]
        BY <4>1, <3>2
      <4>. DEFINE u == [p EXCEPT !.right = yp]
      <4>. HIDE DEF x, yp
      <4>3. u = [left |-> lp, right |-> yp, fault |-> "none"]
        BY <3>2
      <4>4. [p EXCEPT !.right.peer = TRUE, !.left.status = "connected"] = [u EXCEPT !.left = x]
        BY <4>2
      <4>. HIDE DEF u
      <4>5. [u EXCEPT !.left = x] = [left |-> x, right |-> yp, fault |-> "none"]
        BY <4>3
      <4>. QED  BY <4>4, <4>5
    <3>8. Becomes(q)
      BY <1>13, <3>2, <3>6, <3>7 DEF IsOpen
    <3>. HIDE DEF x, yp
    <3>9. q \in Pairs
      BY <3>4, <3>5 DEF Pairs
    <3>10. q["left"] = x /\ q["right"] = yp /\ q.left = x /\ q.right = yp
      OBVIOUS
    <3>. HIDE DEF q
    <3>11. Fresh(x) /\ Fresh(yp)
      BY <1>4, <1>5, <3>1, <3>4, <3>5 DEF Fresh, SameSocket
    <3>12. OwnSound("left", x) /\ OwnSound("right", yp)
      BY <1>4, <1>5, <3>1, <3>4, <3>5 DEF OwnSound, SameSocket
    <3>13. Linked(q, "left") /\ Linked(q, "right")
      BY <3>4, <3>5, <3>10 DEF Linked, Other
    <3>14. Good(q, Came, Sides)
      <4>1. \A s \in Sides : Fresh(q[s]) /\ OwnSound(s, q[s]) /\ Linked(q, s)
        BY <3>10, <3>11, <3>12, <3>13 DEF Sides
      <4>. QED  BY <1>2, <3>9, <4>1, FreshGood
    <3>15. Quiet(q) /\ q.left.life # "none"
      BY <1>4, <1>5, <3>1, <3>4, <3>5, <3>10 DEF Quiet
    <3>16. ClosesKnowing
      <4>1. \A s \in Sides : ~ px[s].fd.open
        BY <1>1, <1>3 DEF Sides
      <4>. QED  BY <4>1 DEF ClosesKnowing
    <3>. QED  BY <3>8, <3>14, <3>15, <3>16, BecomesKeeps
  <2>. QED  BY <2>1, <2>2 DEF AsynConnect
<1>. QED  BY <1>8, <1>12, <1>13

-------------------------------------------------------------------------------
(* The network. *)

LEMMA WakeFacts ==
  ASSUME NEW k \in Socket, NEW e
  PROVE  LET j == Wake(k, e)
         IN  /\ j \in Socket /\ SameSocket(k, j)
             /\ j.room = k.room /\ j.sent = k.sent /\ j.mask = k.mask
             /\ k.edge => j.edge
             /\ (k.open /\ e \in k.mask) => j.edge
<1>. DEFINE b == k.edge \/ (k.open /\ e \in k.mask \cup {"HUP"})
            j == [k EXCEPT !.edge = b]
<1>1. b \in BOOLEAN
  BY DEF Socket
<1>2. Wake(k, e) = j
  BY DEF Wake
<1>3. (k.edge => b) /\ ((k.open /\ e \in k.mask) => b)
  OBVIOUS
<1>. HIDE DEF b
<1>4. j \in Socket /\ SameSocket(k, j) /\ j.room = k.room /\ j.sent = k.sent /\ j.mask = k.mask
      /\ j.edge = b
  BY <1>1 DEF Socket, SameSocket
<1>. QED  BY <1>2, <1>3, <1>4

\* What the network may do to a socket: no report that is due is lost, room is only
\* made, and a connection that is under way is established or fails.
NetworkChanges(j, k) ==
  /\ k \in Socket /\ k.open = j.open /\ k.mask = j.mask /\ k.sent = j.sent
  /\ j.dead => k.dead
  /\ k.dead => k.eof
  /\ j.edge => k.edge
  /\ (j.open /\ j.room = 0 /\ "OUT" \in j.mask) => k.edge \/ k.room = 0
  /\ j.room = SendRoom => k.room = SendRoom
  /\ k.connecting => j.connecting /\ k.unread = j.unread /\ k.eof = j.eof /\ k.dead = j.dead

LEMMA NetworkKeeps ==
  ASSUME ProxyInv, NEW s \in Sides, NEW k, NetworkDoes(s, k),
         px[s].fd.open, NetworkChanges(px[s].fd, k),
         Passed(px[Other(s)], consumed[s] + Len(k.unread), k.unread)
  PROVE  ProxyInv' /\ ClosesKnowing
<1>. DEFINE o == Other(s)
            x == [px[s] EXCEPT !.fd = k]
            q == Put(px, s, x)
            n == Came
            m == [r \in Sides |-> consumed[r] + Len(q[r].fd.unread)]
<1>1. /\ n \in [Sides -> Nat] /\ px \in Pairs /\ px[s] \in Proxy /\ px[o] \in Proxy
      /\ OwnSound(s, px[s]) /\ OwnSound(o, px[o]) /\ Linked(px, s) /\ Linked(px, o)
      /\ Passed(px[s], n[o], px[o].fd.unread) /\ Passed(px[o], n[s], px[s].fd.unread)
      /\ Armed(px[s]) /\ Armed(px[o]) /\ Quiet(px)
      /\ Other(o) = s /\ o \in Sides /\ s # o /\ \A r \in Sides : r = s \/ r = o
  BY CameType, GoodSide, Others DEF ProxyInv
<1>2. k \in Socket
  BY DEF NetworkChanges
<1>3. x \in Proxy /\ x.fd = k /\ x.life = px[s].life /\ x.status = px[s].status /\ x.peer = px[s].peer
      /\ x.closing = px[s].closing /\ x.buffer = px[s].buffer /\ x.readAlarm = px[s].readAlarm
  BY <1>1, <1>2 DEF Proxy
<1>4. px' = q /\ consumed' = consumed
  BY DEF NetworkDoes, Put
<1>. HIDE DEF x, n, o
<1>5. q[s] = x /\ q[o] = px[o] /\ q \in Pairs
  BY <1>1, <1>3, PutFacts DEF o
<1>. HIDE DEF q
<1>6. m[s] = consumed[s] + Len(k.unread) /\ m[o] = n[o]
  BY <1>1, <1>3, <1>5 DEF Came, n
<1>. HIDE DEF m
<1>7. OwnSound(s, q[s]) /\ OwnSound(o, q[o])
  BY <1>1, <1>3, <1>5 DEF OwnSound, NetworkChanges
<1>8. Linked(q, s) /\ Linked(q, o)
  BY <1>1, <1>3, <1>5 DEF Linked, o
<1>9. Passed(q[s], m[o], q[o].fd.unread)
  BY <1>1, <1>3, <1>5, <1>6 DEF Passed, Given, NetworkChanges
<1>10. Passed(q[o], m[s], q[s].fd.unread)
  BY <1>3, <1>5, <1>6 DEF o
<1>11. \A r \in Sides : Armed(q[r])
  <2>1. Armed(x)
    BY <1>1, <1>3 DEF Armed, NetworkChanges
  <2>. QED  BY <1>1, <1>5, <2>1
<1>12. Good(q, m, Sides)
  BY <1>5, <1>7, <1>8, <1>9, <1>10, <1>11, GoodBySides DEF o
<1>13. q.left = q["left"] /\ q.right = q["right"] /\ px.left = px["left"] /\ px.right = px["right"]
  BY <1>1, <1>5 DEF Pairs
<1>14. Quiet(q)
  <2>1. CASE s = "left"
    BY <1>1, <1>3, <1>5, <1>13, <2>1 DEF Quiet, Other, o, NetworkChanges
  <2>2. CASE s = "right"
    BY <1>1, <1>3, <1>5, <1>13, <2>2 DEF Quiet, Other, o, NetworkChanges
  <2>. QED  BY <2>1, <2>2 DEF Sides
<1>15. q.left.life # "none"
  <2>1. px[s].life # "none"
    BY <1>1 DEF OwnSound
  <2>2. px.left.life # "none"
    BY <2>1, LeftComesFirst
  <2>. QED  BY <1>1, <1>3, <1>5, <1>13, <2>2 DEF Sides
<1>16. Came' = m
  BY <1>4 DEF Came, m
<1>17. ProxyInv'
  <2>1. consumed' \in [Sides -> Nat]
    BY <1>4 DEF ProxyInv
  <2>2. Good(px', Came', Sides) /\ Quiet(px') /\ px'.left.life # "none"
    BY <1>4, <1>12, <1>14, <1>15, <1>16
  <2>. QED  BY <2>1, <2>2 DEF ProxyInv, Good, Quiet
<1>18. ClosesKnowing
  BY <1>1, <1>3, <1>4, <1>5 DEF ClosesKnowing, NetworkChanges
<1>. QED  BY <1>17, <1>18

LEMMA Unmoved ==
  ASSUME ProxyInv, NEW s \in Sides, px[s].fd.open
  PROVE  /\ px[s] \in Proxy /\ px[s].fd \in Socket
         /\ px[s].fd.dead => px[s].fd.eof
         /\ Passed(px[Other(s)], consumed[s] + Len(px[s].fd.unread), px[s].fd.unread)
<1>1. px[s] \in Proxy /\ OwnSound(s, px[s]) /\ Other(s) \in Sides /\ Other(Other(s)) = s
  BY CameType, Others
<1>2. Passed(px[Other(s)], Came[Other(Other(s))], px[Other(Other(s))].fd.unread)
  BY <1>1, GoodSide DEF ProxyInv
<1>3. Came[s] = consumed[s] + Len(px[s].fd.unread)
  BY DEF Came
<1>4. px[s].fd \in Socket
  BY <1>1, ProxyFields
<1>. QED  BY <1>1, <1>2, <1>3, <1>4 DEF OwnSound

LEMMA RemoteFinishesStep ==
  ASSUME ProxyInv, NEW s \in Sides, RemoteFinishes(s)
  PROVE  ProxyInv' /\ ClosesKnowing
<1>. DEFINE j == px[s].fd
            a == [j EXCEPT !.eof = TRUE]
            b == Wake(a, "IN")
            k == Wake(b, "RDHUP")
<1>1. j.open /\ ~ j.connecting /\ ~ j.dead /\ NetworkDoes(s, k)
  BY DEF RemoteFinishes, Listening, Finish
<1>2. j \in Socket /\ Passed(px[Other(s)], consumed[s] + Len(j.unread), j.unread)
  BY <1>1, Unmoved
<1>. HIDE DEF j
<1>3. a \in Socket /\ a.open = j.open /\ a.mask = j.mask /\ a.sent = j.sent /\ a.dead = j.dead
      /\ a.edge = j.edge /\ a.room = j.room /\ a.connecting = j.connecting /\ a.unread = j.unread
  BY <1>2 DEF Socket
<1>. HIDE DEF a
<1>4. b \in Socket /\ SameSocket(a, b) /\ b.room = a.room /\ b.sent = a.sent /\ b.mask = a.mask
      /\ (a.edge => b.edge)
  BY <1>3, WakeFacts
<1>. HIDE DEF b
<1>5. k \in Socket /\ SameSocket(b, k) /\ k.room = b.room /\ k.sent = b.sent /\ k.mask = b.mask
      /\ (b.edge => k.edge)
  BY <1>4, WakeFacts
<1>. HIDE DEF k
<1>6. NetworkChanges(j, k) /\ k.unread = j.unread
  BY <1>1, <1>3, <1>4, <1>5 DEF NetworkChanges, SameSocket
<1>. QED  BY <1>1, <1>2, <1>6, NetworkKeeps DEF j

LEMMA RemoteResetsStep ==
  ASSUME ProxyInv, NEW s \in Sides, RemoteResets(s)
  PROVE  ProxyInv' /\ ClosesKnowing
<1>. DEFINE j == px[s].fd
            a == [j EXCEPT !.eof = TRUE, !.err = TRUE, !.dead = TRUE, !.connecting = FALSE]
            k == Wake(a, "HUP")
<1>1. j.open /\ NetworkDoes(s, k)
  BY DEF RemoteResets, IsOpen, Reset
<1>2. j \in Socket /\ Passed(px[Other(s)], consumed[s] + Len(j.unread), j.unread)
  BY <1>1, Unmoved
<1>. HIDE DEF j
<1>3. a \in Socket /\ a.open = j.open /\ a.mask = j.mask /\ a.sent = j.sent /\ a.dead /\ a.eof
      /\ a.edge = j.edge /\ a.room = j.room /\ ~ a.connecting /\ a.unread = j.unread
  BY <1>2 DEF Socket
<1>. HIDE DEF a
<1>4. k \in Socket /\ SameSocket(a, k) /\ k.room = a.room /\ k.sent = a.sent /\ k.mask = a.mask
      /\ (a.edge => k.edge)
  BY <1>3, WakeFacts
<1>. HIDE DEF k
<1>5. NetworkChanges(j, k) /\ k.unread = j.unread
  BY <1>1, <1>3, <1>4 DEF NetworkChanges, SameSocket
<1>. QED  BY <1>1, <1>2, <1>5, NetworkKeeps DEF j

LEMMA EstablishedStep ==
  ASSUME ProxyInv, Established
  PROVE  ProxyInv' /\ ClosesKnowing
<1>. DEFINE s == "right"
            j == px[s].fd
            a == [j EXCEPT !.connecting = FALSE]
            k == Wake(a, "OUT")
<1>1. s \in Sides /\ j.open /\ NetworkDoes(s, k)
  BY CameType DEF Established, Establish, Sides
<1>2. /\ j \in Socket /\ Passed(px[Other(s)], consumed[s] + Len(j.unread), j.unread)
      /\ j.dead => j.eof
  BY <1>1, Unmoved
<1>. HIDE DEF j, s
<1>3. a \in Socket /\ a.open = j.open /\ a.mask = j.mask /\ a.sent = j.sent /\ a.dead = j.dead
      /\ a.edge = j.edge /\ a.room = j.room /\ ~ a.connecting /\ a.unread = j.unread /\ a.eof = j.eof
  BY <1>2 DEF Socket
<1>. HIDE DEF a
<1>4. k \in Socket /\ SameSocket(a, k) /\ k.room = a.room /\ k.sent = a.sent /\ k.mask = a.mask
      /\ (a.edge => k.edge)
  BY <1>3, WakeFacts
<1>. HIDE DEF k
<1>5. NetworkChanges(j, k) /\ k.unread = j.unread
  BY <1>1, <1>2, <1>3, <1>4 DEF NetworkChanges, SameSocket
<1>. QED  BY <1>1, <1>2, <1>5, NetworkKeeps DEF j

LEMMA RemoteReceivesStep ==
  ASSUME ProxyInv, NEW s \in Sides, RemoteReceives(s)
  PROVE  ProxyInv' /\ ClosesKnowing
<1>. DEFINE j == px[s].fd
<1>1. j.open /\ ~ j.connecting /\ ~ j.dead
  BY DEF RemoteReceives, Listening
<1>2. PICK room \in (j.room + 1) .. SendRoom : NetworkDoes(s, Drain(j, room))
  BY DEF RemoteReceives
<1>3. j \in Socket /\ Passed(px[Other(s)], consumed[s] + Len(j.unread), j.unread)
  BY <1>1, Unmoved
<1>. DEFINE a == [j EXCEPT !.room = room]
            w == Wake(a, "OUT")
            k == IF j.room = 0 THEN w ELSE a
<1>4. NetworkDoes(s, k)
  BY <1>2 DEF Drain
<1>. HIDE DEF j
<1>5. j.room \in 0 .. SendRoom
  BY <1>3 DEF Socket
<1>6. room \in 0 .. SendRoom /\ j.room < room /\ (j.room = SendRoom => FALSE)
  BY <1>5, SocketAssumption
<1>7. a \in Socket /\ a.open = j.open /\ a.mask = j.mask /\ a.sent = j.sent /\ a.dead = j.dead
      /\ a.edge = j.edge /\ a.connecting = j.connecting /\ a.unread = j.unread
  BY <1>3, <1>6 DEF Socket
<1>. HIDE DEF a
<1>8. /\ w \in Socket /\ SameSocket(a, w) /\ w.sent = a.sent /\ w.mask = a.mask
      /\ a.edge => w.edge
      /\ (a.open /\ "OUT" \in a.mask) => w.edge
  BY <1>7, WakeFacts
<1>. HIDE DEF w
<1>9. NetworkChanges(j, k) /\ k.unread = j.unread
  BY <1>1, <1>6, <1>7, <1>8 DEF NetworkChanges, SameSocket
<1>. HIDE DEF k
<1>. QED  BY <1>1, <1>3, <1>4, <1>9, NetworkKeeps DEF j

\* A unit that arrives is the next of its stream.
LEMMA RemoteSendsStep ==
  ASSUME ProxyInv, NEW s \in Sides, RemoteSends(s)
  PROVE  ProxyInv' /\ ClosesKnowing
<1>. DEFINE j == px[s].fd
            u == j.unread
            c == consumed[s]
            e == c + Len(u) + 1
            a == [j EXCEPT !.unread = Append(u, e)]
            k == Wake(a, "IN")
            x == px[Other(s)]
<1>1. j.open /\ ~ j.connecting /\ ~ j.dead /\ NetworkDoes(s, k)
  BY DEF RemoteSends, Listening, Arrive
<1>2. j \in Socket /\ Passed(x, c + Len(u), u)
  BY <1>1, Unmoved
<1>3. c \in Nat /\ u \in Seq(Nat) /\ Len(u) \in Nat /\ x \in Proxy
  BY <1>2, CameType, Others DEF ProxyInv, Socket
<1>. DEFINE n == c + Len(u)
            l == Len(u)
            v == Append(u, e)
<1>4. n \in Nat /\ e = n + 1 /\ e \in Nat
  <2>. HIDE DEF u, c
  <2>. QED  BY <1>3
<1>. HIDE DEF j, c, x
<1>5. v \in Seq(Nat) /\ Len(v) = l + 1 /\ v = u \o <<e>>
  <2>. HIDE DEF u, e
  <2>. QED  BY <1>3, <1>4, AppendProperties, AppendIsConcat
<1>6. c + Len(v) = e
  <2>. HIDE DEF v
  <2>. QED  BY <1>3, <1>5
<1>7. Passed(x, c + Len(v), v)
  <2>1. Len(v) <= e
    <3>. HIDE DEF e, v, c
    <3>1. c + Len(v) = e /\ c \in Nat /\ Len(v) \in Nat
      BY <1>3, <1>5, <1>6
    <3>. QED  BY <3>1
  <2>2. ASSUME x.fd.open  PROVE  Given(x) \o v = Units(e)
    <3>. DEFINE g == Given(x)
    <3>1. g \in Seq(Nat)
      BY <1>3, ProxyFields, ConcatProperties DEF Given
    <3>2. g \o u = Units(n)
      BY <1>2, <2>2 DEF Passed
    <3>. HIDE DEF g, u, v, n, e
    <3>3. <<e>> \in Seq(Nat)
      BY <1>4
    <3>4. g \o v = (g \o u) \o <<e>>
      BY <1>3, <1>5, <3>1, <3>3, Associative
    <3>. QED  BY <1>4, <3>2, <3>4, UnitsGrow DEF g
  <2>3. e - Len(v) = n - Len(u)
    <3>. HIDE DEF v, e, c, u
    <3>1. Len(v) = Len(u) + 1 /\ Len(u) \in Nat /\ e = n + 1 /\ n \in Nat
      BY <1>3, <1>4, <1>5
    <3>. HIDE DEF n
    <3>. QED  BY <3>1
  <2>. HIDE DEF v, e, n, u
  <2>4. Passed(x, e, v)
    BY <1>2, <2>1, <2>2, <2>3 DEF Passed, n
  <2>. QED  BY <1>6, <2>4
<1>. HIDE DEF e, v, u
<1>8. a \in Socket /\ a.open = j.open /\ a.mask = j.mask /\ a.sent = j.sent /\ a.dead = j.dead
      /\ a.edge = j.edge /\ a.room = j.room /\ a.connecting = j.connecting /\ a.unread = v
      /\ a.eof = j.eof
  BY <1>2, <1>5 DEF Socket, v
<1>. HIDE DEF a
<1>9. k \in Socket /\ SameSocket(a, k) /\ k.room = a.room /\ k.sent = a.sent /\ k.mask = a.mask
      /\ (a.edge => k.edge)
  BY <1>8, WakeFacts
<1>. HIDE DEF k
<1>10. NetworkChanges(j, k) /\ k.unread = v
  BY <1>1, <1>8, <1>9 DEF NetworkChanges, SameSocket
<1>. QED  BY <1>1, <1>7, <1>10, NetworkKeeps DEF j, c, x

-------------------------------------------------------------------------------
(* The theorems. *)

LEMMA ProxyInvInit == Init => ProxyInv
<1>. SUFFICES ASSUME Init  PROVE ProxyInv
  OBVIOUS
<1>1. px = [left |-> NoProxy, right |-> NoProxy, fault |-> "none"] /\ consumed = [s \in Sides |-> 0]
  BY DEF Init
<1>2. NoProxy \in Proxy
  <2>1. NoSocket \in Socket
    BY SocketAssumption DEF NoSocket, Socket, Events
  <2>2. 0 \in -MaxBudget .. MaxBudget
    BY ProxyAssumption
  <2>. QED  BY <2>1, <2>2 DEF NoProxy, Proxy
<1>3. px \in Pairs /\ \A s \in Sides : px[s] = NoProxy
  BY <1>1, <1>2 DEF Pairs, Sides
<1>4. /\ Fresh(NoProxy) /\ ~ NoProxy.peer /\ NoProxy.status = "disconnect"
      /\ \A s \in Sides : OwnSound(s, NoProxy)
  BY <1>2 DEF Fresh, NoProxy, NoSocket, OwnSound
<1>5. \A s \in Sides : Fresh(px[s]) /\ OwnSound(s, px[s]) /\ Linked(px, s)
  BY <1>3, <1>4 DEF Linked
<1>6. \A s \in Sides : Came[s] = 0
  <2>1. \A s \in Sides : Len(px[s].fd.unread) = 0
    BY <1>3 DEF NoProxy, NoSocket
  <2>. QED  BY <1>1, <2>1 DEF Came
<1>7. Good(px, Came, Sides)
  BY <1>3, <1>5, <1>6, FreshGood
<1>8. Quiet(px)
  BY <1>1, <1>4 DEF Quiet
<1>. QED  BY <1>1, <1>7, <1>8 DEF ProxyInv

LEMMA ProxyInvNext ==
  ASSUME ProxyInv, Next
  PROVE  ProxyInv' /\ ClosesKnowing
<1>1. CASE TpProxyLeft
  BY <1>1, TpProxyLeftStep
<1>2. CASE LeftOnEvent
  BY <1>2, LeftOnEventStep
<1>3. CASE RightOnEvent
  BY <1>3, RightOnEventStep
<1>4. ASSUME NEW s \in Sides, OnReadBudgetAlarm(s) \/ OnWriteBudgetAlarm(s) \/ Delete(s)
      PROVE  ProxyInv' /\ ClosesKnowing
  BY <1>4, OnReadBudgetAlarmStep, OnWriteBudgetAlarmStep, DeleteStep
<1>5. CASE Established
  BY <1>5, EstablishedStep
<1>6. ASSUME NEW s \in Sides,
             RemoteSends(s) \/ RemoteFinishes(s) \/ RemoteResets(s) \/ RemoteReceives(s)
      PROVE  ProxyInv' /\ ClosesKnowing
  BY <1>6, RemoteSendsStep, RemoteFinishesStep, RemoteResetsStep, RemoteReceivesStep
<1>. QED  BY <1>1, <1>2, <1>3, <1>4, <1>5, <1>6 DEF Next, Callback, Network

LEMMA ProxyInvStutters ==
  ASSUME ProxyInv, UNCHANGED vars
  PROVE  ProxyInv'
<1>1. px' = px /\ consumed' = consumed
  BY DEF vars
<1>. QED  BY <1>1 DEF ProxyInv, Came, Good, Quiet, Init

LEMMA ProxyInvIsSound == ProxyInv => ProxySound
<1>. SUFFICES ASSUME ProxyInv  PROVE ProxySound
  OBVIOUS
<1>1. px \in Pairs /\ px.left = px["left"] /\ px.right = px["right"]
  BY CameType
<1>2. \A s \in Sides : OwnSound(s, px[s]) /\ Linked(px, s) /\ Armed(px[s])
  BY DEF ProxyInv, Good
<1>3. TypeOK
  BY <1>1 DEF TypeOK, Pairs, ProxyInv
<1>4. PeersAlive
  BY <1>2 DEF PeersAlive, Linked, OwnSound, IsOpen
<1>5. WriteIsArmed
  BY <1>2 DEF WriteIsArmed, Armed, IsOpen
<1>. QED  BY <1>3, <1>4, <1>5 DEF ProxySound

LEMMA ProxyInvPreserves == ProxyInv => StreamPreserved
<1>. SUFFICES ASSUME ProxyInv, NEW s \in Sides
              PROVE  LET sent == px[s].fd.sent
                         read == Units(consumed[Other(s)])
                     IN  IF IsOpen(px, s) THEN sent \o px[s].buffer = read ELSE IsPrefix(sent, read)
  BY DEF StreamPreserved
<1>. DEFINE o == Other(s)
            u == px[o].fd.unread
            c == consumed[o]
            n == c + Len(u)
            x == px[s]
            g == Given(x)
<1>1. /\ x \in Proxy /\ px[o] \in Proxy /\ o \in Sides /\ Passed(x, Came[o], u)
  BY CameType, Others, GoodSide DEF ProxyInv
<1>2. Came[o] = n
  BY <1>1 DEF Came
<1>3. c \in Nat /\ u \in Seq(Nat) /\ g \in Seq(Nat) /\ Len(u) \in Nat /\ x.fd.sent \in Seq(Nat)
  BY <1>1, ProxyFields, ConcatProperties DEF Given, ProxyInv
<1>4. Passed(x, n, u)
  BY <1>1, <1>2
<1>. HIDE DEF x, u, c, o
<1>5. CASE x.fd.open
  <2>1. g \o u = Units(n)
    BY <1>4, <1>5 DEF Passed
  <2>2. n \in Nat
    BY <1>3
  <2>. HIDE DEF g, n
  <2>3. Len(g) + Len(u) = n /\ g = Units(Len(g))
    BY <1>3, <2>1, <2>2, UnitsCut
  <2>4. Len(g) = c
    <3>. DEFINE a == Len(g)
                b == Len(u)
    <3>1. a \in Nat /\ b \in Nat /\ a + b = n /\ n = c + b
      BY <1>3, <2>3 DEF n
    <3>. HIDE DEF a, b, n
    <3>2. a = c
      BY <1>3, <3>1
    <3>. QED  BY <3>2 DEF a
  <2>. QED  BY <1>5, <2>3, <2>4 DEF IsOpen, Given, g, x, c, o
<1>6. CASE ~ x.fd.open
  <2>. DEFINE l == Len(x.fd.sent)
  <2>1. x.fd.sent = Units(l) /\ l <= n - Len(u)
    BY <1>4, <1>6 DEF Passed
  <2>2. l \in Nat /\ l <= c
    <3>. DEFINE b == Len(u)
    <3>1. l \in Nat /\ b \in Nat /\ l <= n - b /\ n = c + b
      BY <1>3, <2>1
    <3>. HIDE DEF l, b, n
    <3>. QED  BY <1>3, <3>1
  <2>. HIDE DEF l
  <2>3. IsPrefix(Units(l), Units(c))
    BY <1>3, <2>2, UnitsPrefix
  <2>. QED  BY <1>6, <2>1, <2>3 DEF IsOpen, x, c, o
<1>. QED  BY <1>5, <1>6

LEMMA ClosesFlushed ==
  ASSUME ProxyInv, ProxyInv', ClosesKnowing, NEW s \in Sides,
         IsOpen(px, s), ~ IsOpen(px, s)', ~ px[s].fd.eof
  PROVE  px'[s].fd.sent = Units(consumed'[Other(s)])
<1>. DEFINE o == Other(s)
            u == px'[o].fd.unread
            c == consumed'[o]
            n == c + Len(u)
            x == px'[s]
            l == Len(x.fd.sent)
<1>1. o \in Sides
  BY Others
<1>2. Good(px', Came', Sides) /\ consumed' \in [Sides -> Nat]
  BY DEF ProxyInv, Good
<1>3. x \in Proxy /\ px'[o] \in Proxy /\ Passed(x, Came'[o], u)
  BY <1>1, <1>2, GoodSide
<1>4. Came'[o] = n
  BY <1>1 DEF Came
<1>5. ~ x.fd.open /\ ~ x.fd.eof
  BY DEF ClosesKnowing, IsOpen
<1>6. Passed(x, n, u)
  BY <1>3, <1>4
<1>7. c \in Nat /\ Len(u) \in Nat
  BY <1>1, <1>2, <1>3, ProxyFields
<1>. HIDE DEF x, u, c
<1>8. x.fd.sent = Units(l) /\ l = n - Len(u)
  BY <1>5, <1>6 DEF Passed
<1>9. l = c
  <2>. DEFINE b == Len(u)
  <2>1. l = n - b /\ n = c + b /\ b \in Nat
    BY <1>7, <1>8
  <2>. HIDE DEF b, l, n
  <2>. QED  BY <1>7, <2>1
<1>. QED  BY <1>8, <1>9 DEF x, c, o

LEMMA ProxyInvAlways == Spec => []ProxyInv
<1>1. ProxyInv /\ [Next]_vars => ProxyInv'
  BY ProxyInvNext, ProxyInvStutters
<1>. QED  BY <1>1, ProxyInvInit, PTL DEF Spec

\* Both objects of a connection are well formed, their peers point to each other or to
\* nothing that is going to be deleted, a socket is registered exactly while its object
\* lives, and data that wait in a buffer are armed: a report of the edge-triggered epoll
\* is due or the socket is full, whatever the chunks, budgets and amounts of data.
THEOREM ProxyAlwaysSound == Spec => []ProxySound
BY ProxyInvAlways, ProxyInvIsSound, PTL

\* What was handed to a socket and what waits in its buffer are, in order and exactly
\* once, what was read from the other side; a closed socket was handed a prefix of it.
THEOREM StreamAlwaysPreserved == Spec => []StreamPreserved
BY ProxyInvAlways, ProxyInvPreserves, PTL

\* A proxy whose remote host has not finished closes only when it has sent everything
\* that its peer read.
THEOREM AlwaysClosesAfterFlush == Spec => ClosesAfterFlush
<1>. DEFINE Flushed == \A s \in Sides :
              (IsOpen(px, s) /\ ~ IsOpen(px, s)' /\ ~ px[s].fd.eof)
                => px'[s].fd.sent = Units(consumed'[Other(s)])
<1>1. ProxyInv /\ [Next]_vars => [Flushed]_vars
  <2>1. ASSUME ProxyInv, Next  PROVE Flushed
    <3>1. ProxyInv' /\ ClosesKnowing
      BY <2>1, ProxyInvNext
    <3>. QED  BY <2>1, <3>1, ClosesFlushed
  <2>. QED  BY <2>1
<1>. QED  BY <1>1, ProxyInvAlways, PTL DEF Spec, ClosesAfterFlush
=============================================================================
