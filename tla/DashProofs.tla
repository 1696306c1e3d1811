----------------------------- MODULE DashProofs -----------------------------
(***************************************************************************)
(* The player, its buffer and its alarm agree, and the bytes of the one    *)
(* segment that is under way add up: for any number and sizes of segments, *)
(* any length of the buffer, and any room between client and server.       *)
(***************************************************************************)
EXTENDS Dash, SequenceTheorems, TLAPS

-------------------------------------------------------------------------------
(* Numbers and sequences. *)

LEMMA MinOfTwo ==
  ASSUME NEW a \in Int, NEW b \in Int
  PROVE  Min({a, b}) = IF a <= b THEN a ELSE b
<1>. DEFINE m == IF a <= b THEN a ELSE b
<1>1. m \in {a, b} /\ \A y \in {a, b} : m <= y
  OBVIOUS
<1>2. ASSUME NEW x \in {a, b}, \A y \in {a, b} : x <= y
      PROVE  x = m
  BY <1>2
<1>. QED  BY <1>1, <1>2 DEF Min

\* The first n units of what is sent.
LEMMA FirstPart ==
  ASSUME NEW T, NEW u \in Seq(T), NEW n \in 0 .. Len(u)
  PROVE  SubSeq(u, 1, n) \in Seq(T) /\ Len(SubSeq(u, 1, n)) = n
<1>1. \A i \in 1 .. n : u[i] \in T
  OBVIOUS
<1>2. /\ SubSeq(u, 1, n) \in Seq(T)
      /\ Len(SubSeq(u, 1, n)) = IF 1 <= n THEN n - 1 + 1 ELSE 0
  BY <1>1, SubSeqProperties
<1>. QED  BY <1>2

\* What is left when everything was read.
LEMMA NothingLeft ==
  ASSUME NEW T, NEW u \in Seq(T)
  PROVE  SubSeq(u, Len(u) + 1, Len(u)) = <<>>
BY SubSeqEmpty

-------------------------------------------------------------------------------
(* Links. *)

Link == [Ends -> End]

LEMMA LinkFields ==
  ASSUME NEW l \in Link, NEW e \in Ends
  PROVE  /\ l[e] \in End /\ l[e].in \in Seq(Int) /\ Len(l[e].in) \in Nat
         /\ l[e].eof \in BOOLEAN /\ l[e].reset \in BOOLEAN /\ l[e].error \in BOOLEAN
         /\ Peer(e) \in Ends /\ Peer(e) # e /\ Peer("near") = "far" /\ Peer("far") = "near"
         /\ "near" \in Ends /\ "far" \in Ends
<1>1. l[e] \in End
  BY DEF Link
<1>2. l[e].in \in Seq(Int) /\ l[e].eof \in BOOLEAN /\ l[e].reset \in BOOLEAN /\ l[e].error \in BOOLEAN
  BY <1>1 DEF End
<1>. QED  BY <1>1, <1>2 DEF Peer, Ends

\* What does not change when only the errors or the data of an end do.
SameEnd(j, k) == k.state = j.state /\ k.eof = j.eof /\ k.reset = j.reset

ClosedEnd == [NoEnd EXCEPT !.state = "closed"]

LEMMA ClosedEndFacts ==
  /\ ClosedEnd \in End /\ ClosedEnd.state = "closed" /\ ClosedEnd.in = <<>>
  /\ NoEnd \in End /\ NoEnd.state = "none" /\ NoEnd.in = <<>> /\ ~ NoEnd.eof /\ ~ NoEnd.reset
BY EmptySeq DEF ClosedEnd, NoEnd, End

LEMMA ResetEndFacts ==
  ASSUME NEW j \in End
  PROVE  LET k == ResetEnd(j)
         IN  k \in End /\ k.state = j.state /\ k.in = j.in /\ k.eof /\ k.reset
BY DEF ResetEnd, End

\* An end of a link changes.
Put(l, e, k) == [l EXCEPT ![e] = k]

LEMMA PutFacts ==
  ASSUME NEW l \in Link, NEW e \in Ends, NEW k \in End
  PROVE  Put(l, e, k) \in Link /\ Put(l, e, k)[e] = k /\ Put(l, e, k)[Peer(e)] = l[Peer(e)]
<1>1. Peer(e) \in Ends /\ Peer(e) # e
  BY LinkFields
<1>. QED  BY <1>1 DEF Link, Put

LEMMA ConsumeFacts ==
  ASSUME NEW l \in Link, NEW e \in Ends
  PROVE  LET k == Consume(l, e, Len(l[e].in))
         IN  /\ k \in Link /\ k[Peer(e)] = l[Peer(e)]
             /\ SameEnd(l[e], k[e]) /\ k[e].in = <<>>
<1>. DEFINE j == l[e]
            a == [j EXCEPT !.in = <<>>]
            k == Consume(l, e, Len(l[e].in))
<1>1. j \in End /\ SubSeq(j.in, Len(j.in) + 1, Len(j.in)) = <<>>
  BY LinkFields, NothingLeft
<1>2. k = Put(l, e, a)
  BY <1>1 DEF Consume, Put
<1>3. a \in End /\ SameEnd(j, a) /\ a.in = <<>>
  BY <1>1, EmptySeq DEF End, SameEnd
<1>. HIDE DEF a, k
<1>. QED  BY <1>2, <1>3, PutFacts DEF k

LEMMA ErrorReadFacts ==
  ASSUME NEW l \in Link, NEW e \in Ends
  PROVE  LET k == ErrorRead(l, e)
         IN  /\ k \in Link /\ k[Peer(e)] = l[Peer(e)]
             /\ SameEnd(l[e], k[e]) /\ k[e].in = l[e].in
<1>. DEFINE j == l[e]
            a == [j EXCEPT !.error = FALSE]
            k == ErrorRead(l, e)
<1>1. j \in End
  BY LinkFields
<1>2. k = Put(l, e, a)
  BY DEF ErrorRead, Put
<1>3. a \in End /\ SameEnd(j, a) /\ a.in = j.in
  BY <1>1 DEF End, SameEnd
<1>. HIDE DEF a, k
<1>. QED  BY <1>2, <1>3, PutFacts DEF k

LEMMA CloseFacts ==
  ASSUME NEW l \in Link, NEW e \in Ends, HasFd(l, e)
  PROVE  LET k == Close(l, e)
             p == Peer(e)
         IN  /\ k \in Link /\ k[e] = ClosedEnd
             /\ k[p].state = l[p].state /\ k[p].in = l[p].in
             /\ l[p].state \notin {"open", "queued"} => k[p] = l[p]
<1>. DEFINE p == Peer(e)
            m == Put(l, e, ClosedEnd)
            k == Close(l, e)
<1>1. l[p] \in End /\ p \in Ends /\ p # e
  BY LinkFields
<1>2. m \in Link /\ m[e] = ClosedEnd /\ m[p] = l[p]
  BY ClosedEndFacts, PutFacts
<1>3. k = IF l[p].state \notin {"open", "queued"} THEN m
          ELSE IF l[e].in # <<>> THEN [m EXCEPT ![p] = ResetEnd(@)]
          ELSE [m EXCEPT ![p].eof = TRUE]
  BY DEF Close, ClosedEnd, Put
<1>4. Peer(p) = e
  BY DEF Peer, Ends
<1>. HIDE DEF m, k
<1>5. CASE l[p].state \notin {"open", "queued"}
  BY <1>2, <1>3, <1>5 DEF k
<1>6. CASE l[p].state \in {"open", "queued"} /\ l[e].in # <<>>
  <2>. DEFINE a == ResetEnd(l[p])
  <2>1. k = Put(m, p, a)
    BY <1>2, <1>3, <1>6 DEF Put
  <2>2. a \in End /\ a.state = l[p].state /\ a.in = l[p].in
    BY <1>1, ResetEndFacts
  <2>. HIDE DEF a
  <2>3. k \in Link /\ k[p] = a /\ k[e] = m[e]
    BY <1>1, <1>2, <1>4, <2>1, <2>2, PutFacts
  <2>. QED  BY <1>2, <1>6, <2>2, <2>3 DEF k
<1>7. CASE l[p].state \in {"open", "queued"} /\ l[e].in = <<>>
  <2>. DEFINE j == l[p]
              a == [j EXCEPT !.eof = TRUE]
  <2>1. k = Put(m, p, a)
    BY <1>2, <1>3, <1>7 DEF Put
  <2>2. a \in End /\ a.state = l[p].state /\ a.in = l[p].in
    BY <1>1 DEF End
  <2>. HIDE DEF a
  <2>3. k \in Link /\ k[p] = a /\ k[e] = m[e]
    BY <1>1, <1>2, <1>4, <2>1, <2>2, PutFacts
  <2>. QED  BY <1>2, <1>7, <2>2, <2>3 DEF k
<1>. QED  BY <1>5, <1>6, <1>7

\* There is room wherever nothing waits to be read.
Roomy(l) == \A e \in Ends : Len(l[e].in) <= Room

LEMMA TakenFacts ==
  ASSUME NEW l \in Link, Roomy(l), NEW e \in Ends, NEW n \in Nat
  PROVE  /\ Taken(l, e, n) \in 0 .. n
         /\ Len(l[Peer(e)].in) + Taken(l, e, n) <= Room
         /\ l[e].state # "open" \/ l[e].reset => Taken(l, e, n) = 0
         /\ l[e].state = "open" /\ ~ l[e].reset /\ l[Peer(e)].in = <<>> /\ n = 1 => Taken(l, e, n) = 1
<1>. DEFINE u == Len(l[Peer(e)].in)
            t == Taken(l, e, n)
<1>1. u \in Nat /\ u <= Room /\ Room \in Nat \ {0}
  BY LinkFields, RoomAssumption DEF Roomy
<1>2. Min({n, Room - u}) = IF n <= Room - u THEN n ELSE Room - u
  BY <1>1, MinOfTwo
<1>3. t = IF l[e].state # "open" \/ l[e].reset THEN 0 ELSE IF n <= Room - u THEN n ELSE Room - u
  BY <1>2 DEF Taken, RoomFor
<1>4. l[Peer(e)].in = <<>> => u = 0
  OBVIOUS
<1>. HIDE DEF u, t
<1>5. t \in 0 .. n /\ u + t <= Room
  BY <1>1, <1>3
<1>6. l[e].state # "open" \/ l[e].reset => t = 0
  BY <1>3
<1>7. l[e].state = "open" /\ ~ l[e].reset /\ l[Peer(e)].in = <<>> /\ n = 1 => t = 1
  BY <1>1, <1>3, <1>4
<1>. QED  BY <1>5, <1>6, <1>7 DEF u, t

LEMMA SendFacts ==
  ASSUME NEW l \in Link, Roomy(l), NEW e \in Ends, NEW data \in Seq(Int)
  PROVE  LET k == Send(l, e, data)
             n == Taken(l, e, Len(data))
             p == Peer(e)
         IN  /\ k \in Link /\ k[e].state = l[e].state /\ k[e].in = l[e].in
             /\ SameEnd(l[p], k[p])
             /\ n = 0 \/ l[p].state # "closed" => SameEnd(l[e], k[e])
             /\ n > 0 /\ l[p].state = "closed" => k[e].reset
             /\ n = 0 \/ l[p].state = "closed" => k[p] = l[p]
             /\ n > 0 /\ l[p].state # "closed" => k[p].in = l[p].in \o SubSeq(data, 1, n)
<1>. DEFINE p == Peer(e)
            n == Taken(l, e, Len(data))
            k == Send(l, e, data)
<1>1. /\ l[p] \in End /\ p \in Ends /\ p # e /\ l[e] \in End /\ Peer(p) = e
      /\ n \in 0 .. Len(data) /\ Len(data) \in Nat /\ l[p].in \in Seq(Int)
  <2>1. l[p] \in End /\ p \in Ends /\ p # e /\ l[e] \in End /\ l[p].in \in Seq(Int)
    BY LinkFields
  <2>2. Len(data) \in Nat
    OBVIOUS
  <2>3. n \in 0 .. Len(data)
    BY <2>2, TakenFacts
  <2>4. Peer(p) = e
    BY DEF Peer, Ends
  <2>. QED  BY <2>1, <2>2, <2>3, <2>4
<1>2. k = IF n = 0 THEN [l EXCEPT ![e].error = FALSE]
          ELSE IF l[p].state = "closed" THEN [l EXCEPT ![e] = ResetEnd(@)]
          ELSE [l EXCEPT ![p].in = @ \o SubSeq(data, 1, n)]
  BY DEF Send
<1>3. SubSeq(data, 1, n) \in Seq(Int)
  BY <1>1, FirstPart
<1>. HIDE DEF n
<1>4. n \in Nat
  BY <1>1
<1>. HIDE DEF k
<1>5. CASE n = 0
  <2>. DEFINE j == l[e]
              a == [j EXCEPT !.error = FALSE]
  <2>1. k = Put(l, e, a)
    BY <1>2, <1>5 DEF Put
  <2>2. a \in End /\ SameEnd(l[e], a) /\ a.in = l[e].in
    BY <1>1 DEF End, SameEnd
  <2>. HIDE DEF a
  <2>3. k \in Link /\ k[e] = a /\ k[p] = l[p]
    BY <1>1, <2>1, <2>2, PutFacts
  <2>. QED  BY <1>5, <2>2, <2>3 DEF SameEnd, k, n
<1>6. CASE n # 0 /\ l[p].state = "closed"
  <2>. DEFINE a == ResetEnd(l[e])
  <2>1. k = Put(l, e, a)
    BY <1>2, <1>6 DEF Put
  <2>2. a \in End /\ a.state = l[e].state /\ a.in = l[e].in /\ a.reset
    BY <1>1, ResetEndFacts
  <2>. HIDE DEF a
  <2>3. k \in Link /\ k[e] = a /\ k[p] = l[p]
    BY <1>1, <2>1, <2>2, PutFacts
  <2>. QED  BY <1>6, <2>2, <2>3 DEF SameEnd, k, n
<1>7. CASE n # 0 /\ l[p].state # "closed"
  <2>. DEFINE j == l[p]
              u == j.in \o SubSeq(data, 1, n)
              a == [j EXCEPT !.in = u]
  <2>1. k = Put(l, p, a)
    BY <1>2, <1>7 DEF Put
  <2>2. u \in Seq(Int)
    BY <1>1, <1>3, ConcatProperties
  <2>3. a \in End /\ SameEnd(l[p], a) /\ a.in = u
    BY <1>1, <2>2 DEF End, SameEnd
  <2>. HIDE DEF a
  <2>4. k \in Link /\ k[p] = a /\ k[e] = l[e]
    <3>1. Put(l, p, a) \in Link /\ Put(l, p, a)[p] = a /\ Put(l, p, a)[Peer(p)] = l[Peer(p)]
      BY <1>1, <2>3, PutFacts
    <3>. QED  BY <1>1, <2>1, <3>1
  <2>. QED  BY <1>7, <2>3, <2>4 DEF SameEnd, k, n
<1>. QED  BY <1>4, <1>5, <1>6, <1>7

-------------------------------------------------------------------------------
(* The invariant, over a link l, a client p, a server y and the faults f. *)

Broken(end) == end.eof \/ end.reset

\* The client connects, the server accepts.
Linked(l) ==
  /\ l \in Link /\ Roomy(l)
  /\ l["near"].state \in {"none", "connecting", "open", "closed"}
  /\ l["far"].state \in {"none", "queued", "open", "closed"}
  /\ l["near"].state \in {"none", "connecting"} => l["far"] = NoEnd

\* The connection of a client that keeps its socket breaks by a fault only.
Blamed(l, host, f) ==
  /\ f \subseteq {"refused", "broken", "client", "server"}
  /\ HasFd(l, "near") /\ Broken(l["near"]) => f # {}
  /\ HasFd(l, "near") /\ (l["far"].state = "closed" \/ Broken(l["far"])) => f # {}
  /\ ~ host.running => f # {}

\* There is one request at most, and it is answered in part.
Queued(l, y) ==
  /\ y \in Server /\ l["far"].in \in Seq(Sizes)
  /\ Len(l["far"].in) + Len(y.queue) <= 1
  /\ y.queue = <<>> => y.sent = 0
  /\ y.queue # <<>> => y.sent < Head(y.queue)

Playing(p, f) ==
  /\ p \in Client
  /\ p.count = p.inBuffer + p.played
  /\ p.player \in {"not_started", "init_buffering"} =>
       p.played = 0 /\ p.inBuffer < InitSegments /\ "player" \notin p.alarms
  /\ p.player = "play" => p.inBuffer > 0 /\ "player" \in p.alarms
  /\ p.player = "paused" => p.inBuffer = 0 /\ p.count < Segments
  /\ p.player = "done" => p.played = Segments \/ f # {}
  /\ p.due \subseteq p.alarms

\* A hangup that epoll reported was one; without a hangup the socket is connected.
Noticed(l, p, f) ==
  /\ p.report \cap {"RDHUP", "HUP"} # {} => f # {}
  /\ "OUT" \in p.report /\ "HUP" \notin p.report /\ HasFd(l, "near") => l["near"].state = "open"

Kept(l, p, y, f) ==
  Linked(l) /\ Blamed(l, y.host, f) /\ Queued(l, y) /\ Playing(p, f) /\ Noticed(l, p, f)

\* What the server owes the client, and what the client has asked for on top of it.
Owed(y) == IF y.queue = <<>> THEN 0 ELSE Head(y.queue) - y.sent
Wanted(l) == IF l["far"].in = <<>> THEN 0 ELSE Head(l["far"].in)

Idle(l, y) == l["near"].in = <<>> /\ l["far"].in = <<>> /\ y.queue = <<>>
Sound(l) == \A e \in Ends : l[e].state \in {"open", "queued"} /\ ~ l[e].reset

Accounted(l, p, y) ==
  LET bytes == p.read + Len(l["near"].in) + Wanted(l) + Owed(y)
  IN  /\ p.index = p.count + 1 /\ p.size \in Sizes /\ bytes <= p.size
      /\ Sound(l) => bytes = p.size

\* A request is delayed, or the bytes of the segment are under way; they may be lost
\* with the connection.
Asking(l, p, y) ==
  /\ "request" \in p.alarms =>
       p.index = p.count /\ p.count < Segments /\ p.read = 0 /\ p.size \in Sizes /\ Idle(l, y)
  /\ "request" \notin p.alarms => Accounted(l, p, y)

Fresh(p) ==
  p.player = "not_started" /\ p.alarms = {} /\ p.index = 0 /\ p.count = 0 /\ p.read = 0

Session(l, p, y) ==
  /\ p.status = "connecting" => HasFd(l, "near") /\ Idle(l, y) /\ Fresh(p)
  /\ p.status = "connected" =>
       l["near"].state = "open" /\ p.player # "not_started" /\ Asking(l, p, y)
  /\ p.status = "disconnected" => ~ HasFd(l, "near")

Good(l, p, y, f) == Kept(l, p, y, f) /\ Session(l, p, y)

DashInv == Good(link, c, s, faults)

-------------------------------------------------------------------------------
(* The client. *)

ClientStates == [link : Link, c : Client]

LEMMA SizesAreNatural == Sizes \subseteq Nat \ {0} /\ Segments \in Nat \ {0} /\ Seq(Sizes) \subseteq Seq(Int)
<1>1. Sizes \subseteq Nat \ {0} /\ Segments \in Nat \ {0}
  BY DashAssumption
<1>2. ASSUME NEW u \in Seq(Sizes)  PROVE u \in Seq(Int)
  <2>1. \A i \in 1 .. Len(u) : u[i] \in Sizes
    BY ElementOfSeq
  <2>2. \A size \in Sizes : size \in Int
    BY <1>1
  <2>3. \A i \in 1 .. Len(u) : u[i] \in Int
    BY <2>1, <2>2
  <2>. QED  BY <2>3, SeqMonotonic
<1>. QED  BY <1>1, <1>2

LEMMA ClientFields ==
  ASSUME NEW p \in Client
  PROVE  /\ p.index \in Nat /\ p.index <= Segments /\ p.count \in Nat /\ p.count <= Segments
         /\ p.read \in Nat /\ p.inBuffer \in Nat /\ p.inBuffer <= Segments
         /\ p.played \in Nat /\ p.played <= Segments /\ p.alarms \subseteq Alarms
         /\ p.frames \in 0 .. Frames - 1 /\ p.size \in Sizes \cup {0}
         /\ p.status \in {"connecting", "connected", "disconnected"}
BY SizesAreNatural DEF Client

LEMMA CloseClientGood ==
  ASSUME NEW x \in ClientStates, NEW y, NEW f, Kept(x.link, x.c, y, f),
         HasFd(x.link, "near") \/ x.c.status = "disconnected"
  PROVE  LET r == CloseClient(x)
         IN  /\ r \in ClientStates /\ Good(r.link, r.c, y, f)
             /\ r.c.status = "disconnected" /\ r.c.index = x.c.index /\ r.c.report = x.c.report
<1>. DEFINE r == CloseClient(x)
<1>1. x.link \in Link /\ x.c \in Client
  BY DEF ClientStates
<1>2. CASE ~ HasFd(x.link, "near")
  <2>1. r = x
    BY <1>2 DEF CloseClient
  <2>. HIDE DEF r
  <2>. QED  BY <1>2, <2>1 DEF Good, Session, r
<1>3. CASE HasFd(x.link, "near")
  <2>. DEFINE k == Close(x.link, "near")
              d == x.c
              q == [d EXCEPT !.status = "disconnected"]
  <2>1. r = [x EXCEPT !.link = k, !.c = q]
    BY <1>3 DEF CloseClient
  <2>2. /\ k \in Link /\ k["near"] = ClosedEnd
        /\ k["far"].state = x.link["far"].state /\ k["far"].in = x.link["far"].in
    BY <1>1, <1>3, CloseFacts, LinkFields DEF Peer, Ends
  <2>3. /\ q \in Client /\ q.status = "disconnected" /\ q.index = x.c.index
        /\ q.count = x.c.count /\ q.inBuffer = x.c.inBuffer /\ q.played = x.c.played
        /\ q.player = x.c.player /\ q.alarms = x.c.alarms /\ q.due = x.c.due
        /\ q.report = x.c.report
    BY <1>1 DEF Client
  <2>. HIDE DEF k, q
  <2>4. r.link = k /\ r.c = q /\ r \in ClientStates
    BY <1>1, <2>1, <2>2, <2>3 DEF ClientStates
  <2>. HIDE DEF r
  <2>5. ~ HasFd(k, "near")
    BY <2>2, ClosedEndFacts DEF HasFd
  <2>6. Linked(k)
    <3>1. Roomy(k)
      BY <2>2, ClosedEndFacts, RoomAssumption DEF Roomy, Ends, Kept, Linked
    <3>. QED  BY <2>2, <3>1, ClosedEndFacts DEF Linked, Kept
  <2>7. Blamed(k, y.host, f) /\ Queued(k, y) /\ Noticed(k, q, f)
    BY <2>2, <2>3, <2>5 DEF Kept, Blamed, Queued, Noticed
  <2>8. Playing(q, f)
    BY <2>3 DEF Kept, Playing
  <2>9. Session(k, q, y)
    BY <2>3, <2>5 DEF Session
  <2>. QED  BY <2>3, <2>4, <2>6, <2>7, <2>8, <2>9 DEF Good, Kept, r
<1>. QED  BY <1>2, <1>3

LEMMA ClientEndsGood ==
  ASSUME NEW x \in ClientStates, NEW y, NEW f, Kept(x.link, x.c, y, f),
         HasFd(x.link, "near") \/ x.c.status = "disconnected",
         NEW how \in {"ended", "killed", "aborted"}
  PROVE  LET r == ClientEnds(x, how)
         IN  /\ r \in ClientStates /\ Good(r.link, r.c, y, f)
             /\ r.c.status = "disconnected" /\ r.c.index = x.c.index /\ r.c.report = x.c.report
<1>. DEFINE z == CloseClient(x)
            d == z.c
            q == [d EXCEPT !.pc = how]
            r == ClientEnds(x, how)
<1>1. /\ z \in ClientStates /\ Good(z.link, z.c, y, f) /\ z.c.status = "disconnected"
      /\ z.c.index = x.c.index /\ z.c.report = x.c.report
  BY CloseClientGood
<1>2. r = [z EXCEPT !.c = q]
  BY DEF ClientEnds
<1>. HIDE DEF z, r
<1>3. d \in Client
  BY <1>1 DEF ClientStates
<1>4. /\ q \in Client /\ q.status = d.status /\ q.index = d.index
      /\ q.count = d.count /\ q.inBuffer = d.inBuffer /\ q.played = d.played
      /\ q.player = d.player /\ q.alarms = d.alarms /\ q.due = d.due
      /\ q.report = d.report
  BY <1>3 DEF Client
<1>. HIDE DEF q
<1>5. r \in ClientStates /\ r.link = z.link /\ r.c = q
  BY <1>1, <1>2, <1>4 DEF ClientStates
<1>6. Playing(q, f) /\ Session(z.link, q, y) /\ Noticed(z.link, q, f)
  BY <1>1, <1>4 DEF Good, Kept, Playing, Session, Noticed
<1>. QED  BY <1>1, <1>4, <1>5, <1>6 DEF Good, Kept, r

\* A client that has nothing under way and may ask.
Unasked(l, p, y) ==
  /\ p.status = "connected" /\ l["near"].state = "open" /\ p.player # "not_started"
  /\ "request" \notin p.alarms /\ p.index = p.count /\ p.count < Segments
  /\ Idle(l, y)

\* The request reaches the server, or the connection is broken.
LEMMA RequestSent ==
  ASSUME NEW l, NEW p, NEW y, NEW f, Kept(l, p, y, f), Unasked(l, p, y),
         p.read = 0, p.size \in Sizes
  PROVE  LET k == Send(l, "near", <<p.size>>)
             q == [p EXCEPT !.index = @ + 1]
         IN  k \in Link /\ q \in Client /\ Good(k, q, y, f)
<1>. DEFINE data == <<p.size>>
            k == Send(l, "near", data)
            q == [p EXCEPT !.index = @ + 1]
            n == Taken(l, "near", Len(data))
<1>1. /\ l \in Link /\ Roomy(l) /\ p \in Client /\ data \in Seq(Int) /\ data \in Seq(Sizes) /\ Len(data) = 1
      /\ Peer("near") = "far" /\ "near" \in Ends /\ "far" \in Ends
  <2>1. l \in Link /\ Roomy(l) /\ p \in Client
    BY DEF Kept, Linked, Playing
  <2>2. data \in Seq(Sizes) /\ Len(data) = 1
    OBVIOUS
  <2>. HIDE DEF data
  <2>3. data \in Seq(Int)
    BY <2>2, SizesAreNatural
  <2>. QED  BY <2>1, <2>2, <2>3 DEF Peer, Ends
<1>2. /\ k \in Link /\ k["near"].state = l["near"].state /\ k["near"].in = l["near"].in
      /\ SameEnd(l["far"], k["far"])
      /\ n = 0 \/ l["far"].state # "closed" => SameEnd(l["near"], k["near"])
      /\ n > 0 /\ l["far"].state = "closed" => k["near"].reset
      /\ n = 0 \/ l["far"].state = "closed" => k["far"] = l["far"]
      /\ n > 0 /\ l["far"].state # "closed" => k["far"].in = l["far"].in \o SubSeq(data, 1, n)
  <2>. DEFINE e == "near"
  <2>. HIDE DEF data, e
  <2>1. /\ k \in Link /\ k[e].state = l[e].state /\ k[e].in = l[e].in
        /\ SameEnd(l[Peer(e)], k[Peer(e)])
        /\ n = 0 \/ l[Peer(e)].state # "closed" => SameEnd(l[e], k[e])
        /\ n > 0 /\ l[Peer(e)].state = "closed" => k[e].reset
        /\ n = 0 \/ l[Peer(e)].state = "closed" => k[Peer(e)] = l[Peer(e)]
        /\ n > 0 /\ l[Peer(e)].state # "closed" => k[Peer(e)].in = l[Peer(e)].in \o SubSeq(data, 1, n)
    BY <1>1, SendFacts DEF e
  <2>2. Peer(e) = "far" /\ e = "near"
    BY <1>1 DEF e
  <2>. HIDE DEF k, n
  <2>. QED  BY <2>1, <2>2
<1>3. /\ n \in 0 .. 1
      /\ l["near"].reset => n = 0
      /\ ~ l["near"].reset => n = 1
  <2>. DEFINE m == Len(data)
  <2>1. m = 1 /\ m \in Nat /\ l["near"].state = "open" /\ l["far"].in = <<>>
    BY <1>1 DEF Unasked, Idle
  <2>. HIDE DEF data, m
  <2>2. /\ Taken(l, "near", m) \in 0 .. m
        /\ l["near"].reset => Taken(l, "near", m) = 0
        /\ ~ l["near"].reset => Taken(l, "near", m) = 1
    BY <1>1, <2>1, TakenFacts
  <2>. QED  BY <2>1, <2>2 DEF m
<1>4. SubSeq(data, 1, 1) = data
  <2>. HIDE DEF data
  <2>. QED  BY <1>1, SubSeqFull
<1>5. /\ q \in Client /\ q.index = p.index + 1 /\ q.count = p.count /\ q.read = 0 /\ q.size = p.size
      /\ q.inBuffer = p.inBuffer /\ q.played = p.played /\ q.player = p.player
      /\ q.alarms = p.alarms /\ q.due = p.due /\ q.report = p.report /\ q.status = p.status /\ q.pc = p.pc
  BY <1>1, SizesAreNatural DEF Client, Unasked
<1>. HIDE DEF q, k, n
<1>6. ASSUME n = 1, l["far"].state # "closed"
      PROVE  Good(k, q, y, f)
  <2>1. k["far"].in = data
    BY <1>1, <1>2, <1>4, <1>6 DEF Unasked, Idle
  <2>2. Linked(k)
    <3>1. Roomy(k)
      <4>1. Len(k["near"].in) <= Room /\ Len(k["far"].in) <= Room
        BY <1>1, <1>2, <2>1, RoomAssumption DEF Roomy
      <4>. QED  BY <4>1 DEF Roomy, Ends
    <3>. QED  BY <1>2, <3>1 DEF Kept, Linked, SameEnd, Unasked
  <2>3. Blamed(k, y.host, f)
    BY <1>2, <1>6 DEF Kept, Blamed, SameEnd, Broken, HasFd
  <2>4. Queued(k, y)
    <3>1. y.queue = <<>> /\ Len(y.queue) = 0
      BY DEF Unasked, Idle
    <3>. QED  BY <1>1, <2>1, <3>1 DEF Kept, Queued
  <2>5. Playing(q, f) /\ Noticed(k, q, f)
    BY <1>2, <1>5 DEF Kept, Playing, Noticed, HasFd
  <2>6. Accounted(k, q, y)
    <3>1. Len(k["near"].in) = 0 /\ Owed(y) = 0 /\ Wanted(k) = p.size
      BY <1>2, <2>1 DEF Unasked, Idle, Owed, Wanted
    <3>2. p.size \in Nat /\ p.index = p.count
      BY SizesAreNatural DEF Unasked
    <3>3. q.read + Len(k["near"].in) + Wanted(k) + Owed(y) = p.size
      BY <1>5, <3>1, <3>2
    <3>. QED  BY <1>5, <3>2, <3>3 DEF Accounted
  <2>. QED  BY <1>2, <1>5, <2>2, <2>3, <2>4, <2>5, <2>6 DEF Good, Kept, Session, Asking, Unasked
<1>7. ASSUME n = 0 \/ l["far"].state = "closed"
      PROVE  Good(k, q, y, f)
  <2>1. k["near"].reset /\ k["far"] = l["far"]
    <3>1. CASE n = 0
      BY <1>2, <1>3, <3>1 DEF SameEnd
    <3>2. CASE n = 1 /\ l["far"].state = "closed"
      BY <1>2, <3>2
    <3>. QED  BY <1>3, <1>7, <3>1, <3>2
  <2>2. Linked(k)
    <3>1. Roomy(k)
      BY <1>1, <1>2, <2>1 DEF Roomy, Ends
    <3>. QED  BY <1>2, <2>1, <3>1 DEF Kept, Linked
  <2>3. f # {}
    BY <1>1, <1>2, <1>3, <1>7 DEF Kept, Blamed, Broken, HasFd, Unasked
  <2>4. Blamed(k, y.host, f) /\ Queued(k, y)
    BY <2>1, <2>3 DEF Kept, Blamed, Queued
  <2>5. Playing(q, f) /\ Noticed(k, q, f)
    BY <1>2, <1>5 DEF Kept, Playing, Noticed, HasFd
  <2>6. Accounted(k, q, y)
    <3>1. Len(k["near"].in) = 0 /\ Owed(y) = 0 /\ Wanted(k) = 0
      BY <1>2, <2>1 DEF Unasked, Idle, Owed, Wanted
    <3>2. ~ Sound(k)
      BY <2>1 DEF Sound, Ends
    <3>3. p.size \in Nat /\ p.index = p.count
      BY SizesAreNatural DEF Unasked
    <3>4. q.read + Len(k["near"].in) + Wanted(k) + Owed(y) = 0
      BY <1>5, <3>1
    <3>. QED  BY <1>5, <3>2, <3>3, <3>4 DEF Accounted
  <2>. QED  BY <1>2, <1>5, <2>2, <2>4, <2>5, <2>6 DEF Good, Kept, Session, Asking, Unasked
<1>8. k \in Link /\ q \in Client /\ Good(k, q, y, f)
  BY <1>2, <1>3, <1>5, <1>6, <1>7
<1>. QED  BY <1>8 DEF k, q

LEMMA DelayRequestHandleGood ==
  ASSUME NEW x \in ClientStates, NEW y, NEW f, Kept(x.link, x.c, y, f),
         \/ Unasked(x.link, x.c, y) /\ x.c.read = 0 /\ x.c.size \in Sizes
         \/ x.c.status = "disconnected" /\ ~ HasFd(x.link, "near")
  PROVE  LET r == DelayRequestHandle(x)
         IN  r \in ClientStates /\ Good(r.link, r.c, y, f) /\ r.c.report = x.c.report
<1>. DEFINE r == DelayRequestHandle(x)
            l == x.link
            p == x.c
            k == Send(l, "near", <<p.size>>)
<1>1. l \in Link /\ p \in Client
  BY DEF ClientStates
<1>2. CASE p.index >= Segments
  <2>1. r = x
    BY <1>1, <1>2, SizesAreNatural, ClientFields DEF DelayRequestHandle
  <2>2. ~ Unasked(l, p, y)
    BY <1>1, <1>2, SizesAreNatural, ClientFields DEF Unasked
  <2>. HIDE DEF r
  <2>. QED  BY <2>1, <2>2 DEF Good, Session, r
<1>. DEFINE z == SendRequest(x)
            d == z.c
            q == [d EXCEPT !.index = @ + 1]
<1>3. ASSUME p.index < Segments, z \in ClientStates, Good(z.link, z.c, y, f),
             z.c.status = "disconnected", z.c.index = p.index, z.c.report = p.report
      PROVE  r \in ClientStates /\ Good(r.link, r.c, y, f) /\ r.c.report = p.report
  <2>1. r = [z EXCEPT !.c = q]
    BY <1>3 DEF DelayRequestHandle
  <2>. HIDE DEF z, r
  <2>2. d \in Client
    BY <1>3 DEF ClientStates
  <2>3. /\ q \in Client /\ q.status = d.status /\ q.pc = d.pc
        /\ q.count = d.count /\ q.inBuffer = d.inBuffer /\ q.played = d.played
        /\ q.player = d.player /\ q.alarms = d.alarms /\ q.due = d.due
        /\ q.report = d.report
    <3>1. d.index + 1 \in 0 .. Segments
      BY <1>1, <1>3, ClientFields, SizesAreNatural
    <3>. QED  BY <2>2, <3>1 DEF Client
  <2>. HIDE DEF q
  <2>4. r \in ClientStates /\ r.link = z.link /\ r.c = q
    BY <1>3, <2>1, <2>3 DEF ClientStates
  <2>5. Playing(q, f) /\ Session(z.link, q, y) /\ Noticed(z.link, q, f)
    BY <1>3, <2>3 DEF Good, Kept, Playing, Session, Noticed
  <2>. QED  BY <1>3, <2>3, <2>4, <2>5 DEF Good, Kept, r
<1>4. CASE p.index < Segments /\ ~ HasFd(l, "near")
  <2>1. z = x /\ x.c.status = "disconnected"
    BY <1>4 DEF SendRequest, Unasked, HasFd
  <2>2. Good(x.link, x.c, y, f)
    BY <1>4, <2>1 DEF Good, Session
  <2>. HIDE DEF z, r
  <2>. QED  BY <1>3, <1>4, <2>1, <2>2 DEF r
<1>5. CASE p.index < Segments /\ HasFd(l, "near") /\ RaisesSigpipe(l, "near")
  <2>1. z = ClientEnds(x, "killed")
    BY <1>5 DEF SendRequest
  <2>2. z \in ClientStates /\ Good(z.link, z.c, y, f) /\ z.c.status = "disconnected" /\ z.c.index = p.index
        /\ z.c.report = p.report
    BY <1>5, <2>1, ClientEndsGood
  <2>. HIDE DEF z, r
  <2>. QED  BY <1>3, <1>5, <2>2 DEF r
<1>6. CASE p.index < Segments /\ HasFd(l, "near") /\ ~ RaisesSigpipe(l, "near")
  <2>. DEFINE v == [p EXCEPT !.index = @ + 1]
  <2>1. z = [x EXCEPT !.link = k]
    BY <1>6 DEF SendRequest
  <2>2. k \in Link /\ v \in Client /\ Good(k, v, y, f) /\ v.report = p.report
    <3>1. k \in Link /\ v \in Client /\ Good(k, v, y, f)
      BY <1>6, RequestSent
    <3>2. v.report = p.report
      BY <1>1 DEF Client
    <3>. QED  BY <3>1, <3>2
  <2>. HIDE DEF k
  <2>3. z.link = k /\ z.c = p /\ z \in ClientStates
    BY <1>1, <2>1, <2>2 DEF ClientStates
  <2>4. r = [z EXCEPT !.c = v]
    <3>. HIDE DEF z
    <3>. QED  BY <1>6, <2>3 DEF DelayRequestHandle, z
  <2>. HIDE DEF z, r, v
  <2>5. r.link = k /\ r.c = v /\ r \in ClientStates
    BY <2>2, <2>3, <2>4 DEF ClientStates
  <2>. QED  BY <2>2, <2>5 DEF r
<1>7. p.index \in Nat /\ Segments \in Nat
  BY <1>1, ClientFields, SizesAreNatural
<1>. QED  BY <1>2, <1>4, <1>5, <1>6, <1>7

LEMMA RequestSegmentGood ==
  ASSUME NEW x \in ClientStates, NEW y, NEW f, Kept(x.link, x.c, y, f),
         Unasked(x.link, x.c, y), NEW r \in RequestSegment(x)
  PROVE  r \in ClientStates /\ Good(r.link, r.c, y, f) /\ r.c.report = x.c.report
<1>1. PICK size \in Sizes :
        r \in LET asked == [x EXCEPT !.c.read = 0, !.c.size = size]
              IN  {DelayRequestHandle(asked), [asked EXCEPT !.c.alarms = @ \cup {"request"}]}
  BY DEF RequestSegment
<1>. DEFINE p == x.c
            q == [p EXCEPT !.read = 0, !.size = size]
            asked == [x EXCEPT !.c = q]
            v == [q EXCEPT !.alarms = @ \cup {"request"}]
            w == [asked EXCEPT !.c = v]
<1>2. r \in {DelayRequestHandle(asked), w}
  BY <1>1 DEF ClientStates
<1>3. x.link \in Link /\ p \in Client /\ size \in Nat
  BY SizesAreNatural DEF ClientStates
<1>4. /\ q \in Client /\ q.status = p.status /\ q.pc = p.pc /\ q.read = 0 /\ q.size = size
      /\ q.index = p.index /\ q.count = p.count /\ q.inBuffer = p.inBuffer /\ q.played = p.played
      /\ q.player = p.player /\ q.alarms = p.alarms /\ q.due = p.due /\ q.report = p.report
  BY <1>3 DEF Client
<1>. HIDE DEF q
<1>5. asked \in ClientStates /\ asked.link = x.link /\ asked.c = q
  BY <1>3, <1>4 DEF ClientStates
<1>. HIDE DEF asked
<1>6. Playing(q, f) /\ Noticed(x.link, q, f) /\ Unasked(x.link, q, y)
  BY <1>4 DEF Kept, Playing, Noticed, Unasked
<1>7. Kept(asked.link, asked.c, y, f) /\ Unasked(asked.link, asked.c, y)
  BY <1>5, <1>6 DEF Kept
<1>8. CASE r = DelayRequestHandle(asked)
  <2>1. DelayRequestHandle(asked) \in ClientStates
        /\ Good(DelayRequestHandle(asked).link, DelayRequestHandle(asked).c, y, f)
        /\ DelayRequestHandle(asked).c.report = asked.c.report
    BY <1>4, <1>5, <1>7, DelayRequestHandleGood
  <2>. QED  BY <1>4, <1>5, <1>8, <2>1
<1>9. CASE r = w
  <2>1. /\ v \in Client /\ v.status = q.status /\ v.pc = q.pc /\ v.read = 0 /\ v.size = size
        /\ v.index = q.index /\ v.count = q.count /\ v.inBuffer = q.inBuffer /\ v.played = q.played
        /\ v.player = q.player /\ v.alarms = q.alarms \cup {"request"} /\ v.due = q.due
        /\ v.report = q.report
    BY <1>4 DEF Client, Alarms
  <2>. HIDE DEF v
  <2>2. w \in ClientStates /\ w.link = x.link /\ w.c = v
    BY <1>3, <1>5, <2>1 DEF ClientStates
  <2>. HIDE DEF w
  <2>3. Playing(v, f) /\ Noticed(x.link, v, f)
    BY <1>6, <2>1 DEF Playing, Noticed
  <2>4. Session(x.link, v, y)
    BY <1>6, <2>1 DEF Session, Asking, Unasked
  <2>. QED  BY <1>4, <1>6, <1>7, <1>5, <1>9, <2>1, <2>2, <2>3, <2>4 DEF Good, Kept
<1>. QED  BY <1>2, <1>8, <1>9

\* The read loop ends with the end of the stream, an error, or nothing more to read.
LEMMA ReadEndGood ==
  ASSUME NEW x \in ClientStates, NEW y, NEW f, Good(x.link, x.c, y, f)
  PROVE  LET r == ReadEnd(x)
         IN  r \in ClientStates /\ Good(r.link, r.c, y, f) /\ r.c.report = x.c.report
<1>. DEFINE r == ReadEnd(x)
            l == x.link
            p == x.c
            q == [p EXCEPT !.pc = "spins"]
            k == ErrorRead(l, "near")
<1>1. l \in Link /\ p \in Client /\ "near" \in Ends /\ "far" \in Ends /\ Peer("near") = "far"
  BY DEF ClientStates, Ends, Peer
<1>2. r = x \/ r = [x EXCEPT !.c = q] \/ r = [x EXCEPT !.link = k]
  BY DEF ReadEnd
<1>. HIDE DEF r
<1>3. CASE r = x
  BY <1>3 DEF r
<1>4. CASE r = [x EXCEPT !.c = q]
  <2>1. /\ q \in Client /\ q.status = p.status /\ q.pc = "spins" /\ q.read = p.read /\ q.size = p.size
        /\ q.index = p.index /\ q.count = p.count /\ q.inBuffer = p.inBuffer /\ q.played = p.played
        /\ q.player = p.player /\ q.alarms = p.alarms /\ q.due = p.due /\ q.report = p.report
    BY <1>1 DEF Client
  <2>. HIDE DEF q
  <2>2. r \in ClientStates /\ r.link = l /\ r.c = q
    BY <1>1, <1>4, <2>1 DEF ClientStates
  <2>3. Playing(q, f) /\ Noticed(l, q, f)
    BY <2>1 DEF Good, Kept, Playing, Noticed
  <2>4. Session(l, q, y)
    BY <2>1 DEF Good, Session, Asking, Accounted, Fresh
  <2>. QED  BY <2>1, <2>2, <2>3, <2>4 DEF Good, Kept, r
<1>5. CASE r = [x EXCEPT !.link = k]
  <2>1. k \in Link /\ k["far"] = l["far"] /\ SameEnd(l["near"], k["near"]) /\ k["near"].in = l["near"].in
    <3>. DEFINE e == "near"
    <3>. HIDE DEF e, k
    <3>1. ErrorRead(l, e) \in Link /\ ErrorRead(l, e)[Peer(e)] = l[Peer(e)]
          /\ SameEnd(l[e], ErrorRead(l, e)[e]) /\ ErrorRead(l, e)[e].in = l[e].in
      BY <1>1, ErrorReadFacts DEF e
    <3>. QED  BY <1>1, <3>1 DEF e, k
  <2>. HIDE DEF k
  <2>2. r \in ClientStates /\ r.link = k /\ r.c = p
    BY <1>1, <1>5, <2>1 DEF ClientStates
  <2>3. Good(k, p, y, f)
    <3>1. Linked(k)
      BY <2>1 DEF Good, Kept, Linked, Roomy, Ends, SameEnd
    <3>2. Blamed(k, y.host, f) /\ Queued(k, y) /\ Noticed(k, p, f)
      BY <2>1 DEF Good, Kept, Blamed, Queued, Noticed, SameEnd, HasFd, Broken
    <3>3. Sound(k) <=> Sound(l)
      BY <2>1 DEF Sound, Ends, SameEnd
    <3>4. Accounted(l, p, y) => Accounted(k, p, y)
      BY <2>1, <3>3 DEF Accounted, Wanted
    <3>5. Session(k, p, y)
      BY <2>1, <3>4 DEF Good, Session, Asking, Idle, HasFd, SameEnd
    <3>. QED  BY <3>1, <3>2, <3>5 DEF Good, Kept
  <2>. QED  BY <2>2, <2>3 DEF r
<1>. QED  BY <1>2, <1>3, <1>4, <1>5

\* What the player and its alarms leave alone.
SameDownload(p, q) ==
  /\ q.status = p.status /\ q.pc = p.pc /\ q.read = p.read /\ q.size = p.size
  /\ q.index = p.index /\ q.report = p.report /\ q.predicts = p.predicts

\* A segment more is in the buffer, and the player starts when it has to.
LEMMA SegmentBuffered ==
  ASSUME NEW p, NEW f, Playing(p, f), p.count < Segments, p.player # "not_started"
  PROVE  LET q == BufferSegment(p)
         IN  /\ Playing(q, f) /\ SameDownload(p, q) /\ q.count = p.count + 1
             /\ q.player # "not_started"
             /\ "request" \notin p.alarms => "request" \notin q.alarms
<1>. DEFINE a == [p EXCEPT !.count = @ + 1, !.inBuffer = @ + 1]
            s2 == [a EXCEPT !.player = "play", !.alarms = @ \cup {"player"}, !.due = @ \cup {"player"}]
            q == BufferSegment(p)
<1>1. p \in Client
  BY DEF Playing
<1>2. p.count + 1 \in 0 .. Segments /\ p.inBuffer + 1 \in 0 .. Segments /\ p.count \in Nat /\ p.inBuffer \in Nat
      /\ p.played \in Nat
  BY <1>1, ClientFields, SizesAreNatural DEF Playing
<1>3. /\ a \in Client /\ a.count = p.count + 1 /\ a.inBuffer = p.inBuffer + 1 /\ a.played = p.played
      /\ a.player = p.player /\ a.alarms = p.alarms /\ a.due = p.due /\ SameDownload(p, a)
  BY <1>1, <1>2 DEF Client, SameDownload
<1>4. q = IF \/ a.player = "init_buffering" /\ a.inBuffer >= InitSegments
             \/ a.player = "paused" /\ a.inBuffer > 0
          THEN s2 ELSE a
  BY DEF BufferSegment, CheckBufferStatus, StartPlayer
<1>. HIDE DEF a
<1>5. /\ s2 \in Client /\ s2.count = a.count /\ s2.inBuffer = a.inBuffer /\ s2.played = a.played
      /\ s2.player = "play" /\ s2.alarms = a.alarms \cup {"player"} /\ s2.due = a.due \cup {"player"}
      /\ SameDownload(a, s2)
  BY <1>3 DEF Client, SameDownload, Alarms
<1>. HIDE DEF s2
<1>6. a.inBuffer > 0 /\ a.count = a.inBuffer + a.played
  BY <1>2, <1>3 DEF Playing
<1>7. InitSegments \in Nat /\ a.inBuffer \in Nat
  BY <1>2, <1>3, DashAssumption
<1>. HIDE DEF q
<1>8. CASE q = s2
  <2>1. Playing(s2, f)
    BY <1>3, <1>5, <1>6 DEF Playing
  <2>. QED  BY <1>3, <1>5, <1>8, <2>1 DEF SameDownload, q, a
<1>9. CASE q = a /\ ~ (a.player = "init_buffering" /\ a.inBuffer >= InitSegments)
                 /\ ~ (a.player = "paused" /\ a.inBuffer > 0)
  <2>1. Playing(a, f)
    BY <1>3, <1>6, <1>7, <1>9 DEF Playing
  <2>. QED  BY <1>3, <1>9, <2>1 DEF q, a
<1>. QED  BY <1>4, <1>8, <1>9

LEMMA SegmentDoneGood ==
  ASSUME NEW x \in ClientStates, NEW y, NEW f, Kept(x.link, x.c, y, f),
         x.c.status = "connected", x.link["near"].state = "open", x.c.player # "not_started",
         "request" \notin x.c.alarms, x.c.index = x.c.count + 1, Idle(x.link, y),
         NEW atOnce, NEW r \in SegmentDone(x, atOnce)
  PROVE  r \in ClientStates /\ Good(r.link, r.c, y, f) /\ r.c.report = x.c.report
<1>. DEFINE p == x.c
            q == BufferSegment(p)
            got == [x EXCEPT !.c = q]
<1>1. x.link \in Link /\ p \in Client
  BY DEF ClientStates
<1>2. p.count < Segments
  BY <1>1, ClientFields, SizesAreNatural
<1>3. /\ Playing(q, f) /\ SameDownload(p, q) /\ q.count = p.count + 1
      /\ q.player # "not_started" /\ "request" \notin q.alarms
  <2>1. Playing(p, f)
    BY DEF Kept
  <2>. QED  BY <1>2, <2>1, SegmentBuffered
<1>4. r \in IF got.c.index = Segments THEN {CloseClient(got)}
            ELSE IF atOnce /\ got.c.predicts THEN {ClientEnds(got, "aborted")}
            ELSE {ReadEnd(z) : z \in RequestSegment(got)}
  BY DEF SegmentDone
<1>. HIDE DEF q
<1>5. q \in Client
  BY <1>3 DEF Playing
<1>6. got \in ClientStates /\ got.link = x.link /\ got.c = q
  BY <1>1, <1>5 DEF ClientStates
<1>. HIDE DEF got
<1>7. Kept(got.link, got.c, y, f) /\ HasFd(got.link, "near")
  BY <1>3, <1>6 DEF Kept, Noticed, SameDownload, HasFd
<1>8. got.c.report = x.c.report
  BY <1>3, <1>6 DEF SameDownload
<1>9. CASE got.c.index = Segments
  <2>1. CloseClient(got) \in ClientStates /\ Good(CloseClient(got).link, CloseClient(got).c, y, f)
        /\ CloseClient(got).c.report = got.c.report
    BY <1>6, <1>7, CloseClientGood
  <2>. QED  BY <1>4, <1>9, <1>8, <2>1
<1>10. CASE got.c.index # Segments /\ r = ClientEnds(got, "aborted")
  <2>1. ClientEnds(got, "aborted") \in ClientStates
        /\ Good(ClientEnds(got, "aborted").link, ClientEnds(got, "aborted").c, y, f)
        /\ ClientEnds(got, "aborted").c.report = got.c.report
    BY <1>6, <1>7, ClientEndsGood
  <2>. QED  BY <1>10, <1>8, <2>1
<1>11. CASE got.c.index # Segments /\ r \in {ReadEnd(z) : z \in RequestSegment(got)}
  <2>1. PICK z \in RequestSegment(got) : r = ReadEnd(z)
    BY <1>11
  <2>2. Unasked(got.link, got.c, y)
    <3>1. q.count < Segments
      BY <1>1, <1>3, <1>6, <1>11, ClientFields, SizesAreNatural DEF SameDownload
    <3>. QED  BY <1>3, <1>6, <3>1 DEF Unasked, SameDownload
  <2>3. z \in ClientStates /\ Good(z.link, z.c, y, f) /\ z.c.report = got.c.report
    BY <1>6, <1>7, <2>1, <2>2, RequestSegmentGood
  <2>4. ReadEnd(z) \in ClientStates /\ Good(ReadEnd(z).link, ReadEnd(z).c, y, f)
        /\ ReadEnd(z).c.report = z.c.report
    BY <2>3, ReadEndGood
  <2>. QED  BY <1>8, <2>1, <2>3, <2>4
<1>. QED  BY <1>4, <1>9, <1>10, <1>11

\* Everything that has come is read; it completes the segment, or more is to come.
LEMMA OnReadEventGood ==
  ASSUME NEW x \in ClientStates, NEW y, NEW f, Good(x.link, x.c, y, f), NEW r \in OnReadEvent(x)
  PROVE  r \in ClientStates /\ Good(r.link, r.c, y, f) /\ r.c.report = x.c.report
<1>. DEFINE l == x.link
            p == x.c
            data == l["near"].in
            n == Len(data)
            k == Consume(l, "near", n)
            q == [p EXCEPT !.read = @ + n]
            got == [x EXCEPT !.link = k, !.c = q]
<1>1. l \in Link /\ p \in Client /\ "near" \in Ends /\ "far" \in Ends /\ Peer("near") = "far"
      /\ data \in Seq(Int) /\ n \in Nat
  BY LinkFields DEF ClientStates, Ends, Peer
<1>2. CASE ~ HasFd(l, "near")
  <2>1. r = x
    BY <1>2 DEF OnReadEvent
  <2>. QED  BY <2>1
<1>3. CASE HasFd(l, "near")
  <2>1. r \in IF data # <<>> /\ got.c.read = got.c.size THEN SegmentDone(got, p.read = 0)
              ELSE {ReadEnd(got)}
    BY <1>3 DEF OnReadEvent
  <2>2. k \in Link /\ k["far"] = l["far"] /\ SameEnd(l["near"], k["near"]) /\ k["near"].in = <<>>
    <3>. DEFINE e == "near"
                j == Consume(l, e, Len(l[e].in))
    <3>. HIDE DEF e
    <3>1. j \in Link /\ j[Peer(e)] = l[Peer(e)] /\ SameEnd(l[e], j[e]) /\ j[e].in = <<>>
      BY <1>1, ConsumeFacts DEF e
    <3>2. j = k /\ e = "near"
      BY DEF e
    <3>. HIDE DEF j, k
    <3>. QED  BY <1>1, <3>1, <3>2
  <2>. HIDE DEF k, n
  <2>3. /\ q \in Client /\ q.read = p.read + n /\ q.count = p.count /\ q.inBuffer = p.inBuffer
        /\ q.played = p.played /\ q.player = p.player /\ q.alarms = p.alarms /\ q.due = p.due
        /\ q.status = p.status /\ q.index = p.index /\ q.size = p.size /\ q.report = p.report /\ q.pc = p.pc
    <3>1. p.read + n \in Nat
      BY <1>1, ClientFields
    <3>. QED  BY <1>1, <3>1 DEF Client
  <2>. HIDE DEF q
  <2>4. got \in ClientStates /\ got.link = k /\ got.c = q
    BY <1>1, <2>2, <2>3 DEF ClientStates
  <2>. HIDE DEF got
  <2>5. Kept(k, q, y, f)
    <3>1. Linked(k)
      <4>1. Roomy(k)
        BY <2>2, RoomAssumption DEF Good, Kept, Linked, Roomy, Ends
      <4>. QED  BY <2>2, <4>1 DEF Good, Kept, Linked, SameEnd
    <3>2. Blamed(k, y.host, f) /\ Queued(k, y)
      BY <2>2 DEF Good, Kept, Blamed, Queued, SameEnd, HasFd, Broken
    <3>3. Playing(q, f) /\ Noticed(k, q, f)
      BY <2>2, <2>3 DEF Good, Kept, Playing, Noticed, SameEnd, HasFd
    <3>. QED  BY <3>1, <3>2, <3>3 DEF Kept
  <2>6. Sound(k) <=> Sound(l)
    BY <2>2 DEF Sound, Ends, SameEnd
  <2>7. CASE data # <<>> /\ q.read = q.size
    <3>1. n > 0
      BY <1>1, <2>7 DEF n
    <3>2. p.status = "connected"
      <4>1. p.status # "connecting"
        BY <2>7 DEF Good, Session, Idle
      <4>2. p.status # "disconnected"
        BY <1>3 DEF Good, Session
      <4>. QED  BY <1>1, <4>1, <4>2, ClientFields
    <3>3. l["near"].state = "open" /\ p.player # "not_started" /\ Asking(l, p, y)
      BY <3>2 DEF Good, Session
    <3>4. "request" \notin p.alarms /\ Accounted(l, p, y)
      BY <2>7, <3>3 DEF Asking, Idle
    <3>5. Wanted(l) + Owed(y) <= 0
      <4>1. p.read \in Nat /\ p.size \in Nat /\ p.read + n = p.size
        BY <1>1, <2>3, <2>7, <3>4, SizesAreNatural, ClientFields DEF Accounted
      <4>2. Wanted(l) \in Int /\ Owed(y) \in Int
        <5>1. Wanted(l) \in Int
          BY SizesAreNatural DEF Wanted, Good, Kept, Queued
        <5>2. Owed(y) \in Int
          BY SizesAreNatural DEF Owed, Good, Kept, Queued, Server
        <5>. QED  BY <5>1, <5>2
      <4>3. p.read + n + Wanted(l) + Owed(y) <= p.size
        BY <3>4 DEF Accounted, n
      <4>. QED  BY <1>1, <4>1, <4>2, <4>3
    <3>6. l["far"].in = <<>> /\ y.queue = <<>>
      <4>1. l["far"].in # <<>> => Wanted(l) > 0
        BY SizesAreNatural DEF Wanted, Good, Kept, Queued
      <4>2. y.queue # <<>> => Owed(y) > 0
        BY SizesAreNatural DEF Owed, Good, Kept, Queued, Server
      <4>3. Wanted(l) \in Nat /\ Owed(y) \in Nat
        <5>1. Wanted(l) \in Nat
          BY SizesAreNatural DEF Wanted, Good, Kept, Queued
        <5>2. Owed(y) \in Nat
          BY SizesAreNatural, <4>2 DEF Owed, Good, Kept, Queued, Server
        <5>. QED  BY <5>1, <5>2
      <4>. QED  BY <3>5, <4>1, <4>2, <4>3
    <3>7. Idle(k, y)
      BY <2>2, <3>6 DEF Idle
    <3>8. r \in SegmentDone(got, p.read = 0)
      BY <2>1, <2>4, <2>7
    <3>9. q.index = q.count + 1 /\ k["near"].state = "open"
      BY <2>2, <2>3, <3>3, <3>4 DEF Accounted, SameEnd
    <3>. DEFINE atOnce == p.read = 0
    <3>10. r \in SegmentDone(got, atOnce)
      BY <3>8
    <3>. HIDE DEF atOnce
    <3>11. r \in ClientStates /\ Good(r.link, r.c, y, f) /\ r.c.report = got.c.report
      BY <2>3, <2>4, <2>5, <3>2, <3>3, <3>4, <3>7, <3>9, <3>10, SegmentDoneGood
    <3>. QED  BY <2>3, <2>4, <3>11
  <2>8. CASE ~ (data # <<>> /\ q.read = q.size)
    <3>1. r = ReadEnd(got)
      BY <2>1, <2>4, <2>8
    <3>2. Session(k, q, y)
      <4>1. data = <<>> => n = 0
        BY DEF n
      <4>2. p.read \in Nat
        BY <1>1, ClientFields
      <4>3. Accounted(l, p, y) => Accounted(k, q, y)
        <5>1. Wanted(k) = Wanted(l) /\ Len(k["near"].in) = 0
          BY <2>2 DEF Wanted
        <5>. QED  BY <1>1, <2>3, <2>6, <4>2, <5>1 DEF Accounted, n
      <4>4. Session(l, p, y)
        BY DEF Good
      <4>5. l["near"].in = <<>> => q.read = p.read
        BY <2>3, <4>1, <4>2
      <4>6. q.status = "connecting" => HasFd(k, "near") /\ Idle(k, y) /\ Fresh(q)
        BY <2>2, <2>3, <4>4, <4>5 DEF Session, Idle, Fresh, HasFd, SameEnd
      <4>7. q.status = "connected" => k["near"].state = "open" /\ q.player # "not_started" /\ Asking(k, q, y)
        BY <2>2, <2>3, <4>3, <4>4, <4>5 DEF Session, Asking, Idle, SameEnd
      <4>8. q.status = "disconnected" => ~ HasFd(k, "near")
        BY <2>2, <2>3, <4>4 DEF Session, HasFd, SameEnd
      <4>. QED  BY <4>6, <4>7, <4>8 DEF Session
    <3>3. Good(got.link, got.c, y, f)
      BY <2>4, <2>5, <3>2 DEF Good
    <3>4. ReadEnd(got) \in ClientStates /\ Good(ReadEnd(got).link, ReadEnd(got).c, y, f)
          /\ ReadEnd(got).c.report = got.c.report
      BY <2>4, <3>3, ReadEndGood
    <3>. QED  BY <2>3, <2>4, <3>1, <3>4
  <2>. QED  BY <2>7, <2>8
<1>. QED  BY <1>2, <1>3

LEMMA OnConnectedGood ==
  ASSUME NEW x \in ClientStates, NEW y, NEW f, Good(x.link, x.c, y, f),
         x.c.status = "connecting", x.link["near"].state = "open", NEW r \in OnConnected(x)
  PROVE  r \in ClientStates /\ Good(r.link, r.c, y, f) /\ r.c.report = x.c.report
<1>. DEFINE p == x.c
            q == [p EXCEPT !.status = "connected", !.player = "init_buffering"]
            z == [x EXCEPT !.c = q]
<1>1. x.link \in Link /\ p \in Client /\ Fresh(p) /\ Idle(x.link, y)
  BY DEF ClientStates, Good, Session
<1>2. r \in RequestSegment(z)
  BY DEF OnConnected, ClientStates
<1>3. /\ q \in Client /\ q.count = p.count /\ q.inBuffer = p.inBuffer /\ q.played = p.played
      /\ q.player = "init_buffering" /\ q.alarms = p.alarms /\ q.due = p.due /\ q.status = "connected"
      /\ q.index = p.index /\ q.report = p.report
  BY <1>1 DEF Client
<1>. HIDE DEF q
<1>4. z \in ClientStates /\ z.link = x.link /\ z.c = q
  BY <1>1, <1>3 DEF ClientStates
<1>. HIDE DEF z
<1>5. Playing(q, f) /\ Noticed(x.link, q, f)
  BY <1>1, <1>3 DEF Good, Kept, Playing, Noticed, Fresh
<1>6. Unasked(x.link, q, y)
  BY <1>1, <1>3, SizesAreNatural DEF Unasked, Fresh
<1>7. r \in ClientStates /\ Good(r.link, r.c, y, f) /\ r.c.report = z.c.report
  <2>1. Kept(z.link, z.c, y, f) /\ Unasked(z.link, z.c, y)
    BY <1>4, <1>5, <1>6 DEF Good, Kept
  <2>. QED  BY <1>2, <1>4, <2>1, RequestSegmentGood
<1>. QED  BY <1>3, <1>4, <1>7

LEMMA OnEventGood ==
  ASSUME NEW x \in ClientStates, NEW y, NEW f, Good(x.link, x.c, y, f),
         NEW r \in OnEvent(x, x.c.report)
  PROVE  r \in ClientStates /\ Good(r.link, r.c, y, f)
<1>. DEFINE report == x.c.report
            hangup == report \cap {"RDHUP", "HUP"} # {}
            z == CloseClient(x)
            d == z.c
            q == [d EXCEPT !.player = "done"]
            w == [z EXCEPT !.c = q]
            up == IF hangup THEN w ELSE x
            read == IF "IN" \in report THEN OnReadEvent(up) ELSE {up}
<1>1. x.link \in Link /\ x.c \in Client
  BY DEF ClientStates
<1>2. PICK v \in read : r \in IF "OUT" \in report /\ v.c.status = "connecting" THEN OnConnected(v) ELSE {v}
  BY DEF OnEvent
<1>3. /\ up \in ClientStates /\ Good(up.link, up.c, y, f)
      /\ up.c.report = report
      /\ hangup => up.c.status = "disconnected"
  <2>1. CASE ~ hangup
    BY <2>1
  <2>2. CASE hangup
    <3>1. f # {} /\ Kept(x.link, x.c, y, f)
      BY <2>2 DEF Good, Kept, Noticed
    <3>2. HasFd(x.link, "near") \/ x.c.status = "disconnected"
      BY <1>1, ClientFields DEF Good, Session, HasFd
    <3>3. /\ z \in ClientStates /\ Good(z.link, z.c, y, f)
          /\ z.c.status = "disconnected" /\ z.c.report = report
      BY <3>1, <3>2, CloseClientGood
    <3>. HIDE DEF z, report
    <3>4. d \in Client
      BY <3>3 DEF ClientStates
    <3>5. /\ q \in Client /\ q.count = d.count /\ q.inBuffer = d.inBuffer /\ q.played = d.played
          /\ q.player = "done" /\ q.alarms = d.alarms /\ q.due = d.due /\ q.status = d.status
          /\ q.index = d.index /\ q.report = d.report
      BY <3>4 DEF Client
    <3>. HIDE DEF q
    <3>6. w \in ClientStates /\ w.link = z.link /\ w.c = q
      BY <3>3, <3>5 DEF ClientStates
    <3>. HIDE DEF w
    <3>7. Playing(q, f) /\ Noticed(z.link, q, f) /\ Session(z.link, q, y)
      BY <3>1, <3>3, <3>5 DEF Good, Kept, Playing, Noticed, Session
    <3>8. w \in ClientStates /\ Good(w.link, w.c, y, f) /\ w.c.report = report
          /\ w.c.status = "disconnected"
      BY <3>3, <3>5, <3>6, <3>7 DEF Good, Kept
    <3>. QED  BY <2>2, <3>8
  <2>. QED  BY <2>1, <2>2
<1>. HIDE DEF up, report
<1>4. v \in ClientStates /\ Good(v.link, v.c, y, f) /\ v.c.report = report
  <2>1. CASE "IN" \in report
    <3>1. v \in OnReadEvent(up)
      BY <1>2, <2>1
    <3>. QED  BY <1>3, <3>1, OnReadEventGood
  <2>2. CASE "IN" \notin report
    BY <1>2, <1>3, <2>2
  <2>. QED  BY <2>1, <2>2
<1>5. CASE "OUT" \in report /\ v.c.status = "connecting"
  <2>1. r \in OnConnected(v)
    BY <1>2, <1>5
  <2>2. HasFd(v.link, "near")
    BY <1>4, <1>5 DEF Good, Session
  <2>3. CASE "HUP" \notin report
    <3>1. v.link["near"].state = "open"
      BY <1>4, <1>5, <2>2, <2>3 DEF Good, Kept, Noticed
    <3>. QED  BY <1>4, <1>5, <2>1, <3>1, OnConnectedGood
  <2>4. CASE "HUP" \in report
    <3>1. up.c.status = "disconnected"
      BY <1>3, <2>4
    <3>2. ~ HasFd(up.link, "near")
      BY <1>3, <3>1 DEF Good, Session
    <3>3. v = up
      BY <1>2, <3>2 DEF OnReadEvent
    <3>. QED  BY <1>5, <3>1, <3>3
  <2>. QED  BY <2>3, <2>4
<1>6. CASE ~ ("OUT" \in report /\ v.c.status = "connecting")
  BY <1>2, <1>4, <1>6
<1>. QED  BY <1>5, <1>6

LEMMA PlayOnFacts ==
  ASSUME NEW p, NEW f, p \in Client, p.count = p.inBuffer + p.played, p.due \subseteq p.alarms,
         p.player = "done" => p.played = Segments \/ f # {},
         p.player \notin {"not_started", "init_buffering"},
         p.player = "play" => p.inBuffer > 0,
         p.player = "paused" => p.inBuffer = 0 /\ p.count < Segments
  PROVE  LET q == PlayOn(p)
         IN  /\ Playing(q, f) /\ SameDownload(p, q) /\ q.count = p.count
             /\ q.player # "not_started"
             /\ "request" \in q.alarms <=> "request" \in p.alarms
<1>. DEFINE last == (p.frames + 1) % Frames = 0
            b == [p EXCEPT !.frames = (p.frames + 1) % Frames,
                           !.inBuffer = IF last THEN @ - 1 ELSE @,
                           !.played = IF last THEN @ + 1 ELSE @]
            a == PlayFrame(p)
            on == [a EXCEPT !.alarms = @ \cup {"player"}]
            off == [a EXCEPT !.player = IF a.played >= Segments THEN "done" ELSE "paused"]
            q == PlayOn(p)
<1>1. /\ p.count \in Nat /\ p.count <= Segments /\ p.inBuffer \in Nat /\ p.played \in Nat
      /\ Segments \in Nat /\ Frames \in Nat \ {0} /\ p.frames \in 0 .. Frames - 1
  BY ClientFields, SizesAreNatural, DashAssumption
<1>2. /\ a \in Client /\ a.count = p.count /\ a.count = a.inBuffer + a.played /\ a.due = p.due
      /\ a.alarms = p.alarms /\ a.player = p.player /\ SameDownload(p, a)
      /\ p.inBuffer = 0 => a = p
      /\ p.player = "done" => a.played = Segments \/ f # {}
  <2>1. CASE p.inBuffer = 0
    BY <2>1 DEF PlayFrame, SameDownload
  <2>2. CASE p.inBuffer # 0
    <3>1. a = b
      BY <2>2 DEF PlayFrame
    <3>2. (p.frames + 1) % Frames \in 0 .. Frames - 1
      BY <1>1
    <3>. HIDE DEF last
    <3>3. (IF last THEN p.inBuffer - 1 ELSE p.inBuffer) \in 0 .. Segments
          /\ (IF last THEN p.played + 1 ELSE p.played) \in 0 .. Segments
      BY <1>1, <2>2
    <3>4. /\ b \in Client /\ b.count = p.count /\ b.due = p.due /\ b.alarms = p.alarms
          /\ b.player = p.player /\ SameDownload(p, b)
          /\ b.inBuffer = (IF last THEN p.inBuffer - 1 ELSE p.inBuffer)
          /\ b.played = (IF last THEN p.played + 1 ELSE p.played)
      BY <3>2, <3>3 DEF Client, SameDownload
    <3>. HIDE DEF a, b
    <3>5. b.count = b.inBuffer + b.played
      BY <1>1, <3>4
    <3>6. p.player = "done" => b.played = Segments \/ f # {}
      BY <1>1, <2>2, <3>4
    <3>. QED  BY <2>2, <3>1, <3>4, <3>5, <3>6
  <2>. QED  BY <2>1, <2>2
<1>3. q = IF a.inBuffer > 0 THEN on ELSE off
  BY DEF PlayOn
<1>. HIDE DEF a, q
<1>4. a.inBuffer \in Nat /\ a.played \in Nat
  BY <1>2, ClientFields
<1>5. CASE a.inBuffer > 0
  <2>1. /\ on \in Client /\ on.count = a.count /\ on.inBuffer = a.inBuffer /\ on.played = a.played
        /\ on.due = a.due /\ on.alarms = a.alarms \cup {"player"} /\ on.player = a.player
        /\ SameDownload(a, on)
    BY <1>2 DEF Client, SameDownload, Alarms
  <2>. HIDE DEF on
  <2>2. p.player # "paused"
    BY <1>2, <1>4, <1>5
  <2>3. Playing(on, f)
    BY <1>2, <1>5, <2>1, <2>2 DEF Playing
  <2>4. q = on
    BY <1>3, <1>5
  <2>. QED  BY <1>2, <2>1, <2>3, <2>4 DEF SameDownload, q
<1>6. CASE ~ (a.inBuffer > 0)
  <2>1. /\ off \in Client /\ off.count = a.count /\ off.inBuffer = a.inBuffer /\ off.played = a.played
        /\ off.due = a.due /\ off.alarms = a.alarms
        /\ off.player = (IF a.played >= Segments THEN "done" ELSE "paused")
        /\ SameDownload(a, off)
    BY <1>2 DEF Client, SameDownload
  <2>. HIDE DEF off
  <2>2. a.inBuffer = 0 /\ a.played <= Segments
    BY <1>1, <1>2, <1>4, <1>6
  <2>3. Playing(off, f)
    BY <1>1, <1>2, <1>4, <2>1, <2>2 DEF Playing
  <2>4. q = off
    BY <1>3, <1>6
  <2>. QED  BY <1>2, <2>1, <2>3, <2>4 DEF SameDownload, q
<1>. QED  BY <1>5, <1>6

-------------------------------------------------------------------------------
(* The server.  Its steps leave the client as it is. *)

ServerStates == [link : Link, s : Server]

LEMMA ServerFields ==
  ASSUME NEW y \in Server
  PROVE  /\ y.queue \in Seq(Sizes) /\ Len(y.queue) \in Nat /\ y.sent \in Nat
         /\ y.host \in Context({"endpoint"}) /\ y.host.tasks \in Seq({"endpoint"})
<1>1. y.queue \in Seq(Sizes) /\ y.sent \in Nat /\ y.host \in Context({"endpoint"})
  BY DEF Server
<1>2. y.host.tasks \in Seq({"endpoint"})
  BY <1>1 DEF Context
<1>. QED  BY <1>1, <1>2

\* Only the requests, and whether the process runs, matter to the client.
SameQueue(y, z) ==
  z \in Server /\ z.queue = y.queue /\ z.sent = y.sent /\ z.host.running = y.host.running

LEMMA SameQueueGood ==
  ASSUME NEW l, NEW p, NEW y, NEW z, NEW f, Good(l, p, y, f), SameQueue(y, z)
  PROVE  Good(l, p, z, f)
<1>1. Blamed(l, z.host, f) /\ Queued(l, z)
  BY DEF Good, Kept, Blamed, Queued, SameQueue
<1>2. (Accounted(l, p, y) => Accounted(l, p, z)) /\ (Idle(l, y) <=> Idle(l, z))
  BY DEF Accounted, Owed, Idle, SameQueue
<1>3. Session(l, p, z)
  BY <1>2 DEF Good, Session, Asking
<1>. QED  BY <1>1, <1>3 DEF Good, Kept

\* The far end loses what it has not read.
LEMMA FarLost ==
  ASSUME NEW l, NEW p, NEW y, NEW f, Good(l, p, y, f), HasFd(l, "near") => f # {},
         NEW k \in Link, k["far"] = ClosedEnd, k["near"].state = l["near"].state,
         k["near"].in = l["near"].in, l["far"] # NoEnd
  PROVE  Good(k, p, y, f)
<1>1. Linked(k)
  <2>1. Roomy(k)
    BY ClosedEndFacts, RoomAssumption DEF Good, Kept, Linked, Roomy, Ends
  <2>. QED  BY <2>1, ClosedEndFacts DEF Good, Kept, Linked
<1>2. Blamed(k, y.host, f)
  BY DEF Good, Kept, Blamed, HasFd
<1>3. Queued(k, y)
  <2>1. Len(l["far"].in) \in Nat /\ Len(y.queue) \in Nat
    BY ServerFields DEF Good, Kept, Queued
  <2>2. k["far"].in = <<>> /\ k["far"].in \in Seq(Sizes) /\ Len(k["far"].in) = 0
    BY ClosedEndFacts, EmptySeq
  <2>3. Len(l["far"].in) + Len(y.queue) <= 1
    BY DEF Good, Kept, Queued
  <2>4. Len(k["far"].in) + Len(y.queue) <= 1
    <3>. DEFINE a == Len(l["far"].in)
                b == Len(y.queue)
                d == Len(k["far"].in)
    <3>1. a \in Nat /\ b \in Nat /\ a + b <= 1 /\ d = 0
      BY <2>1, <2>2, <2>3
    <3>. HIDE DEF a, b, d
    <3>2. d + b <= 1
      BY <3>1
    <3>. QED  BY <3>2 DEF b, d
  <2>. QED  BY <2>2, <2>4 DEF Good, Kept, Queued
<1>4. Noticed(k, p, f) /\ (Idle(l, y) => Idle(k, y))
  BY ClosedEndFacts DEF Good, Kept, Noticed, HasFd, Idle
<1>5. Accounted(l, p, y) => Accounted(k, p, y)
  <2>1. ~ Sound(k) /\ Wanted(k) = 0
    BY ClosedEndFacts DEF Sound, Ends, Wanted
  <2>2. Wanted(l) \in Nat /\ Len(l["near"].in) \in Nat /\ p.read \in Nat /\ Owed(y) \in Int
    <3>1. Wanted(l) \in Nat
      BY SizesAreNatural DEF Wanted, Good, Kept, Queued
    <3>2. Owed(y) \in Int
      BY SizesAreNatural DEF Owed, Good, Kept, Queued, Server
    <3>3. Len(l["near"].in) \in Nat
      BY LinkFields DEF Good, Kept, Linked, Ends
    <3>. QED  BY <3>1, <3>2, <3>3, ClientFields DEF Good, Kept, Playing
  <2>3. Accounted(l, p, y) => p.size \in Nat
    BY SizesAreNatural DEF Accounted
  <2>. QED  BY <2>1, <2>2, <2>3 DEF Accounted
<1>6. Session(k, p, y)
  BY <1>4, <1>5 DEF Good, Session, Asking, HasFd
<1>. QED  BY <1>1, <1>2, <1>3, <1>4, <1>6 DEF Good, Kept

LEMMA CloseFarGood ==
  ASSUME NEW l, NEW p, NEW y, NEW f, Good(l, p, y, f), HasFd(l, "near") => f # {}
  PROVE  LET k == Close(l, "far") IN k \in Link /\ Good(k, p, y, f)
<1>. DEFINE k == Close(l, "far")
<1>1. l \in Link /\ "far" \in Ends /\ Peer("far") = "near"
  BY DEF Good, Kept, Linked, Ends, Peer
<1>2. CASE ~ HasFd(l, "far")
  BY <1>1, <1>2 DEF Close
<1>3. CASE HasFd(l, "far")
  <2>1. k \in Link /\ k["far"] = ClosedEnd /\ k["near"].state = l["near"].state /\ k["near"].in = l["near"].in
    BY <1>1, <1>3, CloseFacts
  <2>2. l["far"] # NoEnd
    BY <1>3, ClosedEndFacts DEF HasFd
  <2>. HIDE DEF k
  <2>. QED  BY <2>1, <2>2, FarLost DEF k
<1>. QED  BY <1>2, <1>3

LEMMA AbandonGood ==
  ASSUME NEW l, NEW p, NEW y, NEW f, Good(l, p, y, f), HasFd(l, "near") => f # {}
  PROVE  LET k == Abandon(l) IN k \in Link /\ Good(k, p, y, f)
<1>. DEFINE k == Abandon(l)
            a == ResetEnd(l["near"])
            m == Put(l, "near", a)
<1>1. l \in Link /\ "far" \in Ends /\ "near" \in Ends /\ Peer("far") = "near" /\ Peer("near") = "far"
      /\ l["near"] \in End
  BY DEF Good, Kept, Linked, Ends, Peer, Link
<1>2. CASE l["far"].state # "queued"
  BY <1>1, <1>2 DEF Abandon
<1>3. CASE l["far"].state = "queued"
  <2>1. a \in End /\ a.state = l["near"].state /\ a.in = l["near"].in
    BY <1>1, ResetEndFacts
  <2>2. m \in Link /\ m["near"] = a
    <3>. HIDE DEF a
    <3>. QED  BY <1>1, <2>1, PutFacts
  <2>3. k = Put(m, "far", ClosedEnd)
    BY <1>1, <1>3 DEF Abandon, Put, ClosedEnd
  <2>. HIDE DEF m, k
  <2>4. k \in Link /\ k["far"] = ClosedEnd /\ k["near"] = a
    <3>1. Put(m, "far", ClosedEnd) \in Link /\ Put(m, "far", ClosedEnd)["far"] = ClosedEnd
          /\ Put(m, "far", ClosedEnd)[Peer("far")] = m[Peer("far")]
      BY <1>1, <2>2, ClosedEndFacts, PutFacts
    <3>. QED  BY <1>1, <2>2, <2>3, <3>1
  <2>5. l["far"] # NoEnd
    BY <1>3, ClosedEndFacts
  <2>. HIDE DEF a
  <2>. QED  BY <2>1, <2>4, <2>5, FarLost DEF k
<1>. QED  BY <1>2, <1>3

LEMMA ServerEndsGood ==
  ASSUME NEW x \in ServerStates, NEW p, NEW f, Good(x.link, p, x.s, f), HasFd(x.link, "near") => f # {}
  PROVE  LET r == ServerEnds(x) IN r \in ServerStates /\ Good(r.link, p, r.s, f)
<1>. DEFINE y == x.s
            m == Abandon(x.link)
            k == Close(m, "far")
            h == Destroy(y.host)
            z == [y EXCEPT !.life = IF @ = "none" THEN @ ELSE "deleted", !.host = h]
            r == ServerEnds(x)
<1>1. x.link \in Link /\ y \in Server
  BY DEF ServerStates
<1>2. m \in Link /\ Good(m, p, y, f) /\ (HasFd(m, "near") => f # {})
  <2>1. m \in Link /\ Good(m, p, y, f)
    BY AbandonGood
  <2>2. HasFd(m, "near") => HasFd(x.link, "near")
    BY ResetEndFacts, <1>1 DEF Abandon, HasFd, Link, Ends
  <2>. QED  BY <2>1, <2>2
<1>. HIDE DEF m
<1>3. k \in Link /\ Good(k, p, y, f)
  BY <1>2, CloseFarGood
<1>4. h \in Context({"endpoint"}) /\ h.running = y.host.running
  BY <1>1, ServerFields, EmptySeq DEF Destroy, Context
<1>5. r = [x EXCEPT !.link = k, !.s = z]
  BY DEF ServerEnds, m
<1>. HIDE DEF h, k
<1>6. SameQueue(y, z)
  BY <1>1, <1>4 DEF SameQueue, Server
<1>. HIDE DEF z, r
<1>7. r \in ServerStates /\ r.link = k /\ r.s = z
  BY <1>1, <1>3, <1>5, <1>6 DEF ServerStates, SameQueue
<1>. QED  BY <1>3, <1>6, <1>7, SameQueueGood DEF r

LEMMA OnUnregistrationGood ==
  ASSUME NEW x \in ServerStates, NEW p, NEW f, Good(x.link, p, x.s, f), HasFd(x.link, "near") => f # {}
  PROVE  LET r == OnUnregistration(x) IN r \in ServerStates /\ Good(r.link, p, r.s, f)
<1>. DEFINE y == x.s
            k == Close(x.link, "far")
            w == CloseEndpoint(x)
            h == PostTask(y.host, "endpoint")
            z == [y EXCEPT !.life = "destroyed", !.host = h]
            r == OnUnregistration(x)
<1>1. x.link \in Link /\ y \in Server
  BY DEF ServerStates
<1>2. k \in Link /\ Good(k, p, y, f)
  BY CloseFarGood
<1>3. w = [x EXCEPT !.link = k]
  BY DEF CloseEndpoint
<1>. HIDE DEF k, w
<1>4. w \in ServerStates /\ w.link = k /\ w.s = y
  BY <1>1, <1>2, <1>3 DEF ServerStates
<1>5. r = IF y.life # "live" THEN w ELSE [w EXCEPT !.s = z]
  BY <1>4 DEF OnUnregistration, DeleteSelf, w
<1>6. h \in Context({"endpoint"}) /\ h.running = y.host.running
  <2>1. Append(y.host.tasks, "endpoint") \in Seq({"endpoint"})
    BY <1>1, ServerFields, AppendProperties
  <2>. QED  BY <1>1, <2>1, ServerFields DEF PostTask, Context
<1>. HIDE DEF h
<1>7. SameQueue(y, z)
  BY <1>1, <1>6 DEF SameQueue, Server
<1>. HIDE DEF z, r
<1>8. CASE r = w
  BY <1>2, <1>4, <1>8 DEF r
<1>9. CASE r = [w EXCEPT !.s = z]
  <2>1. r \in ServerStates /\ r.link = k /\ r.s = z
    BY <1>2, <1>4, <1>7, <1>9 DEF ServerStates, SameQueue
  <2>. QED  BY <1>2, <1>7, <2>1, SameQueueGood DEF r
<1>. QED  BY <1>5, <1>8, <1>9

\* Data the server sends reach the client, and are owed no longer.
LEMMA AnswerSent ==
  ASSUME NEW l, NEW p, NEW y, NEW f, Good(l, p, y, f), y.queue # <<>>, HasFd(l, "far")
  PROVE  LET owed == Owed(y)
             n == Taken(l, "far", owed)
             k == Send(l, "far", [i \in 1 .. owed |-> Data])
         IN  /\ owed \in Nat /\ n \in 0 .. owed /\ k \in Link
             /\ \A z : /\ z \in Server /\ z.host.running = y.host.running
                       /\ \/ z.queue = y.queue /\ z.sent = y.sent + n /\ n < owed
                          \/ z.queue = <<>> /\ z.sent = 0 /\ n = owed
                       => Good(k, p, z, f)
<1>. DEFINE e == "far"
            owed == Owed(y)
            data == [i \in 1 .. owed |-> Data]
            n == Taken(l, e, owed)
            k == Send(l, e, data)
<1>1. /\ l \in Link /\ Roomy(l) /\ Linked(l) /\ y \in Server /\ p \in Client
      /\ e \in Ends /\ "near" \in Ends /\ Peer(e) = "near" /\ e = "far"
  BY DEF Good, Kept, Linked, Queued, Playing, Ends, Peer
<1>2. /\ Len(l[e].in) = 0 /\ l[e].in = <<>> /\ Len(y.queue) = 1
      /\ owed = Head(y.queue) - y.sent /\ owed > 0 /\ owed \in Nat
      /\ Head(y.queue) \in Nat /\ y.sent \in Nat
  <2>1. y.queue \in Seq(Sizes) /\ y.sent \in Nat /\ Len(y.queue) \in Nat /\ Len(l[e].in) \in Nat
    BY <1>1, ServerFields, LinkFields
  <2>2. Len(y.queue) # 0
    BY <2>1
  <2>3. Len(l[e].in) + Len(y.queue) <= 1
    BY DEF Good, Kept, Queued
  <2>4. Len(l[e].in) = 0 /\ Len(y.queue) = 1
    <3>. DEFINE a == Len(l[e].in)
                b == Len(y.queue)
    <3>1. a \in Nat /\ b \in Nat /\ b # 0 /\ a + b <= 1
      BY <2>1, <2>2, <2>3
    <3>. HIDE DEF a, b
    <3>2. a = 0 /\ b = 1
      BY <3>1
    <3>. QED  BY <3>2 DEF a, b
  <2>5. l[e].in = <<>>
    <3>1. l[e].in \in Seq(Int)
      BY <1>1, LinkFields
    <3>. QED  BY <2>4, <3>1
  <2>6. Head(y.queue) \in Sizes
    BY <2>1
  <2>7. Head(y.queue) \in Nat /\ y.sent < Head(y.queue)
    BY <2>6, SizesAreNatural DEF Good, Kept, Queued
  <2>8. owed = Head(y.queue) - y.sent
    BY DEF Owed
  <2>. HIDE DEF owed
  <2>. QED  BY <2>1, <2>4, <2>5, <2>7, <2>8
<1>. HIDE DEF e, owed
<1>3. data \in Seq(Int) /\ Len(data) = owed
  BY <1>2 DEF Data
<1>. HIDE DEF data
<1>4. /\ n \in 0 .. owed
      /\ Len(l[Peer(e)].in) + n <= Room
      /\ l[e].state # "open" \/ l[e].reset => n = 0
  BY <1>1, <1>2, TakenFacts
<1>5. n = Taken(l, e, Len(data))
  BY <1>3
<1>. HIDE DEF n
<1>6. /\ k \in Link /\ k[e].state = l[e].state /\ k[e].in = l[e].in
      /\ SameEnd(l["near"], k["near"])
      /\ n = 0 \/ l["near"].state # "closed" => SameEnd(l[e], k[e])
      /\ n > 0 /\ l["near"].state = "closed" => k[e].reset
      /\ n = 0 \/ l["near"].state = "closed" => k["near"] = l["near"]
      /\ n > 0 /\ l["near"].state # "closed" => k["near"].in = l["near"].in \o SubSeq(data, 1, n)
  <2>1. /\ k \in Link /\ k[e].state = l[e].state /\ k[e].in = l[e].in
        /\ SameEnd(l[Peer(e)], k[Peer(e)])
        /\ n = 0 \/ l[Peer(e)].state # "closed" => SameEnd(l[e], k[e])
        /\ n > 0 /\ l[Peer(e)].state = "closed" => k[e].reset
        /\ n = 0 \/ l[Peer(e)].state = "closed" => k[Peer(e)] = l[Peer(e)]
        /\ n > 0 /\ l[Peer(e)].state # "closed" => k[Peer(e)].in = l[Peer(e)].in \o SubSeq(data, 1, n)
    <3>1. l \in Link /\ Roomy(l) /\ e \in Ends /\ data \in Seq(Int)
      BY <1>1, <1>3
    <3>. QED  BY <1>5, <3>1, SendFacts
  <2>. HIDE DEF k
  <2>. QED  BY <1>1, <2>1
<1>. HIDE DEF k
<1>7. n \in Nat /\ n <= owed
  BY <1>2, <1>4
<1>8. l["near"].state # "closed" => Len(k["near"].in) = Len(l["near"].in) + n
  <2>1. CASE n = 0
    BY <1>6, <2>1, LinkFields, <1>1
  <2>2. CASE n > 0
    <3>1. SubSeq(data, 1, n) \in Seq(Int) /\ Len(SubSeq(data, 1, n)) = n
      BY <1>3, <1>4, FirstPart
    <3>2. l["near"].in \in Seq(Int)
      BY <1>1, LinkFields
    <3>3. Len(l["near"].in \o SubSeq(data, 1, n)) = Len(l["near"].in) + Len(SubSeq(data, 1, n))
      BY <3>1, <3>2, ConcatProperties
    <3>. QED  BY <1>6, <2>2, <3>1, <3>3
  <2>. QED  BY <1>7, <2>1, <2>2
<1>9. n > 0 => l[e].state = "open"
  BY <1>4
<1>10. Linked(k)
  <2>1. Roomy(k)
    <3>1. Len(k["near"].in) <= Room
      BY <1>1, <1>4, <1>6, <1>8 DEF Roomy
    <3>2. Len(k[e].in) <= Room
      BY <1>1, <1>6 DEF Roomy
    <3>. QED  BY <1>1, <3>1, <3>2 DEF Roomy, Ends
  <2>2. l["near"].state \notin {"none", "connecting"}
    BY <1>1, ClosedEndFacts DEF Linked, HasFd
  <2>. QED  BY <1>1, <1>6, <2>1, <2>2 DEF Linked, SameEnd
<1>11. Blamed(k, y.host, f) /\ Noticed(k, p, f)
  <2>1. n = 0 \/ l["near"].state # "closed" => SameEnd(l[e], k[e])
    BY <1>6
  <2>2. HasFd(k, "near") <=> HasFd(l, "near")
    BY <1>6 DEF HasFd, SameEnd
  <2>3. HasFd(l, "near") => l["near"].state # "closed"
    BY DEF HasFd
  <2>4. Blamed(l, y.host, f) /\ Noticed(l, p, f)
    BY DEF Good, Kept
  <2>5. Blamed(k, y.host, f)
    BY <1>1, <1>6, <2>1, <2>2, <2>3, <2>4 DEF Blamed, Broken, SameEnd
  <2>. QED  BY <1>6, <2>2, <2>4, <2>5 DEF Noticed, SameEnd
<1>12. ASSUME NEW z, z \in Server, z.host.running = y.host.running,
              \/ z.queue = y.queue /\ z.sent = y.sent + n /\ n < owed
              \/ z.queue = <<>> /\ z.sent = 0 /\ n = owed
       PROVE  Good(k, p, z, f)
  <2>1. Blamed(k, z.host, f)
    BY <1>11, <1>12 DEF Blamed
  <2>2. /\ Queued(k, z) /\ Owed(z) = owed - n
    <3>1. k["far"].in \in Seq(Sizes) /\ Len(k["far"].in) = 0
      BY <1>1, <1>2, <1>6, EmptySeq
    <3>2. CASE z.queue = y.queue /\ z.sent = y.sent + n /\ n < owed
      <4>1. z.sent < Head(z.queue) /\ Head(z.queue) - z.sent = owed - n
        BY <1>2, <1>7, <3>2
      <4>2. z.queue # <<>> /\ Len(k["far"].in) + Len(z.queue) <= 1
        <5>1. z.queue # <<>> /\ Len(z.queue) = 1
          BY <1>2, <3>2
        <5>. QED  BY <3>1, <5>1
      <4>. QED  BY <1>12, <3>1, <4>1, <4>2 DEF Queued, Owed
    <3>3. CASE z.queue = <<>> /\ z.sent = 0 /\ n = owed
      BY <1>2, <1>7, <1>12, <3>1, <3>3 DEF Queued, Owed
    <3>. QED  BY <1>12, <3>2, <3>3
  <2>3. Session(k, p, z)
    <3>1. Session(l, p, y) /\ ~ Idle(l, y)
      BY DEF Good, Idle
    <3>2. p.status # "connecting"
      BY <3>1 DEF Session
    <3>3. p.status = "disconnected" => ~ HasFd(k, "near")
      BY <1>6, <3>1 DEF Session, HasFd, SameEnd
    <3>4. ASSUME p.status = "connected"
          PROVE  k["near"].state = "open" /\ p.player # "not_started" /\ Asking(k, p, z)
      <4>1. l["near"].state = "open" /\ p.player # "not_started" /\ Asking(l, p, y)
        BY <3>1, <3>4 DEF Session
      <4>2. "request" \notin p.alarms /\ Accounted(l, p, y)
        BY <3>1, <4>1 DEF Asking
      <4>3. Len(k["near"].in) = Len(l["near"].in) + n
        BY <1>8, <4>1
      <4>4. Sound(k) <=> Sound(l)
        BY <1>1, <1>6, <4>1 DEF Sound, Ends, SameEnd
      <4>5. Wanted(k) = 0 /\ Wanted(l) = 0
        BY <1>1, <1>2, <1>6 DEF Wanted
      <4>6. p.read \in Nat /\ Len(l["near"].in) \in Nat
        BY <1>1, ClientFields, LinkFields
      <4>7. Accounted(k, p, z)
        <5>. DEFINE a == Len(l["near"].in)
                    b == Len(k["near"].in)
        <5>1. a \in Nat /\ b = a + n /\ n \in Nat /\ owed \in Nat /\ p.read \in Nat
          BY <1>2, <1>7, <4>3, <4>6
        <5>2. /\ p.index = p.count + 1 /\ p.size \in Sizes /\ p.read + a + 0 + owed <= p.size
              /\ Sound(l) => p.read + a + 0 + owed = p.size
          BY <4>2, <4>5 DEF Accounted, owed
        <5>. HIDE DEF a, b
        <5>3. p.read + a + 0 + owed = p.read + b + 0 + (owed - n)
          BY <5>1
        <5>. QED  BY <2>2, <4>4, <4>5, <5>2, <5>3 DEF Accounted, b
      <4>. QED  BY <1>6, <4>1, <4>2, <4>7 DEF Asking, SameEnd
    <3>. QED  BY <3>2, <3>3, <3>4 DEF Session
  <2>. QED  BY <1>10, <1>11, <2>1, <2>2, <2>3 DEF Good, Kept
<1>13. \A z : /\ z \in Server /\ z.host.running = y.host.running
              /\ \/ z.queue = y.queue /\ z.sent = y.sent + n /\ n < owed
                 \/ z.queue = <<>> /\ z.sent = 0 /\ n = owed
              => Good(k, p, z, f)
  BY <1>12
<1>. QED  BY <1>2, <1>4, <1>6, <1>13 DEF e, k, n, data, owed

LEMMA AnswerFirstGood ==
  ASSUME NEW x \in ServerStates, NEW p, NEW f, Good(x.link, p, x.s, f),
         x.s.queue # <<>>, HasFd(x.link, "far")
  PROVE  LET r == AnswerFirst(x) IN r \in ServerStates /\ Good(r.link, p, r.s, f)
<1>. DEFINE l == x.link
            y == x.s
            owed == Owed(y)
            n == Taken(l, "far", owed)
            k == Send(l, "far", [i \in 1 .. owed |-> Data])
            sent == [x EXCEPT !.link = k]
            more == [y EXCEPT !.sent = @ + n]
            done == [y EXCEPT !.queue = Tail(@), !.sent = 0, !.out = Len(y.queue) > 1]
            r == AnswerFirst(x)
<1>1. l \in Link /\ y \in Server
  BY DEF ServerStates
<1>2. /\ owed \in Nat /\ n \in 0 .. owed /\ k \in Link
      /\ \A z : /\ z \in Server /\ z.host.running = y.host.running
                /\ \/ z.queue = y.queue /\ z.sent = y.sent + n /\ n < owed
                   \/ z.queue = <<>> /\ z.sent = 0 /\ n = owed
                => Good(k, p, z, f)
  BY AnswerSent
<1>3. owed = Head(y.queue) - y.sent
  BY DEF Owed
<1>4. r = IF RaisesSigpipe(l, "far") THEN ServerEnds(x)
          ELSE IF n < owed THEN [sent EXCEPT !.s = more]
          ELSE [sent EXCEPT !.s = done]
  <2>1. sent.s = y
    BY DEF ServerStates
  <2>. HIDE DEF owed
  <2>2. r = IF RaisesSigpipe(l, "far") THEN ServerEnds(x)
            ELSE IF n < owed THEN [sent EXCEPT !.s.sent = @ + n]
            ELSE [sent EXCEPT !.s.queue = Tail(@), !.s.sent = 0, !.s.out = Len(y.queue) > 1]
    BY <1>3 DEF AnswerFirst
  <2>. HIDE DEF r, sent, n, k
  <2>. QED  BY <2>1, <2>2
<1>. HIDE DEF owed, n, k
<1>5. sent \in ServerStates /\ sent.link = k /\ sent.s = y
  BY <1>1, <1>2 DEF ServerStates
<1>. HIDE DEF sent, r
<1>6. CASE RaisesSigpipe(l, "far")
  <2>1. HasFd(l, "near") => f # {}
    BY <1>6 DEF RaisesSigpipe, Good, Kept, Blamed, Broken
  <2>2. ServerEnds(x) \in ServerStates /\ Good(ServerEnds(x).link, p, ServerEnds(x).s, f)
    BY <2>1, ServerEndsGood
  <2>. QED  BY <1>4, <1>6, <2>2 DEF r
<1>7. CASE ~ RaisesSigpipe(l, "far") /\ n < owed
  <2>1. y.sent + n \in Nat
    BY <1>1, <1>2, ServerFields
  <2>2. more \in Server /\ more.queue = y.queue /\ more.sent = y.sent + n /\ more.host = y.host
    BY <1>1, <2>1 DEF Server
  <2>. HIDE DEF more
  <2>3. Good(k, p, more, f)
    BY <1>2, <1>7, <2>2
  <2>4. r = [sent EXCEPT !.s = more]
    BY <1>4, <1>7
  <2>5. r \in ServerStates /\ r.link = k /\ r.s = more
    BY <1>2, <1>5, <2>2, <2>4 DEF ServerStates
  <2>. QED  BY <2>3, <2>5 DEF r
<1>8. CASE ~ RaisesSigpipe(l, "far") /\ ~ (n < owed)
  <2>1. Len(y.queue) = 1 /\ y.queue \in Seq(Sizes)
    <3>1. Len(y.queue) \in Nat /\ Len(l["far"].in) \in Nat /\ y.queue \in Seq(Sizes)
      BY <1>1, ServerFields, LinkFields DEF Ends
    <3>2. Len(y.queue) # 0
      BY <3>1
    <3>3. Len(l["far"].in) + Len(y.queue) <= 1
      BY DEF Good, Kept, Queued
    <3>. DEFINE a == Len(l["far"].in)
                b == Len(y.queue)
    <3>4. a \in Nat /\ b \in Nat /\ b # 0 /\ a + b <= 1
      BY <3>1, <3>2, <3>3
    <3>. HIDE DEF a, b
    <3>5. b = 1
      BY <3>4
    <3>. QED  BY <3>1, <3>5 DEF b
  <2>2. Tail(y.queue) = <<>> /\ Tail(y.queue) \in Seq(Sizes)
    <3>1. Tail(y.queue) \in Seq(Sizes) /\ Len(Tail(y.queue)) = Len(y.queue) - 1
      BY <2>1, HeadTailProperties
    <3>. DEFINE t == Tail(y.queue)
    <3>2. t \in Seq(Sizes) /\ Len(t) = 0
      BY <2>1, <3>1
    <3>. HIDE DEF t
    <3>3. t = <<>>
      BY <3>2, EmptySeq
    <3>. QED  BY <3>2, <3>3 DEF t
  <2>3. done \in Server /\ done.queue = <<>> /\ done.sent = 0 /\ done.host = y.host
    <3>. DEFINE flag == Len(y.queue) > 1
                rest == Tail(y.queue)
    <3>1. flag \in BOOLEAN /\ done = [y EXCEPT !.queue = rest, !.sent = 0, !.out = flag]
      OBVIOUS
    <3>. HIDE DEF flag, done, rest
    <3>2. rest = <<>> /\ rest \in Seq(Sizes)
      BY <2>2 DEF rest
    <3>. QED  BY <1>1, <3>1, <3>2 DEF Server
  <2>. HIDE DEF done
  <2>4. n = owed
    BY <1>2, <1>8
  <2>5. Good(k, p, done, f)
    BY <1>2, <2>3, <2>4
  <2>6. r = [sent EXCEPT !.s = done]
    BY <1>4, <1>8
  <2>7. r \in ServerStates /\ r.link = k /\ r.s = done
    BY <1>2, <1>5, <2>3, <2>6 DEF ServerStates
  <2>. QED  BY <2>5, <2>7 DEF r
<1>. QED  BY <1>6, <1>7, <1>8

\* With one request at most, the loop over them is one round at most.
LEMMA ResponceIsAnswer ==
  ASSUME NEW x, Len(x.s.queue) \in {0, 1}
  PROVE  Responce(x) = IF Len(x.s.queue) = 0 THEN x ELSE AnswerFirst(x)
<1>. DEFINE requests == Len(x.s.queue)
            Rounds(g) ==
              g = [k \in 0 .. requests |->
                     IF k = 0 THEN x
                     ELSE LET y == g[k - 1]
                          IN  IF Len(y.s.queue) = requests - (k - 1) THEN AnswerFirst(y) ELSE y]
            after == CHOOSE g : Rounds(g)
            one == [k \in 0 .. requests |-> IF k = 0 THEN x ELSE AnswerFirst(x)]
<1>1. Responce(x) = after[requests]
  BY DEF Responce
<1>2. Rounds(one)
  <2>1. ASSUME NEW k \in 0 .. requests, k # 0
        PROVE  one[k - 1] = x /\ Len(x.s.queue) = requests - (k - 1) /\ one[k] = AnswerFirst(x)
    <3>1. k = 1 /\ requests = 1
      BY <2>1
    <3>. QED  BY <3>1
  <2>. QED  BY <2>1
<1>3. Rounds(after)
  BY <1>2
<1>. HIDE DEF after
<1>4. after[0] = x
  BY <1>3
<1>5. CASE requests = 0
  BY <1>1, <1>4, <1>5
<1>6. CASE requests = 1
  <2>0. \A k \in 0 .. requests :
          after[k] = IF k = 0 THEN x
                     ELSE LET y == after[k - 1]
                          IN  IF Len(y.s.queue) = requests - (k - 1) THEN AnswerFirst(y) ELSE y
    BY <1>3
  <2>. HIDE DEF Rounds
  <2>1. after[1] = LET y == after[1 - 1]
                   IN  IF Len(y.s.queue) = requests - (1 - 1) THEN AnswerFirst(y) ELSE y
    <3>1. 1 \in 0 .. requests /\ 1 # 0
      BY <1>6
    <3>. HIDE DEF requests
    <3>. QED  BY <2>0, <3>1
  <2>2. after[1 - 1] = x /\ requests - (1 - 1) = requests
    BY <1>4, <1>6
  <2>3. after[1] = AnswerFirst(x)
    BY <2>1, <2>2
  <2>. QED  BY <1>1, <1>6, <2>3
<1>. QED  BY <1>5, <1>6

LEMMA ResponceGood ==
  ASSUME NEW x \in ServerStates, NEW p, NEW f, Good(x.link, p, x.s, f), HasFd(x.link, "far")
  PROVE  LET r == Responce(x) IN r \in ServerStates /\ Good(r.link, p, r.s, f)
<1>1. Len(x.s.queue) \in {0, 1} /\ (Len(x.s.queue) # 0 => x.s.queue # <<>>)
  <2>. DEFINE a == Len(x.link["far"].in)
              b == Len(x.s.queue)
  <2>1. a \in Nat /\ b \in Nat
    BY ServerFields, LinkFields DEF Ends, ServerStates
  <2>2. a + b <= 1
    BY DEF Good, Kept, Queued
  <2>. HIDE DEF a, b
  <2>3. b \in {0, 1}
    BY <2>1, <2>2
  <2>. QED  BY <2>3 DEF b
<1>2. CASE Len(x.s.queue) = 0
  BY <1>1, <1>2, ResponceIsAnswer
<1>3. CASE Len(x.s.queue) # 0
  <2>1. AnswerFirst(x) \in ServerStates /\ Good(AnswerFirst(x).link, p, AnswerFirst(x).s, f)
    BY <1>1, <1>3, AnswerFirstGood
  <2>2. Responce(x) = AnswerFirst(x)
    BY <1>1, <1>3, ResponceIsAnswer
  <2>. QED  BY <2>1, <2>2
<1>. QED  BY <1>2, <1>3

\* A request that has come is the only one; it waits to be answered.
LEMMA RequestTaken ==
  ASSUME NEW l, NEW p, NEW y, NEW f, Good(l, p, y, f), l["far"].in # <<>>,
         NEW z \in Server, z.queue = Append(y.queue, Head(l["far"].in)), z.sent = y.sent, z.host = y.host
  PROVE  LET k == Consume(l, "far", Len(l["far"].in))
         IN  k \in Link /\ k["far"].state = l["far"].state /\ Good(k, p, z, f)
<1>. DEFINE e == "far"
            u == l[e].in
            k == Consume(l, e, Len(l[e].in))
<1>1. /\ l \in Link /\ Linked(l) /\ y \in Server /\ p \in Client
      /\ e \in Ends /\ "near" \in Ends /\ Peer(e) = "near" /\ e = "far"
  BY DEF Good, Kept, Linked, Queued, Playing, Ends, Peer
<1>2. u \in Seq(Sizes) /\ u # <<>> /\ Len(u) + Len(y.queue) <= 1 /\ (y.queue = <<>> => y.sent = 0)
  BY DEF Good, Kept, Queued
<1>. HIDE DEF e
<1>3. k \in Link /\ k["near"] = l["near"] /\ SameEnd(l[e], k[e]) /\ k[e].in = <<>>
  <2>1. k \in Link /\ k[Peer(e)] = l[Peer(e)] /\ SameEnd(l[e], k[e]) /\ k[e].in = <<>>
    BY <1>1, ConsumeFacts
  <2>. HIDE DEF k
  <2>. QED  BY <1>1, <2>1
<1>. HIDE DEF k
<1>4. y.queue = <<>> /\ y.sent = 0
  <2>. DEFINE a == Len(u)
              b == Len(y.queue)
  <2>1. a \in Nat /\ b \in Nat
    BY <1>1, <1>2, ServerFields
  <2>2. a # 0
    BY <1>2, EmptySeq
  <2>3. a + b <= 1
    BY <1>2
  <2>. HIDE DEF a, b
  <2>4. b = 0
    BY <2>1, <2>2, <2>3
  <2>5. y.queue \in Seq(Sizes)
    BY <1>1, ServerFields
  <2>6. y.queue = <<>>
    BY <2>4, <2>5 DEF b
  <2>. QED  BY <1>2, <2>6
<1>5. Head(u) \in Sizes /\ Head(u) \in Nat \ {0}
  <2>1. Head(u) \in Sizes
    BY <1>2
  <2>. QED  BY <2>1, SizesAreNatural
<1>. HIDE DEF u
<1>6. z.queue = <<Head(u)>> /\ z.sent = 0 /\ Head(z.queue) = Head(u) /\ z.queue # <<>> /\ Len(z.queue) = 1
  <2>1. z.queue = Append(<<>>, Head(u))
    BY <1>1, <1>4 DEF u
  <2>2. Append(<<>>, Head(u)) = <<Head(u)>>
    OBVIOUS
  <2>3. z.queue = <<Head(u)>>
    BY <2>1, <2>2
  <2>. QED  BY <1>4, <2>3
<1>7. Linked(k)
  <2>1. Roomy(k)
    BY <1>1, <1>3, RoomAssumption DEF Linked, Roomy, Ends
  <2>2. l["near"].state \notin {"none", "connecting"}
    BY <1>1, <1>2, ClosedEndFacts DEF Linked, u
  <2>. QED  BY <1>1, <1>3, <2>1, <2>2 DEF Linked, SameEnd
<1>8. Blamed(k, z.host, f) /\ Noticed(k, p, f)
  <2>1. Blamed(l, y.host, f) /\ Noticed(l, p, f)
    BY DEF Good, Kept
  <2>2. HasFd(k, "near") <=> HasFd(l, "near")
    BY <1>3 DEF HasFd
  <2>3. Blamed(k, z.host, f)
    BY <1>1, <1>3, <2>1, <2>2 DEF Blamed, Broken, SameEnd
  <2>. QED  BY <1>3, <2>1, <2>2, <2>3 DEF Noticed
<1>9. Queued(k, z)
  <2>1. k["far"].in = <<>> /\ k["far"].in \in Seq(Sizes) /\ Len(k["far"].in) = 0
    BY <1>1, <1>3, EmptySeq
  <2>. QED  BY <1>5, <1>6, <2>1 DEF Queued
<1>10. Session(k, p, z)
  <2>1. Session(l, p, y) /\ ~ Idle(l, y)
    BY <1>1, <1>2 DEF Good, Idle, u
  <2>2. ASSUME p.status = "connected"
        PROVE  Asking(k, p, z)
    <3>1. "request" \notin p.alarms /\ Accounted(l, p, y)
      BY <2>1, <2>2 DEF Session, Asking
    <3>2. Wanted(l) = Head(u) /\ Owed(y) = 0 /\ Wanted(k) = 0 /\ Owed(z) = Head(u)
      BY <1>1, <1>2, <1>3, <1>4, <1>5, <1>6 DEF Wanted, Owed, u
    <3>3. Sound(k) <=> Sound(l)
      BY <1>1, <1>3 DEF Sound, Ends, SameEnd
    <3>4. Accounted(k, p, z)
      <4>. DEFINE a == p.read + Len(l["near"].in)
      <4>1. a \in Nat
        BY <1>1, ClientFields, LinkFields
      <4>2. /\ p.index = p.count + 1 /\ p.size \in Sizes /\ a + Head(u) + 0 <= p.size
            /\ Sound(l) => a + Head(u) + 0 = p.size
        BY <3>1, <3>2 DEF Accounted
      <4>3. p.read + Len(k["near"].in) = a
        BY <1>3
      <4>. HIDE DEF a
      <4>4. a + Head(u) + 0 = a + 0 + Head(u)
        BY <1>5, <4>1
      <4>. QED  BY <3>2, <3>3, <4>2, <4>3, <4>4 DEF Accounted
    <3>. QED  BY <3>1, <3>4 DEF Asking
  <2>. QED  BY <1>3, <2>1, <2>2 DEF Session, HasFd
<1>11. k["far"].state = l["far"].state
  BY <1>1, <1>3 DEF SameEnd
<1>. QED  BY <1>3, <1>7, <1>8, <1>9, <1>10, <1>11 DEF Good, Kept, k, e

LEMMA TakeRequestGood ==
  ASSUME NEW x \in ServerStates, NEW p, NEW f, Good(x.link, p, x.s, f), HasFd(x.link, "far")
  PROVE  LET r == TakeRequest(x) IN r \in ServerStates /\ Good(r.link, p, r.s, f)
<1>. DEFINE l == x.link
            y == x.s
            u == l["far"].in
            k == Consume(l, "far", Len(l["far"].in))
            z == [y EXCEPT !.queue = Append(@, Head(u)), !.edge = FALSE, !.out = TRUE]
            w == [x EXCEPT !.link = k, !.s = z]
            r == TakeRequest(x)
<1>1. l \in Link /\ y \in Server
  BY DEF ServerStates
<1>2. CASE u = <<>>
  BY <1>2 DEF TakeRequest
<1>3. CASE u # <<>>
  <2>1. r = Responce(w)
    BY <1>3 DEF TakeRequest, ServerStates
  <2>2. u \in Seq(Sizes) /\ y.queue \in Seq(Sizes)
    BY <1>1, ServerFields DEF Good, Kept, Queued
  <2>3. Append(y.queue, Head(u)) \in Seq(Sizes)
    <3>1. Head(u) \in Sizes
      BY <1>3, <2>2
    <3>. QED  BY <2>2, <3>1, AppendProperties
  <2>4. /\ z \in Server /\ z.queue = Append(y.queue, Head(u)) /\ z.sent = y.sent /\ z.host = y.host
    BY <1>1, <2>3 DEF Server
  <2>. HIDE DEF z
  <2>5. k \in Link /\ k["far"].state = l["far"].state /\ Good(k, p, z, f)
    BY <1>3, <2>4, RequestTaken
  <2>. HIDE DEF k
  <2>6. w \in ServerStates /\ w.link = k /\ w.s = z
    BY <1>1, <2>4, <2>5 DEF ServerStates
  <2>. HIDE DEF w, r
  <2>7. HasFd(w.link, "far") /\ Good(w.link, p, w.s, f)
    BY <2>5, <2>6 DEF HasFd
  <2>8. Responce(w) \in ServerStates /\ Good(Responce(w).link, p, Responce(w).s, f)
    BY <2>6, <2>7, ResponceGood
  <2>. QED  BY <2>1, <2>8 DEF r
<1>. QED  BY <1>2, <1>3

\* An error that a read returns does not change what is on the way.
LEMMA ErrorReadGood ==
  ASSUME NEW l, NEW p, NEW y, NEW f, Good(l, p, y, f)
  PROVE  LET k == ErrorRead(l, "far") IN k \in Link /\ Good(k, p, y, f)
<1>. DEFINE e == "far"
            k == ErrorRead(l, e)
<1>1. /\ l \in Link /\ Linked(l)
      /\ e \in Ends /\ "near" \in Ends /\ Peer(e) = "near" /\ e = "far"
  BY DEF Good, Kept, Linked, Ends, Peer
<1>. HIDE DEF e
<1>2. k \in Link /\ k["near"] = l["near"] /\ SameEnd(l[e], k[e]) /\ k[e].in = l[e].in
  <2>1. k \in Link /\ k[Peer(e)] = l[Peer(e)] /\ SameEnd(l[e], k[e]) /\ k[e].in = l[e].in
    BY <1>1, ErrorReadFacts
  <2>. HIDE DEF k
  <2>. QED  BY <1>1, <2>1
<1>. HIDE DEF k
<1>3. Linked(l) /\ Blamed(l, y.host, f) /\ Queued(l, y) /\ Noticed(l, p, f) /\ Session(l, p, y)
  BY DEF Good, Kept
<1>4. CASE l["near"].state \in {"none", "connecting"}
  <2>1. l["far"] = NoEnd
    BY <1>1, <1>4 DEF Linked
  <2>2. k = Put(l, "far", [NoEnd EXCEPT !.error = FALSE])
    BY <1>1, <2>1 DEF k, ErrorRead, Put
  <2>3. [NoEnd EXCEPT !.error = FALSE] = NoEnd
    <3>1. NoEnd \in End /\ NoEnd.error = FALSE
      BY ClosedEndFacts DEF NoEnd
    <3>. QED  BY <3>1 DEF End
  <2>4. k = l
    BY <1>1, <2>1, <2>2, <2>3 DEF Put, Link, Ends
  <2>. QED  BY <1>1, <2>4 DEF k, e
<1>5. CASE l["near"].state \notin {"none", "connecting"}
  <2>1. Linked(k)
    BY <1>1, <1>2, <1>3, <1>5 DEF Linked, Roomy, Ends, SameEnd
  <2>2. Blamed(k, y.host, f)
    BY <1>1, <1>2, <1>3 DEF Blamed, SameEnd, HasFd, Broken
  <2>3. Queued(k, y) /\ Noticed(k, p, f)
    BY <1>1, <1>2, <1>3 DEF Queued, Noticed, HasFd
  <2>4. Sound(k) <=> Sound(l)
    BY <1>1, <1>2 DEF Sound, Ends, SameEnd
  <2>5. Accounted(l, p, y) => Accounted(k, p, y)
    BY <1>1, <1>2, <2>4 DEF Accounted, Wanted
  <2>6. Session(k, p, y)
    BY <1>1, <1>2, <1>3, <2>5 DEF Session, Asking, Idle, HasFd
  <2>7. Good(k, p, y, f)
    BY <2>1, <2>2, <2>3, <2>6 DEF Good, Kept
  <2>. QED  BY <1>2, <2>7 DEF k, e
<1>. QED  BY <1>4, <1>5

LEMMA EndpointReadEventGood ==
  ASSUME NEW x \in ServerStates, NEW p, NEW f, Good(x.link, p, x.s, f), HasFd(x.link, "far")
  PROVE  LET r == EndpointReadEvent(x) IN r \in ServerStates /\ Good(r.link, p, r.s, f)
<1>. DEFINE v == TakeRequest(x)
            r == EndpointReadEvent(x)
            k == ErrorRead(v.link, "far")
<1>1. v \in ServerStates /\ Good(v.link, p, v.s, f)
  BY TakeRequestGood
<1>2. r = IF ~ HasFd(v.link, "far") THEN v
          ELSE IF ReadsEnd(v.link, "far") THEN OnUnregistration(v)
          ELSE IF ReadFails(v.link, "far") THEN [v EXCEPT !.link = k]
          ELSE v
  BY DEF EndpointReadEvent
<1>. HIDE DEF v
<1>3. CASE HasFd(v.link, "far") /\ ReadsEnd(v.link, "far")
  <2>1. HasFd(v.link, "near") => f # {}
    BY <1>1, <1>3 DEF ReadsEnd, Good, Kept, Blamed, Broken
  <2>2. OnUnregistration(v) \in ServerStates /\ Good(OnUnregistration(v).link, p, OnUnregistration(v).s, f)
    BY <1>1, <2>1, OnUnregistrationGood
  <2>3. r = OnUnregistration(v)
    BY <1>2, <1>3
  <2>. QED  BY <2>2, <2>3
<1>4. CASE r = [v EXCEPT !.link = k]
  <2>1. k \in Link /\ Good(k, p, v.s, f)
    BY <1>1, ErrorReadGood
  <2>. HIDE DEF k, r
  <2>2. r \in ServerStates /\ r.link = k /\ r.s = v.s
    BY <1>1, <1>4, <2>1 DEF ServerStates
  <2>. QED  BY <2>1, <2>2 DEF r
<1>5. CASE r = v
  BY <1>1, <1>5
<1>. HIDE DEF r, k
<1>. QED  BY <1>2, <1>3, <1>4, <1>5 DEF r

-------------------------------------------------------------------------------
(* The steps of the client. *)

\* What a step of the client's loop leaves alone: all but pc, running, the report and due.
SamePlayer(p, q) ==
  /\ q \in Client /\ q.due \subseteq q.alarms
  /\ q.status = p.status /\ q.player = p.player /\ q.alarms = p.alarms /\ q.index = p.index
  /\ q.size = p.size /\ q.read = p.read /\ q.inBuffer = p.inBuffer /\ q.played = p.played
  /\ q.count = p.count

LEMMA SamePlayerGood ==
  ASSUME NEW l, NEW p, NEW q, NEW y, NEW f, Good(l, p, y, f), SamePlayer(p, q), Noticed(l, q, f)
  PROVE  Good(l, q, y, f)
<1>1. Playing(q, f)
  BY DEF Good, Kept, Playing, SamePlayer
<1>2. Accounted(l, p, y) => Accounted(l, q, y)
  BY DEF Accounted, SamePlayer
<1>3. Session(l, q, y)
  BY <1>2 DEF Good, Session, Asking, Fresh, SamePlayer
<1>. QED  BY <1>1, <1>3 DEF Good, Kept

LEMMA StatesGood ==
  ASSUME DashInv
  PROVE  /\ link \in Link /\ c \in Client /\ s \in Server
         /\ ClientState \in ClientStates /\ ClientState.link = link /\ ClientState.c = c
         /\ ServerState \in ServerStates /\ ServerState.link = link /\ ServerState.s = s
<1>1. link \in Link /\ c \in Client /\ s \in Server
  BY DEF DashInv, Good, Kept, Linked, Playing, Queued
<1>. QED  BY <1>1 DEF ClientState, ServerState, ClientStates, ServerStates

LEMMA WaitForEventsGood ==
  ASSUME DashInv, WaitForEvents
  PROVE  DashInv'
<1>. DEFINE report == Reported(link, "near", Mask)
<1>1. PICK due \in SUBSET c.alarms :
        ClientDoes([link |-> link, c |-> [c EXCEPT !.pc = "serve", !.report = report, !.due = due]])
  BY DEF WaitForEvents
<1>. DEFINE q == [c EXCEPT !.pc = "serve", !.report = report, !.due = due]
<1>2. link' = link /\ c' = q /\ s' = s /\ faults' = faults
  BY <1>1 DEF ClientDoes
<1>3. c \in Client /\ c.alarms \subseteq Alarms
  BY StatesGood, ClientFields
<1>4. report \subseteq {"IN", "OUT", "RDHUP", "HUP"}
  BY DEF Reported, Ready
<1>5. HasFd(link, "near") \/ report = {}
  BY DEF Reported
<1>6. report \cap {"RDHUP", "HUP"} # {} => faults # {}
  <2>1. report \cap {"RDHUP", "HUP"} # {} => Broken(link["near"])
    BY DEF Reported, Ready, Broken
  <2>. QED  BY <1>5, <2>1 DEF DashInv, Good, Kept, Blamed
<1>7. "OUT" \in report /\ "HUP" \notin report => link["near"].state = "open"
  BY DEF Reported, Ready
<1>. HIDE DEF report
<1>8. /\ SamePlayer(c, q) /\ q.report = report
  BY <1>3, <1>4 DEF SamePlayer, Client
<1>. HIDE DEF q
<1>9. Noticed(link, q, faults)
  BY <1>6, <1>7, <1>8 DEF Noticed
<1>10. Good(link, q, s, faults)
  BY <1>8, <1>9, SamePlayerGood DEF DashInv
<1>. QED  BY <1>2, <1>10 DEF DashInv

LEMMA ServeEventsGood ==
  ASSUME DashInv, ServeEvents
  PROVE  DashInv'
<1>1. PICK x \in OnEvent(ClientState, c.report) :
        ClientDoes([x EXCEPT !.c.report = {}, !.c.pc = IF @ = "serve" THEN "alarms" ELSE @])
  BY DEF ServeEvents
<1>2. x \in ClientStates /\ Good(x.link, x.c, s, faults)
  <2>1. ClientState \in ClientStates /\ ClientState.link = link /\ ClientState.c = c
    BY StatesGood
  <2>2. Good(ClientState.link, ClientState.c, s, faults) /\ x \in OnEvent(ClientState, ClientState.c.report)
    BY <1>1, <2>1 DEF DashInv
  <2>. QED  BY <2>1, <2>2, OnEventGood
<1>. DEFINE p == x.c
            q == [p EXCEPT !.report = {}, !.pc = IF @ = "serve" THEN "alarms" ELSE @]
<1>3. x.link \in Link /\ p \in Client
  BY <1>2 DEF ClientStates
<1>4. link' = x.link /\ c' = q /\ s' = s /\ faults' = faults
  BY <1>1, <1>2, <1>3 DEF ClientDoes, ClientStates
<1>5. SamePlayer(p, q) /\ q.report = {}
  <2>1. p.due \subseteq p.alarms
    BY <1>2 DEF Good, Kept, Playing
  <2>2. (IF p.pc = "serve" THEN "alarms" ELSE p.pc)
          \in {"wait", "serve", "alarms", "ended", "killed", "spins", "aborted"}
    BY <1>3 DEF Client
  <2>. QED  BY <1>3, <2>1, <2>2 DEF SamePlayer, Client
<1>. HIDE DEF q
<1>6. Noticed(x.link, q, faults)
  BY <1>5 DEF Noticed
<1>7. Good(x.link, q, s, faults)
  BY <1>2, <1>5, <1>6, SamePlayerGood
<1>. QED  BY <1>4, <1>7 DEF DashInv

\* The play back alarm is set only by a player that has started, and has its frame.
LEMMA PlayerAlarmGood ==
  ASSUME DashInv, CallAlarm("player")
  PROVE  DashInv'
<1>. DEFINE p == [c EXCEPT !.due = @ \ {"player"}, !.alarms = @ \ {"player"}]
            q == PlayOn(p)
<1>1. c \in Client /\ link \in Link /\ "player" \in c.due /\ Playing(c, faults) /\ c.alarms \subseteq Alarms
  BY StatesGood, ClientFields DEF CallAlarm, DashInv, Good, Kept
<1>2. link' = link /\ c' = q /\ s' = s /\ faults' = faults
  BY <1>1, StatesGood DEF CallAlarm, ClientDoes, PlayBackHandle, ClientState
<1>3. /\ p \in Client /\ p.due = c.due \ {"player"} /\ p.alarms = c.alarms \ {"player"}
      /\ p.count = c.count /\ p.inBuffer = c.inBuffer /\ p.played = c.played /\ p.player = c.player
      /\ SameDownload(c, p)
  BY <1>1 DEF Client, SameDownload
<1>. HIDE DEF p
<1>4. c.player \notin {"not_started", "init_buffering"} /\ c.due \subseteq c.alarms
  BY <1>1 DEF Playing
<1>5. /\ Playing(q, faults) /\ SameDownload(p, q) /\ q.count = p.count
      /\ q.player # "not_started"
      /\ "request" \in q.alarms <=> "request" \in p.alarms
  <2>1. p.count = p.inBuffer + p.played /\ p.due \subseteq p.alarms
    BY <1>1, <1>3, <1>4 DEF Playing
  <2>2. /\ p.player = "done" => p.played = Segments \/ faults # {}
        /\ p.player \notin {"not_started", "init_buffering"}
        /\ p.player = "play" => p.inBuffer > 0
        /\ p.player = "paused" => p.inBuffer = 0 /\ p.count < Segments
    BY <1>1, <1>3, <1>4 DEF Playing
  <2>. QED  BY <1>3, <2>1, <2>2, PlayOnFacts
<1>. HIDE DEF q
<1>6. SameDownload(c, q) /\ q.count = c.count /\ ("request" \in q.alarms <=> "request" \in c.alarms)
  BY <1>3, <1>5 DEF SameDownload
<1>7. Noticed(link, q, faults)
  BY <1>6 DEF DashInv, Good, Kept, Noticed, SameDownload
<1>8. Session(link, q, s)
  <2>1. Session(link, c, s)
    BY DEF DashInv, Good
  <2>2. c.status # "connecting"
    BY <2>1, <1>1, <1>4 DEF Session, Fresh
  <2>3. Accounted(link, c, s) => Accounted(link, q, s)
    BY <1>6 DEF Accounted, SameDownload
  <2>. QED  BY <1>5, <1>6, <2>1, <2>2, <2>3 DEF Session, Asking, SameDownload
<1>9. Good(link, q, s, faults)
  BY <1>5, <1>7, <1>8 DEF DashInv, Good, Kept
<1>. QED  BY <1>2, <1>9 DEF DashInv

\* The alarm of a delayed request belongs to a client with nothing under way.
LEMMA RequestAlarmGood ==
  ASSUME DashInv, CallAlarm("request")
  PROVE  DashInv'
<1>. DEFINE p == [c EXCEPT !.due = @ \ {"request"}, !.alarms = @ \ {"request"}]
            x == [link |-> link, c |-> p]
            r == DelayRequestHandle(x)
<1>1. /\ c \in Client /\ link \in Link /\ "request" \in c.due /\ Playing(c, faults)
      /\ c.alarms \subseteq Alarms /\ Session(link, c, s)
  BY StatesGood, ClientFields DEF CallAlarm, DashInv, Good, Kept
<1>2. ClientDoes(r)
  <2>1. [ClientState EXCEPT !.c.due = @ \ {"request"}, !.c.alarms = @ \ {"request"}]
          = [ClientState EXCEPT !.c = p]
    BY StatesGood
  <2>2. x = [ClientState EXCEPT !.c = p]
    <3>. HIDE DEF p
    <3>. QED  BY DEF ClientState
  <2>. HIDE DEF x, p
  <2>. QED  BY <2>1, <2>2 DEF CallAlarm
<1>3. /\ p \in Client /\ p.due = c.due \ {"request"} /\ p.alarms = c.alarms \ {"request"}
      /\ p.count = c.count /\ p.inBuffer = c.inBuffer /\ p.played = c.played /\ p.player = c.player
      /\ SameDownload(c, p)
  BY <1>1 DEF Client, SameDownload
<1>. HIDE DEF p
<1>4. x \in ClientStates /\ x.link = link /\ x.c = p
  BY <1>1, <1>3 DEF ClientStates
<1>. HIDE DEF x, r
<1>5. "request" \in c.alarms /\ c.status # "connecting"
  BY <1>1 DEF Playing, Session, Fresh
<1>6. Kept(link, p, s, faults)
  <2>1. Playing(p, faults)
    BY <1>1, <1>3 DEF Playing
  <2>2. Noticed(link, p, faults)
    BY <1>3 DEF DashInv, Good, Kept, Noticed, SameDownload
  <2>. QED  BY <2>1, <2>2 DEF DashInv, Good, Kept
<1>7. \/ Unasked(link, p, s) /\ p.read = 0 /\ p.size \in Sizes
      \/ p.status = "disconnected" /\ ~ HasFd(link, "near")
  <2>1. CASE c.status = "connected"
    BY <1>1, <1>3, <1>5, <2>1 DEF Session, Asking, Unasked, SameDownload
  <2>2. CASE c.status = "disconnected"
    BY <1>1, <1>3, <2>2 DEF Session, SameDownload
  <2>. QED  BY <1>1, <1>5, <2>1, <2>2, ClientFields
<1>8. r \in ClientStates /\ Good(r.link, r.c, s, faults)
  BY <1>4, <1>6, <1>7, DelayRequestHandleGood DEF r
<1>. QED  BY <1>2, <1>8 DEF DashInv, ClientDoes

LEMMA EndRoundGood ==
  ASSUME DashInv, EndRound
  PROVE  DashInv'
<1>. DEFINE x == ClientState
            r == ClientEnds(x, "ended")
            q == [c EXCEPT !.pc = "wait"]
<1>1. c \in Client /\ x \in ClientStates /\ x.link = link /\ x.c = c
  BY StatesGood
<1>2. CASE ClientDoes(r)
  <2>1. HasFd(x.link, "near") \/ x.c.status = "disconnected"
    BY <1>1, ClientFields DEF DashInv, Good, Session, HasFd
  <2>2. Kept(x.link, x.c, s, faults)
    BY <1>1 DEF DashInv, Good
  <2>. HIDE DEF x
  <2>3. Good(r.link, r.c, s, faults)
    BY <1>1, <2>1, <2>2, ClientEndsGood
  <2>. QED  BY <1>2, <2>3 DEF DashInv, ClientDoes
<1>3. CASE ClientDoes([x EXCEPT !.c.pc = "wait"])
  <2>1. link' = link /\ c' = q /\ s' = s /\ faults' = faults
    BY <1>3 DEF ClientDoes, ClientState
  <2>2. SamePlayer(c, q) /\ q.report = c.report
    <3>1. c.due \subseteq c.alarms
      BY DEF DashInv, Good, Kept, Playing
    <3>. QED  BY <1>1, <3>1 DEF SamePlayer, Client
  <2>. HIDE DEF q
  <2>3. Noticed(link, q, faults)
    BY <2>2 DEF DashInv, Good, Kept, Noticed
  <2>4. Good(link, q, s, faults)
    BY <2>2, <2>3, SamePlayerGood DEF DashInv
  <2>. QED  BY <2>1, <2>4 DEF DashInv
<1>. QED  BY <1>2, <1>3 DEF EndRound

-------------------------------------------------------------------------------
(* The steps of the server. *)

LEMMA CreateEndpointGood ==
  ASSUME DashInv, CreateEndpoint
  PROVE  DashInv'
<1>. DEFINE far == link["far"]
            a == [far EXCEPT !.state = "open"]
            k == Put(link, "far", a)
            z == [s EXCEPT !.life = "live"]
<1>1. link \in Link /\ s \in Server /\ far \in End /\ "far" \in Ends /\ "near" \in Ends /\ Peer("far") = "near"
  BY StatesGood, LinkFields DEF Ends
<1>2. link' = k /\ s' = z /\ c' = c /\ faults' = faults
  BY DEF CreateEndpoint, ServerDoes, ServerState, Accept, Put
<1>3. far.state = "queued" /\ far # NoEnd
  BY ClosedEndFacts DEF CreateEndpoint
<1>4. a \in End /\ a.state = "open" /\ a.in = far.in /\ a.eof = far.eof /\ a.reset = far.reset
  BY <1>1 DEF End
<1>. HIDE DEF a
<1>5. k \in Link /\ k["far"] = a /\ k["near"] = link["near"]
  <2>1. k \in Link /\ k["far"] = a /\ k[Peer("far")] = link[Peer("far")]
    BY <1>1, <1>4, PutFacts
  <2>. QED  BY <1>1, <2>1
<1>. HIDE DEF k
<1>6. SameQueue(s, z)
  BY <1>1 DEF SameQueue, Server
<1>. HIDE DEF z
<1>7. Good(k, c, s, faults)
  <2>1. Linked(link) /\ Blamed(link, s.host, faults) /\ Queued(link, s) /\ Noticed(link, c, faults)
        /\ Session(link, c, s)
    BY DEF DashInv, Good, Kept
  <2>2. Linked(k)
    BY <1>1, <1>3, <1>4, <1>5, <2>1 DEF Linked, Roomy, Ends
  <2>3. Blamed(k, s.host, faults)
    BY <1>3, <1>4, <1>5, <2>1 DEF Blamed, HasFd, Broken
  <2>4. Queued(k, s) /\ Noticed(k, c, faults)
    BY <1>4, <1>5, <2>1 DEF Queued, Noticed, HasFd
  <2>5. Sound(k) <=> Sound(link)
    BY <1>3, <1>4, <1>5 DEF Sound, Ends
  <2>6. Accounted(link, c, s) => Accounted(k, c, s)
    BY <1>4, <1>5, <2>5 DEF Accounted, Wanted
  <2>7. Session(k, c, s)
    BY <1>4, <1>5, <2>1, <2>6 DEF Session, Asking, Idle, HasFd
  <2>. QED  BY <2>2, <2>3, <2>4, <2>7 DEF DashInv, Good, Kept
<1>8. Good(k, c, z, faults)
  BY <1>6, <1>7, SameQueueGood
<1>. QED  BY <1>2, <1>8 DEF DashInv

LEMMA EndpointOnEventGood ==
  ASSUME DashInv, EndpointOnEvent
  PROVE  DashInv'
<1>. DEFINE read == IF "IN" \in EndpointEvents THEN EndpointReadEvent(ServerState) ELSE ServerState
            r == IF "OUT" \in EndpointEvents /\ HasFd(read.link, "far") THEN Responce(read) ELSE read
<1>1. ServerDoes(r) /\ EndpointEvents # {}
  BY DEF EndpointOnEvent
<1>2. HasFd(link, "far")
  BY <1>1 DEF EndpointEvents, Reported
<1>3. ServerState \in ServerStates /\ ServerState.link = link /\ ServerState.s = s
  BY StatesGood
<1>4. read \in ServerStates /\ Good(read.link, c, read.s, faults)
  <2>1. Good(ServerState.link, c, ServerState.s, faults) /\ HasFd(ServerState.link, "far")
    BY <1>2, <1>3 DEF DashInv
  <2>2. /\ EndpointReadEvent(ServerState) \in ServerStates
        /\ Good(EndpointReadEvent(ServerState).link, c, EndpointReadEvent(ServerState).s, faults)
    BY <1>3, <2>1, EndpointReadEventGood
  <2>. QED  BY <1>3, <2>1, <2>2
<1>. HIDE DEF read
<1>5. r \in ServerStates /\ Good(r.link, c, r.s, faults)
  <2>1. HasFd(read.link, "far") =>
          Responce(read) \in ServerStates /\ Good(Responce(read).link, c, Responce(read).s, faults)
    BY <1>4, ResponceGood
  <2>. QED  BY <1>4, <2>1
<1>. HIDE DEF r
<1>. QED  BY <1>1, <1>5 DEF DashInv, ServerDoes

LEMMA RunTasksGood ==
  ASSUME DashInv, RunTasks
  PROVE  DashInv'
<1>. DEFINE h == ExecuteTask(s.host)
            z == [s EXCEPT !.life = "deleted", !.host = h]
<1>1. s \in Server
  BY StatesGood
<1>2. link' = link /\ s' = z /\ c' = c /\ faults' = faults
  BY DEF RunTasks, ServerDoes, ServerState
<1>3. h \in Context({"endpoint"}) /\ h.running = s.host.running
  BY <1>1, ServerFields, EmptySeq DEF ExecuteTask, Context
<1>. HIDE DEF h
<1>4. SameQueue(s, z)
  BY <1>1, <1>3 DEF SameQueue, Server
<1>. HIDE DEF z
<1>5. Good(link, c, z, faults)
  BY <1>4, SameQueueGood DEF DashInv
<1>. QED  BY <1>2, <1>5 DEF DashInv

\* The server ends only when it was told to.
LEMMA ServerExitsGood ==
  ASSUME DashInv, ServerExits
  PROVE  DashInv'
<1>1. ServerState \in ServerStates /\ ServerState.link = link /\ ServerState.s = s
  BY StatesGood
<1>2. faults # {}
  BY DEF ServerExits, LoopEnds, DashInv, Good, Kept, Blamed
<1>. DEFINE r == ServerEnds(ServerState)
<1>3. r \in ServerStates /\ Good(r.link, c, r.s, faults)
  BY <1>1, <1>2, ServerEndsGood DEF DashInv
<1>. HIDE DEF r
<1>. QED  BY <1>3 DEF ServerExits, ServerDoes, DashInv, r

-------------------------------------------------------------------------------
(* The steps of the network and the signals. *)

\* After a fault the connection may be in any state it can be in.
LEMMA DisturbedGood ==
  ASSUME NEW l, NEW p, NEW y, NEW f, Good(l, p, y, f), NEW k \in Link, NEW g,
         \A e \in Ends : k[e].state = l[e].state /\ k[e].in = l[e].in,
         k["far"] = l["far"] \/ l["near"].state = "open",
         Sound(k) => Sound(l), g # {}, g \subseteq {"refused", "broken", "client", "server"}
  PROVE  Good(k, p, y, g)
<1>1. /\ k["near"].state = l["near"].state /\ k["near"].in = l["near"].in
      /\ k["far"].state = l["far"].state /\ k["far"].in = l["far"].in
  BY DEF Ends
<1>2. Linked(l) /\ Queued(l, y) /\ Playing(p, f) /\ Noticed(l, p, f) /\ Session(l, p, y)
  BY DEF Good, Kept
<1>3. Linked(k)
  <2>1. Roomy(k)
    BY <1>2 DEF Linked, Roomy
  <2>. QED  BY <1>1, <1>2, <2>1 DEF Linked
<1>4. Blamed(k, y.host, g)
  BY DEF Blamed
<1>5. Queued(k, y) /\ Playing(p, g) /\ Noticed(k, p, g)
  <2>1. Queued(k, y)
    BY <1>1, <1>2 DEF Queued
  <2>2. Playing(p, g)
    BY <1>2 DEF Playing
  <2>3. Noticed(k, p, g)
    BY <1>1, <1>2 DEF Noticed, HasFd
  <2>. QED  BY <2>1, <2>2, <2>3
<1>6. Accounted(l, p, y) => Accounted(k, p, y)
  BY <1>1 DEF Accounted, Wanted
<1>7. Session(k, p, y)
  BY <1>1, <1>2, <1>6 DEF Session, Asking, Idle, HasFd
<1>. QED  BY <1>3, <1>4, <1>5, <1>7 DEF Good, Kept

LEMMA EstablishedGood ==
  ASSUME DashInv, Established
  PROVE  DashInv'
<1>. DEFINE near == link["near"]
            far == link["far"]
            a == [near EXCEPT !.state = "open"]
            b == [far EXCEPT !.state = "queued"]
            m == Put(link, "near", a)
            k == Put(m, "far", b)
<1>1. /\ link \in Link /\ near \in End /\ far \in End /\ "far" \in Ends /\ "near" \in Ends
      /\ Peer("far") = "near" /\ Peer("near") = "far"
  BY StatesGood, LinkFields DEF Ends
<1>2. near.state = "connecting" /\ far = NoEnd
  BY DEF Established, UnderWay, DashInv, Good, Kept, Linked
<1>3. a \in End /\ a.state = "open" /\ a.in = near.in /\ a.eof = near.eof /\ a.reset = near.reset
  BY <1>1 DEF End
<1>4. b \in End /\ b.state = "queued" /\ b.in = far.in /\ b.eof = far.eof /\ b.reset = far.reset
  BY <1>1 DEF End
<1>5. m \in Link /\ m["near"] = a /\ m["far"] = far
  <2>. HIDE DEF a
  <2>1. m \in Link /\ m["near"] = a /\ m[Peer("near")] = link[Peer("near")]
    BY <1>1, <1>3, PutFacts
  <2>. QED  BY <1>1, <2>1
<1>6. link' = k
  <2>1. Establish(link) = [m EXCEPT !["far"].state = "queued"]
    BY <1>1 DEF Establish, Put, Link, Ends
  <2>. HIDE DEF m
  <2>2. Establish(link) = k
    BY <1>5, <2>1 DEF Put
  <2>. QED  BY <2>2 DEF Established, NetworkDoes
<1>. HIDE DEF m, a, b
<1>7. k \in Link /\ k["far"] = b /\ k["near"] = a
  <2>1. k \in Link /\ k["far"] = b /\ k[Peer("far")] = m[Peer("far")]
    BY <1>1, <1>4, <1>5, PutFacts
  <2>. QED  BY <1>1, <1>5, <2>1
<1>8. s' = s /\ c' = c /\ faults' = faults
  BY DEF Established, NetworkDoes
<1>. HIDE DEF k
<1>9. Good(k, c, s, faults)
  <2>1. Linked(link) /\ Blamed(link, s.host, faults) /\ Queued(link, s) /\ Noticed(link, c, faults)
        /\ Session(link, c, s)
    BY DEF DashInv, Good, Kept
  <2>2. Linked(k)
    BY <1>3, <1>4, <1>7, <2>1 DEF Linked, Roomy, Ends
  <2>3. Blamed(k, s.host, faults)
    BY <1>2, <1>3, <1>4, <1>7, <2>1, ClosedEndFacts DEF Blamed, HasFd, Broken
  <2>4. Queued(k, s) /\ Noticed(k, c, faults)
    BY <1>3, <1>4, <1>7, <2>1 DEF Queued, Noticed
  <2>5. Session(k, c, s)
    BY <1>2, <1>3, <1>4, <1>7, <2>1 DEF Session, Idle, HasFd
  <2>. QED  BY <2>2, <2>3, <2>4, <2>5 DEF DashInv, Good, Kept
<1>. QED  BY <1>6, <1>8, <1>9 DEF DashInv

LEMMA RefusedGood ==
  ASSUME DashInv, Refused
  PROVE  DashInv'
<1>. DEFINE a == ResetEnd(link["near"])
            k == Put(link, "near", a)
            g == faults \cup {"refused"}
<1>1. link \in Link /\ link["near"] \in End /\ "near" \in Ends /\ "far" \in Ends /\ Peer("near") = "far"
  BY StatesGood, LinkFields DEF Ends
<1>2. a \in End /\ a.state = link["near"].state /\ a.in = link["near"].in
  BY <1>1, ResetEndFacts
<1>3. link' = k /\ s' = s /\ c' = c /\ faults' = g
  BY DEF Refused, NetworkDoes, Fault, Refuse, Put
<1>. HIDE DEF a
<1>4. k \in Link /\ k["near"] = a /\ k["far"] = link["far"]
  <2>1. k \in Link /\ k["near"] = a /\ k[Peer("near")] = link[Peer("near")]
    BY <1>1, <1>2, PutFacts
  <2>. QED  BY <1>1, <2>1
<1>. HIDE DEF k
<1>5. ~ Sound(k)
  BY <1>2, <1>4, <1>1 DEF Sound, Refused, UnderWay
<1>6. faults \subseteq {"refused", "broken", "client", "server"}
  BY DEF DashInv, Good, Kept, Blamed
<1>7. \A e \in Ends : k[e].state = link[e].state /\ k[e].in = link[e].in
  BY <1>2, <1>4 DEF Ends
<1>8. Good(k, c, s, g)
  BY <1>4, <1>5, <1>6, <1>7, DisturbedGood DEF DashInv
<1>. QED  BY <1>3, <1>8 DEF DashInv

LEMMA BreaksGood ==
  ASSUME DashInv, Breaks
  PROVE  DashInv'
<1>. DEFINE k == Break(link)
            g == faults \cup {"broken"}
<1>1. link \in Link /\ \A e \in Ends : link[e] \in End
  BY StatesGood, LinkFields
<1>2. link' = k /\ s' = s /\ c' = c /\ faults' = g
  BY DEF Breaks, NetworkDoes, Fault
<1>3. \A e \in Ends : k[e] \in End /\ k[e].state = link[e].state /\ k[e].in = link[e].in
  BY <1>1, ResetEndFacts DEF Break
<1>4. k \in Link
  BY <1>3 DEF Break, Link
<1>5. ~ Sound(k) /\ link["near"].state = "open"
  <2>1. link["near"].state = "open" /\ "near" \in Ends
    BY DEF Breaks, Carries, Ends
  <2>2. k["near"].reset
    BY <1>1, <2>1, ResetEndFacts DEF Break, HasFd
  <2>. QED  BY <2>1, <2>2 DEF Sound
<1>. HIDE DEF k
<1>6. faults \subseteq {"refused", "broken", "client", "server"}
  BY DEF DashInv, Good, Kept, Blamed
<1>7. Good(k, c, s, g)
  BY <1>3, <1>4, <1>5, <1>6, DisturbedGood DEF DashInv
<1>. QED  BY <1>2, <1>7 DEF DashInv

LEMMA SignalsGood ==
  ASSUME DashInv, SignalClient \/ SignalServer
  PROVE  DashInv'
<1>1. link \in Link /\ c \in Client /\ s \in Server
  BY StatesGood
<1>2. faults \subseteq {"refused", "broken", "client", "server"}
  BY DEF DashInv, Good, Kept, Blamed
<1>3. CASE SignalClient
  <2>. DEFINE q == [c EXCEPT !.running = FALSE]
              g == faults \cup {"client"}
  <2>1. link' = link /\ c' = q /\ s' = s /\ faults' = g
    BY <1>3 DEF SignalClient, Fault
  <2>2. SamePlayer(c, q) /\ q.report = c.report
    <3>1. c.due \subseteq c.alarms
      BY DEF DashInv, Good, Kept, Playing
    <3>. QED  BY <1>1, <3>1 DEF SamePlayer, Client
  <2>. HIDE DEF q
  <2>3. Noticed(link, q, faults)
    BY <2>2 DEF DashInv, Good, Kept, Noticed
  <2>4. Good(link, q, s, faults)
    BY <2>2, <2>3, SamePlayerGood DEF DashInv
  <2>5. Good(link, q, s, g)
    BY <1>1, <1>2, <2>4, DisturbedGood
  <2>. QED  BY <2>1, <2>5 DEF DashInv
<1>4. CASE SignalServer
  <2>. DEFINE h == Stop(s.host)
              z == [s EXCEPT !.host = h]
              g == faults \cup {"server"}
  <2>1. link' = link /\ c' = c /\ s' = z /\ faults' = g
    BY <1>4 DEF SignalServer, Fault
  <2>2. h \in Context({"endpoint"})
    BY <1>1, ServerFields DEF Stop, Context
  <2>. HIDE DEF h
  <2>3. z \in Server /\ z.queue = s.queue /\ z.sent = s.sent
    BY <1>1, <2>2 DEF Server
  <2>. HIDE DEF z
  <2>4. Good(link, c, s, g)
    BY <1>1, <1>2, DisturbedGood DEF DashInv
  <2>5. Blamed(link, z.host, g) /\ Queued(link, z)
    BY <1>2, <2>3, <2>4 DEF Good, Kept, Blamed, Queued
  <2>6. (Accounted(link, c, s) => Accounted(link, c, z)) /\ (Idle(link, s) <=> Idle(link, z))
    BY <2>3 DEF Accounted, Owed, Idle
  <2>7. Session(link, c, z)
    BY <2>4, <2>6 DEF Good, Session, Asking
  <2>8. Good(link, c, z, g)
    BY <2>4, <2>5, <2>7 DEF Good, Kept
  <2>. QED  BY <2>1, <2>8 DEF DashInv
<1>. QED  BY <1>3, <1>4

-------------------------------------------------------------------------------
(* The invariant of the whole program, and what follows from it. *)

LEMMA DashInvInit == Init => DashInv
<1>. SUFFICES ASSUME Init PROVE DashInv
  OBVIOUS
<1>. DEFINE a == [NoEnd EXCEPT !.state = "connecting"]
<1>1. NoLink \in Link /\ NoLink["near"] = NoEnd /\ NoLink["far"] = NoEnd
  BY ClosedEndFacts DEF NoLink, Link, Ends
<1>2. a \in End /\ a.state = "connecting" /\ a.in = <<>> /\ ~ a.eof /\ ~ a.reset
  BY ClosedEndFacts DEF NoEnd, End
<1>3. "near" \in Ends /\ "far" \in Ends /\ Peer("near") = "far"
  BY DEF Ends, Peer
<1>4. Connecting \in Link /\ Connecting["near"] = a /\ Connecting["far"] = NoEnd
  <2>1. Connecting = Put(NoLink, "near", a)
    BY <1>1 DEF Connecting, Put
  <2>. HIDE DEF a
  <2>2. Put(NoLink, "near", a) \in Link /\ Put(NoLink, "near", a)["near"] = a
        /\ Put(NoLink, "near", a)[Peer("near")] = NoLink[Peer("near")]
    BY <1>1, <1>2, <1>3, PutFacts
  <2>. QED  BY <1>1, <1>3, <2>1, <2>2
<1>. DEFINE b == ResetEnd(a)
<1>5. b \in End /\ b.state = "connecting" /\ b.in = <<>>
  BY <1>2, ResetEndFacts
<1>6. Refuse(Connecting) \in Link /\ Refuse(Connecting)["near"] = b /\ Refuse(Connecting)["far"] = NoEnd
  <2>. HIDE DEF a
  <2>1. Refuse(Connecting) = Put(Connecting, "near", b)
    BY <1>4 DEF Refuse, Put
  <2>. HIDE DEF b
  <2>2. Put(Connecting, "near", b) \in Link /\ Put(Connecting, "near", b)["near"] = b
        /\ Put(Connecting, "near", b)[Peer("near")] = Connecting[Peer("near")]
    BY <1>3, <1>4, <1>5, PutFacts
  <2>. QED  BY <1>3, <1>4, <2>1, <2>2
<1>. HIDE DEF a, b
<1>7. /\ link \in Link /\ link["far"] = NoEnd
      /\ \/ link = NoLink /\ link["near"] = NoEnd
         \/ link = Connecting /\ link["near"] = a
         \/ link # Connecting /\ link # NoLink /\ link["near"] = b
  <2>1. link \in {Connecting, Refuse(Connecting), NoLink}
    BY DEF Init, AsynConnect
  <2>2. CASE link = NoLink
    BY <1>1, <2>2
  <2>3. CASE link = Connecting
    BY <1>4, <2>3
  <2>4. CASE link = Refuse(Connecting)
    <3>1. link["near"].state = "connecting" /\ link["near"].reset
      BY <1>2, <1>4, <1>6, <2>4, ResetEndFacts DEF b
    <3>2. link # Connecting /\ link # NoLink
      BY <1>1, <1>2, <1>4, <3>1, ClosedEndFacts
    <3>. QED  BY <1>6, <2>4, <3>2
  <2>. QED  BY <2>1, <2>2, <2>3, <2>4
<1>8. /\ link["near"].state = (IF link = NoLink THEN "none" ELSE "connecting") /\ link["near"].in = <<>>
      /\ link = Connecting \/ link = NoLink => ~ Broken(link["near"])
      /\ ~ Broken(link["far"]) /\ link["far"].in = <<>> /\ link["far"].state = "none"
  <2>1. NoLink # Connecting
    BY <1>1, <1>2, <1>4, ClosedEndFacts
  <2>2. link["near"].state = (IF link = NoLink THEN "none" ELSE "connecting") /\ link["near"].in = <<>>
    BY <1>2, <1>5, <1>7, <2>1, ClosedEndFacts
  <2>3. link = Connecting \/ link = NoLink => ~ Broken(link["near"])
    BY <1>1, <1>2, <1>4, ClosedEndFacts DEF Broken
  <2>. QED  BY <1>7, <2>2, <2>3, ClosedEndFacts DEF Broken
<1>9. Linked(link)
  <2>1. Roomy(link)
    BY <1>8, RoomAssumption DEF Roomy, Ends
  <2>. QED  BY <1>7, <1>8, <2>1 DEF Linked
<1>10. /\ c \in Client /\ c.player = "not_started" /\ c.alarms = {} /\ c.due = {} /\ c.report = {}
       /\ c.index = 0 /\ c.count = 0 /\ c.read = 0 /\ c.inBuffer = 0 /\ c.played = 0
       /\ c.status = IF link = NoLink THEN "disconnected" ELSE "connecting"
  <2>1. 0 \in 0 .. Segments /\ 0 \in 0 .. Frames - 1
    BY DashAssumption
  <2>. QED  BY <2>1 DEF Init, Client
<1>11. s \in Server /\ s.queue = <<>> /\ s.sent = 0 /\ s.host.running
  <2>1. NewContext \in Context({"endpoint"}) /\ NewContext.running
    BY EmptySeq DEF NewContext, Context
  <2>. QED  BY <2>1, EmptySeq DEF Init, Server
<1>12. faults = IF link = Connecting THEN {} ELSE {"refused"}
  BY DEF Init
<1>13. Blamed(link, s.host, faults)
  BY <1>8, <1>11, <1>12 DEF Blamed, HasFd
<1>14. Queued(link, s)
  BY <1>8, <1>11, EmptySeq DEF Queued
<1>15. Playing(c, faults) /\ Noticed(link, c, faults)
  <2>1. 0 < InitSegments
    BY DashAssumption
  <2>. QED  BY <1>10, <2>1 DEF Playing, Noticed
<1>16. Session(link, c, s)
  BY <1>8, <1>10, <1>11 DEF Session, HasFd, Idle, Fresh
<1>. QED  BY <1>9, <1>13, <1>14, <1>15, <1>16 DEF DashInv, Good, Kept

LEMMA DashInvNext == DashInv /\ [Next]_vars => DashInv'
<1>. SUFFICES ASSUME DashInv, [Next]_vars PROVE DashInv'
  OBVIOUS
<1>1. CASE ClientServes
  BY <1>1, WaitForEventsGood, ServeEventsGood, EndRoundGood, PlayerAlarmGood, RequestAlarmGood
  DEF ClientServes, Alarms
<1>2. CASE ServerServes
  BY <1>2, CreateEndpointGood, EndpointOnEventGood, RunTasksGood, ServerExitsGood DEF ServerServes
<1>3. CASE Established \/ Refused \/ Breaks
  BY <1>3, EstablishedGood, RefusedGood, BreaksGood
<1>4. CASE SignalClient \/ SignalServer
  BY <1>4, SignalsGood
<1>5. CASE UNCHANGED vars
  BY <1>5 DEF vars, DashInv
<1>. QED  BY <1>1, <1>2, <1>3, <1>4, <1>5 DEF Next, Progress

LEMMA DashInvAlways == Spec => []DashInv
BY DashInvInit, DashInvNext, PTL DEF Spec

\* Whatever the sizes of the segments and the length of the buffer, every segment that
\* was received is in the buffer or played, the play back alarm of the dash client is set
\* while it plays and it plays while it can, and it is done before the last
\* segment was played only after a fault.
THEOREM PlayerAlwaysAgrees == Spec => []PlayerAgrees
<1>1. DashInv => PlayerAgrees
  <2>. SUFFICES ASSUME DashInv PROVE PlayerAgrees
    OBVIOUS
  <2>1. TypeOK
    BY StatesGood DEF TypeOK, Link, DashInv, Good, Kept, Blamed
  <2>. QED  BY <2>1 DEF PlayerAgrees, DashInv, Good, Kept, Playing
<1>. QED  BY <1>1, DashInvAlways, PTL

\* While the connection of the dash client lasts it has one request under way or
\* one delayed, and the bytes it read, those on the way and those the endpoint
\* still owes add up to the segment it asked for: none is lost and none is sent twice.
THEOREM RequestsAlwaysAccounted == Spec => []RequestAccounted
<1>1. DashInv => RequestAccounted
  <2>. SUFFICES ASSUME DashInv, Whole, c.status = "connected"
       PROVE LET requests == link["far"].in \o s.queue
                 owed == (IF requests = <<>> THEN 0 ELSE Head(requests)) - s.sent
             IN  /\ Len(requests) <= 1
                 /\ IF "request" \in c.alarms
                    THEN c.index = c.count /\ c.read + Len(link["near"].in) + owed = 0
                    ELSE c.index = c.count + 1 /\ c.read + Len(link["near"].in) + owed = c.size
    BY DEF RequestAccounted
  <2>. DEFINE u == link["far"].in
              requests == u \o s.queue
              owed == (IF requests = <<>> THEN 0 ELSE Head(requests)) - s.sent
  <2>1. /\ c \in Client /\ s \in Server /\ link \in Link
        /\ u \in Seq(Sizes) /\ s.queue \in Seq(Sizes) /\ s.sent \in Nat
        /\ Len(u) + Len(s.queue) <= 1 /\ (s.queue = <<>> => s.sent = 0)
    BY StatesGood, ServerFields DEF DashInv, Good, Kept, Queued
  <2>2. Len(requests) <= 1
    BY <2>1, ConcatProperties
  <2>3. owed = Wanted(link) + Owed(s)
    <3>1. CASE u = <<>> /\ s.queue = <<>>
      BY <2>1, <3>1 DEF Wanted, Owed
    <3>2. CASE u = <<>> /\ s.queue # <<>>
      <4>1. requests = s.queue
        BY <2>1, <3>2
      <4>2. Head(s.queue) \in Nat
        BY <2>1, <3>2, SizesAreNatural
      <4>. QED  BY <2>1, <3>2, <4>1, <4>2 DEF Wanted, Owed
    <3>3. CASE u # <<>>
      <4>1. s.queue = <<>>
        <5>. DEFINE a == Len(u)
                    b == Len(s.queue)
        <5>1. a \in Nat /\ b \in Nat
          BY <2>1
        <5>2. a # 0
          BY <2>1, <3>3, EmptySeq
        <5>3. a + b <= 1
          BY <2>1
        <5>. HIDE DEF a, b
        <5>4. b = 0
          BY <5>1, <5>2, <5>3
        <5>. QED  BY <2>1, <5>4 DEF b
      <4>2. requests = u
        BY <2>1, <4>1
      <4>3. Head(u) \in Nat
        BY <2>1, <3>3, SizesAreNatural
      <4>. QED  BY <2>1, <3>3, <4>1, <4>2, <4>3 DEF Wanted, Owed
    <3>. QED  BY <3>1, <3>2, <3>3
  <2>4. Asking(link, c, s) /\ Sound(link)
    BY DEF DashInv, Good, Session, Whole, Sound
  <2>. HIDE DEF requests, owed
  <2>5. CASE "request" \in c.alarms
    <3>1. c.index = c.count /\ c.read = 0 /\ Len(link["near"].in) = 0 /\ owed = 0
      BY <2>3, <2>4, <2>5 DEF Asking, Idle, Wanted, Owed
    <3>2. c.read + Len(link["near"].in) + owed = 0
      BY <3>1
    <3>. QED  BY <2>2, <2>5, <3>1, <3>2 DEF requests, owed
  <2>6. CASE "request" \notin c.alarms
    <3>. DEFINE a == c.read + Len(link["near"].in)
    <3>1. c.index = c.count + 1 /\ a + Wanted(link) + Owed(s) = c.size
      BY <2>4, <2>6 DEF Asking, Accounted
    <3>2. a \in Nat /\ Wanted(link) \in Nat /\ Owed(s) \in Int
      <4>1. a \in Nat
        BY <2>1, ClientFields, LinkFields DEF Ends
      <4>2. Wanted(link) \in Nat
        BY <2>1, SizesAreNatural DEF Wanted
      <4>3. Owed(s) \in Int
        BY <2>1, SizesAreNatural DEF Owed
      <4>. QED  BY <4>1, <4>2, <4>3
    <3>. HIDE DEF a
    <3>3. a + owed = c.size
      BY <2>3, <3>1, <3>2
    <3>. QED  BY <2>2, <2>6, <3>1, <3>3 DEF requests, owed, a
  <2>. QED  BY <2>5, <2>6
<1>. QED  BY <1>1, DashInvAlways, PTL
=============================================================================
