------------------------------ MODULE HenProofs ------------------------------
(***************************************************************************)
(* The two sticks of each host of the relay agree, and what the relay      *)
(* carries between the client and the server stays whole and in order.     *)
(*                                                                         *)
(* The first part keeps track of the sticks, their sockets and their       *)
(* mates: HenInv.  The second takes each direction as a row of five        *)
(* buffers with the number of the unit that each begins after, which holds *)
(* from the reader up to the first connection that has ended: FlowInv.     *)
(***************************************************************************)
EXTENDS Hen, SequenceTheorems, TLAPS

-------------------------------------------------------------------------------
(* The invariant. *)

\* What is sent are numbers, and no more than there is room for.
Wire == [Ends -> {end \in End : end.in \in Seq(Nat) /\ Len(end.in) <= Room}]
Relay == [ links : [LinkNames -> Wire], sticks : [Sticks -> Stick], hosts : [Hosts -> Context(Sticks)] ]

StateOf(x, s) == x.links[Link(s)][EndOf(s)].state

\* A connection begins at its near end.
Shaped(l) ==
  /\ l["near"].state \in {"none", "connecting", "open", "closed"}
  /\ l["far"].state \in {"none", "queued", "open", "closed"}
  /\ l["near"].state \in {"none", "connecting"} => l["far"].state = "none"

\* One stick, its socket, its task and its mate.
Agrees(x, s) ==
  LET stick == x.sticks[s]
      mate == x.sticks[Mate(s)]
  IN  /\ stick.mate => mate.mate /\ mate.life = "live"
      /\ stick.life = "live" <=> StateOf(x, s) \in {"connecting", "open"}
      /\ stick.life = "destroyed" <=> s \in TasksOf(x.hosts[Host(s)])
      /\ stick.mateStatus = "discon" => mate.life \in {"destroyed", "deleted"}
      /\ StateOf(x, s) \in {"none", "queued"} => stick.life = "none"

\* The sticks come one after the other: each socket before its stick, the left stick
\* before the right one, and that of C only once the address was read.
InTurn(x) ==
  /\ x.sticks["BL"].life = "none" => x.sticks["BR"].life = "none"
  /\ x.sticks["CL"].life = "none" \/ ~ x.sticks["CL"].parsed => x.sticks["CR"].life = "none"
  /\ \A s \in {"BR", "CR"} : x.sticks[s].life = "none" => StateOf(x, s) = "none"

Sound(x) ==
  /\ x \in Relay
  /\ \A l \in LinkNames : Shaped(x.links[l])
  /\ \A h \in Hosts : TasksOf(x.hosts[h]) \subseteq SticksOf(h)
  /\ \A s \in Sticks : Agrees(x, s)
  /\ InTurn(x)

Client == [sent : 0 .. Requests, got : Seq(Nat)]

HenInv ==
  /\ Sound(hx)
  /\ client \in Client /\ echoed \in Seq(Nat)

-------------------------------------------------------------------------------
(* Names. *)

LEMMA Names ==
  /\ Mate("BL") = "BR" /\ Mate("BR") = "BL" /\ Mate("CL") = "CR" /\ Mate("CR") = "CL"
  /\ Host("BL") = "B" /\ Host("BR") = "B" /\ Host("CL") = "C" /\ Host("CR") = "C"
  /\ Link("BL") = "ab" /\ Link("BR") = "bc" /\ Link("CL") = "bc" /\ Link("CR") = "cd"
  /\ EndOf("BL") = "far" /\ EndOf("BR") = "near" /\ EndOf("CL") = "far" /\ EndOf("CR") = "near"
  /\ SticksOf("B") = {"BL", "BR"} /\ SticksOf("C") = {"CL", "CR"}
<1>1. /\ Host("BL") = "B" /\ Host("BR") = "B" /\ Host("CL") = "C" /\ Host("CR") = "C"
      /\ Link("BL") = "ab" /\ Link("BR") = "bc" /\ Link("CL") = "bc" /\ Link("CR") = "cd"
      /\ EndOf("BL") = "far" /\ EndOf("BR") = "near" /\ EndOf("CL") = "far" /\ EndOf("CR") = "near"
  BY DEF Host, Link, EndOf
<1>2. SticksOf("B") = {"BL", "BR"} /\ SticksOf("C") = {"CL", "CR"}
  BY DEF SticksOf, Host, Sticks
<1>3. Mate("BL") = "BR"
  BY <1>1, <1>2 DEF Mate
<1>4. Mate("BR") = "BL"
  BY <1>1, <1>2 DEF Mate
<1>5. Mate("CL") = "CR"
  BY <1>1, <1>2 DEF Mate
<1>6. Mate("CR") = "CL"
  BY <1>1, <1>2 DEF Mate
<1>. QED  BY <1>1, <1>2, <1>3, <1>4, <1>5, <1>6

LEMMA Mates ==
  \A s \in Sticks :
    /\ Link(s) \in LinkNames /\ EndOf(s) \in Ends /\ Host(s) \in Hosts /\ s \in SticksOf(Host(s))
    /\ Mate(s) \in Sticks /\ Mate(s) # s /\ Mate(Mate(s)) = s /\ Host(Mate(s)) = Host(s)
    /\ \A t \in Sticks : Link(t) = Link(s) /\ EndOf(t) = EndOf(s) => t = s
    /\ \A t \in Sticks : Mate(t) = Mate(s) => t = s
BY Names DEF Sticks, LinkNames, Ends, Hosts

-------------------------------------------------------------------------------
(* Links. *)

LEMMA MinOfTwo ==
  ASSUME NEW a \in Int, NEW b \in Int
  PROVE  Min({a, b}) = IF a <= b THEN a ELSE b
<1>. DEFINE m == IF a <= b THEN a ELSE b
<1>1. m \in {a, b} /\ \A y \in {a, b} : m <= y
  OBVIOUS
<1>2. ASSUME NEW x \in {a, b}, \A y \in {a, b} : x <= y
      PROVE  x = m
  BY <1>2
<1>. QED  BY <1>1, <1>2 DEF Min

\* The first n units are sent, the others kept.
LEMMA Split ==
  ASSUME NEW u \in Seq(Nat), NEW n \in 0 .. Len(u)
  PROVE  /\ SubSeq(u, 1, n) \in Seq(Nat) /\ Len(SubSeq(u, 1, n)) = n
         /\ SubSeq(u, n + 1, Len(u)) \in Seq(Nat) /\ Len(SubSeq(u, n + 1, Len(u))) = Len(u) - n
<1>1. \A i \in 1 .. n : u[i] \in Nat
  OBVIOUS
<1>2. /\ SubSeq(u, 1, n) \in Seq(Nat)
      /\ Len(SubSeq(u, 1, n)) = IF 1 <= n THEN n - 1 + 1 ELSE 0
  BY <1>1, SubSeqProperties
<1>3. \A i \in n + 1 .. Len(u) : u[i] \in Nat
  OBVIOUS
<1>4. /\ SubSeq(u, n + 1, Len(u)) \in Seq(Nat)
      /\ Len(SubSeq(u, n + 1, Len(u))) = IF n + 1 <= Len(u) THEN Len(u) - (n + 1) + 1 ELSE 0
  BY <1>3, SubSeqProperties
<1>. QED  BY <1>2, <1>4

WireEnd == {end \in End : end.in \in Seq(Nat) /\ Len(end.in) <= Room}

LEMMA WireFields ==
  ASSUME NEW l \in Wire, NEW e \in Ends
  PROVE  /\ l[e] \in WireEnd /\ l[e].in \in Seq(Nat) /\ Len(l[e].in) \in 0 .. Room
         /\ l[e].eof \in BOOLEAN /\ l[e].reset \in BOOLEAN /\ l[e].error \in BOOLEAN
         /\ l[e].state \in {"none", "connecting", "queued", "open", "closed"}
         /\ Peer(e) \in Ends /\ Peer(e) # e /\ Peer(Peer(e)) = e
         /\ Peer("near") = "far" /\ Peer("far") = "near"
         /\ "near" \in Ends /\ "far" \in Ends
<1>1. l[e] \in WireEnd
  BY DEF Wire, WireEnd
<1>2. l[e] \in End /\ l[e].in \in Seq(Nat) /\ Len(l[e].in) <= Room
  BY <1>1 DEF WireEnd
<1>3. /\ l[e].eof \in BOOLEAN /\ l[e].reset \in BOOLEAN /\ l[e].error \in BOOLEAN
      /\ l[e].state \in {"none", "connecting", "queued", "open", "closed"}
  BY <1>2 DEF End
<1>. QED  BY <1>1, <1>2, <1>3, RoomAssumption DEF Peer, Ends

\* An end of a link changes.
LEMMA EndChanges ==
  ASSUME NEW l \in Wire, NEW e \in Ends, NEW k \in WireEnd
  PROVE  /\ [l EXCEPT ![e] = k] \in Wire /\ [l EXCEPT ![e] = k][e] = k
         /\ [l EXCEPT ![e] = k][Peer(e)] = l[Peer(e)]
BY WireFields DEF Wire, WireEnd

States == {"none", "connecting", "queued", "open", "closed"}
SetState(l, e, state) == [l EXCEPT ![e].state = state]

LEMMA EndState ==
  ASSUME NEW j \in WireEnd, NEW v \in States
  PROVE  [j EXCEPT !.state = v] \in WireEnd /\ [j EXCEPT !.state = v].state = v
<1>1. j \in End /\ j.in \in Seq(Nat) /\ Len(j.in) <= Room
  BY DEF WireEnd
<1>. DEFINE k == [j EXCEPT !.state = v]
<1>2. k \in End /\ k.state = v /\ k.in = j.in
  BY <1>1 DEF End, States
<1>. HIDE DEF k
<1>3. k \in WireEnd /\ k.state = v
  BY <1>1, <1>2 DEF WireEnd
<1>. QED  BY <1>3 DEF k

LEMMA SetStateFacts ==
  ASSUME NEW l \in Wire, NEW e \in Ends, NEW v \in States
  PROVE  /\ SetState(l, e, v) \in Wire /\ SetState(l, e, v)[e].state = v
         /\ SetState(l, e, v)[Peer(e)] = l[Peer(e)]
<1>. DEFINE k == [l[e] EXCEPT !.state = v]
<1>1. k \in WireEnd /\ k.state = v
  BY WireFields, EndState
<1>2. SetState(l, e, v) = [l EXCEPT ![e] = k]
  BY DEF SetState
<1>. HIDE DEF k
<1>3. [l EXCEPT ![e] = k] \in Wire /\ [l EXCEPT ![e] = k][e] = k /\ [l EXCEPT ![e] = k][Peer(e)] = l[Peer(e)]
  BY <1>1, EndChanges
<1>. QED  BY <1>1, <1>2, <1>3

ClosedEnd == [NoEnd EXCEPT !.state = "closed"]

LEMMA ConstantEnds ==
  /\ ClosedEnd \in WireEnd /\ ClosedEnd.state = "closed"
  /\ NoEnd \in WireEnd /\ NoEnd.state = "none"
<1>1. <<>> \in Seq(Nat) /\ <<>> \in Seq(Int) /\ Len(<<>>) = 0 /\ 0 <= Room
  BY RoomAssumption
<1>2. NoEnd = [state |-> "none", in |-> <<>>, eof |-> FALSE, reset |-> FALSE, error |-> FALSE]
  BY DEF NoEnd
<1>3. NoEnd \in End /\ NoEnd.in = <<>> /\ NoEnd.state = "none"
  BY <1>1, <1>2 DEF End
<1>4. NoEnd \in WireEnd
  BY <1>1, <1>3 DEF WireEnd
<1>. QED  BY <1>3, <1>4, EndState DEF ClosedEnd, States

\* Records that change in what is waiting or in the marks.
LEMMA EndData ==
  ASSUME NEW j \in WireEnd, NEW u \in Seq(Nat), Len(u) <= Room
  PROVE  [j EXCEPT !.in = u] \in WireEnd /\ [j EXCEPT !.in = u].state = j.state
<1>1. j \in End /\ u \in Seq(Int)
  BY DEF WireEnd
<1>2. [j EXCEPT !.in = u] \in End /\ [j EXCEPT !.in = u].state = j.state /\ [j EXCEPT !.in = u].in = u
  BY <1>1 DEF End
<1>. QED  BY <1>2 DEF WireEnd

LEMMA EndMarks ==
  ASSUME NEW j \in WireEnd
  PROVE  /\ [j EXCEPT !.error = FALSE] \in WireEnd /\ [j EXCEPT !.error = FALSE].state = j.state
         /\ [j EXCEPT !.eof = TRUE] \in WireEnd /\ [j EXCEPT !.eof = TRUE].state = j.state
BY DEF WireEnd, End

LEMMA ResetEndFacts ==
  ASSUME NEW j \in WireEnd
  PROVE  ResetEnd(j) \in WireEnd /\ ResetEnd(j).state = j.state
BY DEF ResetEnd, WireEnd, End

SameStates(l, k) == k \in Wire /\ \A e \in Ends : k[e].state = l[e].state

\* The same with another end of the same state.
LEMMA EndSameState ==
  ASSUME NEW l \in Wire, NEW e \in Ends, NEW k \in WireEnd, k.state = l[e].state
  PROVE  SameStates(l, [l EXCEPT ![e] = k])
BY WireFields, EndChanges DEF SameStates, Ends

LEMMA LinkData ==
  ASSUME NEW l \in Wire, NEW e \in Ends
  PROVE  /\ \A n \in 0 .. Len(l[e].in) : SameStates(l, Consume(l, e, n))
         /\ SameStates(l, ErrorRead(l, e))
         /\ SameStates(l, Refuse(l)) /\ SameStates(l, Break(l))
         /\ \A n \in Nat : Taken(l, e, n) \in 0 .. n /\ Taken(l, e, n) + Len(l[Peer(e)].in) <= Room
<1>1. ASSUME NEW n \in 0 .. Len(l[e].in)  PROVE SameStates(l, Consume(l, e, n))
  <2>. DEFINE u == SubSeq(l[e].in, n + 1, Len(l[e].in))
              k == [l[e] EXCEPT !.in = u]
  <2>1. l[e] \in WireEnd /\ l[e].in \in Seq(Nat) /\ Len(l[e].in) <= Room /\ Len(l[e].in) \in Nat
    BY WireFields
  <2>0. u \in Seq(Nat) /\ Len(u) = Len(l[e].in) - n
    BY <2>1, Split
  <2>. HIDE DEF u
  <2>2. k \in WireEnd /\ k.state = l[e].state
    <3>1. Len(u) <= Room
      BY <2>0, <2>1, RoomAssumption
    <3>. QED  BY <2>0, <2>1, <3>1, EndData
  <2>3. Consume(l, e, n) = [l EXCEPT ![e] = k]
    BY DEF Consume, u
  <2>. HIDE DEF k
  <2>. QED  BY <2>2, <2>3, EndSameState
<1>2. SameStates(l, ErrorRead(l, e))
  <2>. DEFINE k == [l[e] EXCEPT !.error = FALSE]
  <2>1. k \in WireEnd /\ k.state = l[e].state
    BY WireFields, EndMarks
  <2>2. ErrorRead(l, e) = [l EXCEPT ![e] = k]
    BY DEF ErrorRead
  <2>. HIDE DEF k
  <2>. QED  BY <2>1, <2>2, EndSameState
<1>3. SameStates(l, Refuse(l))
  <2>1. Refuse(l) = [l EXCEPT !["near"] = ResetEnd(l["near"])]
    BY DEF Refuse
  <2>2. "near" \in Ends /\ l["near"] \in WireEnd
    BY WireFields
  <2>. QED  BY <2>1, <2>2, ResetEndFacts, EndSameState
<1>4. SameStates(l, Break(l))
  <2>1. \A f \in Ends : ResetEnd(l[f]) \in WireEnd /\ ResetEnd(l[f]).state = l[f].state /\ l[f] \in WireEnd
    BY WireFields, ResetEndFacts
  <2>. QED  BY <2>1 DEF Break, SameStates, Wire, WireEnd
<1>5. ASSUME NEW n \in Nat
      PROVE  Taken(l, e, n) \in 0 .. n /\ Taken(l, e, n) + Len(l[Peer(e)].in) <= Room
  <2>. DEFINE u == Len(l[Peer(e)].in)
  <2>1. u \in 0 .. Room /\ Room \in Nat
    BY WireFields, RoomAssumption
  <2>2. Min({n, Room - u}) = IF n <= Room - u THEN n ELSE Room - u
    BY <2>1, MinOfTwo
  <2>3. Taken(l, e, n) = IF l[e].state # "open" \/ l[e].reset THEN 0
                         ELSE IF n <= Room - u THEN n ELSE Room - u
    BY <2>2 DEF Taken, RoomFor
  <2>. HIDE DEF u
  <2>4. Taken(l, e, n) \in 0 .. n /\ Taken(l, e, n) + u <= Room
    BY <2>1, <2>3
  <2>. QED  BY <2>4 DEF u
<1>. QED  BY <1>1, <1>2, <1>3, <1>4, <1>5

LEMMA SendKeepsStates ==
  ASSUME NEW l \in Wire, NEW e \in Ends, NEW data \in Seq(Nat)
  PROVE  SameStates(l, Send(l, e, data))
<1>. DEFINE p == Peer(e)
            n == Taken(l, e, Len(data))
            u == l[p].in \o SubSeq(data, 1, n)
            j == [l[e] EXCEPT !.error = FALSE]
            k == [l[p] EXCEPT !.in = u]
<1>1. /\ p \in Ends /\ l[e] \in WireEnd /\ l[p] \in WireEnd
      /\ l[p].in \in Seq(Nat) /\ Len(data) \in Nat
  BY WireFields
<1>2. n \in 0 .. Len(data) /\ n + Len(l[p].in) <= Room
  BY <1>1, LinkData
<1>3. u \in Seq(Nat) /\ Len(u) <= Room
  <2>1. SubSeq(data, 1, n) \in Seq(Nat) /\ Len(SubSeq(data, 1, n)) = n
    BY <1>2, Split
  <2>2. u \in Seq(Nat) /\ Len(u) = Len(l[p].in) + Len(SubSeq(data, 1, n))
    BY <1>1, <2>1, ConcatProperties
  <2>. QED  BY <1>1, <1>2, <2>1, <2>2
<1>4. Send(l, e, data) = IF n = 0 THEN [l EXCEPT ![e] = j]
                         ELSE IF l[p].state = "closed" THEN [l EXCEPT ![e] = ResetEnd(l[e])]
                         ELSE [l EXCEPT ![p] = k]
  BY DEF Send
<1>. HIDE DEF u, n
<1>5. j \in WireEnd /\ j.state = l[e].state /\ k \in WireEnd /\ k.state = l[p].state
  BY <1>1, <1>3, EndData, EndMarks
<1>6. ResetEnd(l[e]) \in WireEnd /\ ResetEnd(l[e]).state = l[e].state
  BY <1>1, ResetEndFacts
<1>. HIDE DEF j, k, p
<1>. QED  BY <1>1, <1>4, <1>5, <1>6, EndSameState

\* Only the state of the end changes that is closed.
LEMMA CloseStates ==
  ASSUME NEW l \in Wire, NEW e \in Ends
  PROVE  /\ Close(l, e) \in Wire
         /\ Close(l, e)[e].state = IF HasFd(l, e) THEN "closed" ELSE l[e].state
         /\ Close(l, e)[Peer(e)].state = l[Peer(e)].state
<1>. DEFINE p == Peer(e)
            m == [l EXCEPT ![e] = ClosedEnd]
            j == [l[p] EXCEPT !.eof = TRUE]
<1>1. p \in Ends /\ p # e /\ Peer(p) = e /\ l[p] \in WireEnd
  BY WireFields
<1>2. m \in Wire /\ m[e] = ClosedEnd /\ m[p] = l[p]
  BY ConstantEnds, EndChanges
<1>3. Close(l, e) = IF ~ HasFd(l, e) THEN l
                    ELSE IF l[p].state \notin {"open", "queued"} THEN m
                    ELSE IF l[e].in # <<>> THEN [m EXCEPT ![p] = ResetEnd(l[p])]
                    ELSE [m EXCEPT ![p] = j]
  BY <1>2 DEF Close, ClosedEnd
<1>4. /\ j \in WireEnd /\ j.state = l[p].state
      /\ ResetEnd(l[p]) \in WireEnd /\ ResetEnd(l[p]).state = l[p].state
  BY <1>1, ResetEndFacts DEF WireEnd, End
<1>. HIDE DEF m, j, p
<1>5. \A k \in WireEnd : [m EXCEPT ![p] = k] \in Wire /\ [m EXCEPT ![p] = k][p] = k /\ [m EXCEPT ![p] = k][e] = m[e]
  BY <1>1, <1>2, EndChanges
<1>. QED  BY <1>1, <1>2, <1>3, <1>4, <1>5, ConstantEnds DEF p

LEMMA OtherLinkCalls ==
  ASSUME NEW l \in Wire
  PROVE  /\ SameStates(l, Accept(l)) \/ l["far"].state # "open"
         /\ Accept(l) \in Wire /\ Accept(l)["far"].state = "open" /\ Accept(l)["near"] = l["near"]
         /\ Abandon(l) \in Wire /\ Abandon(l)["near"].state = l["near"].state
         /\ Abandon(l)["far"].state = IF l["far"].state = "queued" THEN "closed" ELSE l["far"].state
         /\ Establish(l) \in Wire
         /\ Establish(l)["near"].state = "open" /\ Establish(l)["far"].state = "queued"
<1>1. /\ "near" \in Ends /\ "far" \in Ends /\ Peer("near") = "far" /\ Peer("far") = "near"
      /\ l["near"] \in WireEnd /\ l["far"] \in WireEnd
      /\ "open" \in States /\ "queued" \in States
  BY WireFields DEF Ends, States
<1>4. Accept(l) \in Wire /\ Accept(l)["far"].state = "open" /\ Accept(l)["near"] = l["near"]
  <2>1. Accept(l) = SetState(l, "far", "open")
    BY DEF Accept, SetState
  <2>. QED  BY <1>1, <2>1, SetStateFacts
<1>5. /\ Abandon(l) \in Wire /\ Abandon(l)["near"].state = l["near"].state
      /\ Abandon(l)["far"].state = IF l["far"].state = "queued" THEN "closed" ELSE l["far"].state
  <2>. DEFINE m == [l EXCEPT !["near"] = ResetEnd(l["near"])]
  <2>1. m \in Wire /\ m["near"].state = l["near"].state /\ m["far"] = l["far"]
    BY <1>1, ResetEndFacts, EndChanges
  <2>2. Abandon(l) = IF l["far"].state # "queued" THEN l ELSE [m EXCEPT !["far"] = ClosedEnd]
    BY DEF Abandon, ClosedEnd
  <2>. HIDE DEF m
  <2>. QED  BY <1>1, <2>1, <2>2, ConstantEnds, EndChanges
<1>6. Establish(l) \in Wire /\ Establish(l)["near"].state = "open" /\ Establish(l)["far"].state = "queued"
  <2>. DEFINE m == SetState(l, "near", "open")
              n == SetState(m, "far", "queued")
  <2>1. m \in Wire /\ m["near"].state = "open" /\ m["far"] = l["far"]
    BY <1>1, SetStateFacts
  <2>2. Establish(l) = n
    BY DEF Establish, SetState
  <2>. HIDE DEF m
  <2>3. n \in Wire /\ n["far"].state = "queued" /\ n["near"] = m["near"]
    BY <1>1, <2>1, SetStateFacts
  <2>. QED  BY <2>1, <2>2, <2>3
<1>7. SameStates(l, Accept(l)) \/ l["far"].state # "open"
  BY <1>1, <1>4 DEF SameStates, Ends
<1>. QED  BY <1>4, <1>5, <1>6, <1>7

LEMMA NewLinks ==
  /\ Connecting \in Wire /\ Connecting["near"].state = "connecting" /\ Connecting["far"].state = "none"
  /\ NoLink \in Wire /\ NoLink["near"].state = "none" /\ NoLink["far"].state = "none"
<1>1. NoLink \in Wire /\ NoLink["near"].state = "none" /\ NoLink["far"].state = "none"
  BY ConstantEnds DEF NoLink, Wire, WireEnd, Ends
<1>2. "near" \in Ends /\ Peer("near") = "far" /\ "connecting" \in States
  BY DEF Ends, Peer, States
<1>3. Connecting = SetState(NoLink, "near", "connecting")
  BY DEF Connecting, SetState
<1>. QED  BY <1>1, <1>2, <1>3, SetStateFacts

-------------------------------------------------------------------------------
(* The relay. *)

LEMMA RelayFields ==
  ASSUME NEW x \in Relay
  PROVE  /\ x.links \in [LinkNames -> Wire] /\ \A l \in LinkNames : x.links[l] \in Wire
         /\ x.sticks \in [Sticks -> Stick] /\ \A s \in Sticks : x.sticks[s] \in Stick
         /\ x.hosts \in [Hosts -> Context(Sticks)] /\ \A h \in Hosts : x.hosts[h] \in Context(Sticks)
BY DEF Relay

\* What differs between two relays when only data and marks do.
Same(x, y) ==
  /\ y \in Relay /\ y.hosts = x.hosts
  /\ \A l \in LinkNames : SameStates(x.links[l], y.links[l])
  /\ \A s \in Sticks :
       /\ y.sticks[s].life = x.sticks[s].life /\ y.sticks[s].mate = x.sticks[s].mate
       /\ x.sticks[s].parsed => y.sticks[s].parsed
       /\ y.sticks[s].mateStatus = "discon" => x.sticks[s].mateStatus = "discon"

LEMMA SameSound ==
  ASSUME NEW x, NEW y, Sound(x), Same(x, y)
  PROVE  Sound(y)
<1>1. \A s \in Sticks : StateOf(y, s) = StateOf(x, s)
  BY Mates DEF Same, SameStates, StateOf
<1>2. \A l \in LinkNames : Shaped(y.links[l])
  BY DEF Same, SameStates, Sound, Shaped, Ends
<1>3. \A s \in Sticks : Agrees(y, s)
  <2>. TAKE s \in Sticks
  <2>1. Agrees(x, s) /\ Mate(s) \in Sticks
    BY Mates DEF Sound
  <2>. QED  BY <1>1, <2>1 DEF Same, Agrees
<1>4. InTurn(y)
  BY <1>1 DEF Same, Sound, InTurn, Sticks
<1>5. y \in Relay /\ \A h \in Hosts : TasksOf(y.hosts[h]) \subseteq SticksOf(h)
  BY DEF Same, Sound
<1>. QED  BY <1>2, <1>3, <1>4, <1>5 DEF Sound

SetLink(x, l, k) == [x EXCEPT !.links[l] = k]
SetStick(x, s, k) == [x EXCEPT !.sticks[s] = k]

\* A link changes, but not the states of its ends.
LEMMA LinkSound ==
  ASSUME NEW x, Sound(x), NEW l \in LinkNames, NEW k, SameStates(x.links[l], k)
  PROVE  /\ Sound(SetLink(x, l, k)) /\ SetLink(x, l, k).sticks = x.sticks
         /\ SetLink(x, l, k).hosts = x.hosts /\ SetLink(x, l, k).links[l] = k
<1>. DEFINE y == SetLink(x, l, k)
<1>1. x \in Relay /\ k \in Wire
  BY DEF Sound, SameStates
<1>2. /\ y.links = [x.links EXCEPT ![l] = k] /\ y.sticks = x.sticks /\ y.hosts = x.hosts
      /\ y \in Relay
  BY <1>1 DEF Relay, SetLink
<1>3. y.links[l] = k /\ \A m \in LinkNames : m # l => y.links[m] = x.links[m]
  BY <1>1, <1>2, RelayFields
<1>. HIDE DEF y
<1>4. \A m \in LinkNames : SameStates(x.links[m], y.links[m])
  BY <1>1, <1>3, RelayFields DEF SameStates
<1>5. Same(x, y)
  BY <1>2, <1>4 DEF Same
<1>. QED  BY <1>2, <1>3, <1>5, SameSound DEF y

\* The data of a stick change.
LEMMA StickSound ==
  ASSUME NEW x, Sound(x), NEW s \in Sticks, NEW k \in Stick,
         k.life = x.sticks[s].life, k.mate = x.sticks[s].mate, x.sticks[s].parsed => k.parsed,
         k.mateStatus = "discon" => x.sticks[s].mateStatus = "discon"
  PROVE  /\ Sound(SetStick(x, s, k)) /\ SetStick(x, s, k).links = x.links
         /\ SetStick(x, s, k).hosts = x.hosts /\ SetStick(x, s, k).sticks[s] = k
         /\ \A t \in Sticks : t # s => SetStick(x, s, k).sticks[t] = x.sticks[t]
<1>. DEFINE y == SetStick(x, s, k)
<1>1. x \in Relay
  BY DEF Sound
<1>2. /\ y.sticks = [x.sticks EXCEPT ![s] = k] /\ y.links = x.links /\ y.hosts = x.hosts
      /\ y \in Relay
  BY <1>1 DEF Relay, SetStick
<1>3. y.sticks[s] = k /\ \A t \in Sticks : t # s => y.sticks[t] = x.sticks[t]
  BY <1>1, <1>2, RelayFields
<1>. HIDE DEF y
<1>4. \A m \in LinkNames : SameStates(x.links[m], y.links[m])
  BY <1>1, <1>2, RelayFields DEF SameStates
<1>5. Same(x, y)
  BY <1>2, <1>3, <1>4 DEF Same
<1>. QED  BY <1>2, <1>3, <1>5, SameSound DEF y

-------------------------------------------------------------------------------
(* The calls of a stick. *)

LEMMA StickFields ==
  ASSUME NEW x, Sound(x), NEW s \in Sticks
  PROVE  /\ x.sticks[s] \in Stick /\ x.sticks[s].wb \in Seq(Nat) /\ x.links[Link(s)] \in Wire
         /\ Unread(x, s) \in Seq(Nat) /\ x.hosts[Host(s)] \in Context(Sticks)
<1>1. x.sticks[s] \in Stick /\ x.links[Link(s)] \in Wire /\ x.hosts[Host(s)] \in Context(Sticks)
  BY RelayFields, Mates DEF Sound
<1>2. x.sticks[s].wb \in Seq(Nat)
  BY <1>1 DEF Stick
<1>3. Unread(x, s) \in Seq(Nat)
  BY <1>1, Mates, WireFields DEF Unread
<1>. QED  BY <1>1, <1>2, <1>3

LEMMA ReadUnitsSound ==
  ASSUME NEW x, Sound(x), NEW s \in Sticks, NEW n \in 0 .. Len(Unread(x, s))
  PROVE  /\ Sound(ReadUnits(x, s, n)) /\ ReadUnits(x, s, n).sticks = x.sticks
         /\ ReadUnits(x, s, n).hosts = x.hosts
<1>. DEFINE k == Consume(x.links[Link(s)], EndOf(s), n)
<1>1. SameStates(x.links[Link(s)], k) /\ Link(s) \in LinkNames
  BY StickFields, Mates, LinkData DEF Unread
<1>2. ReadUnits(x, s, n) = SetLink(x, Link(s), k)
  BY DEF ReadUnits, SetLink
<1>. HIDE DEF k
<1>. QED  BY <1>1, <1>2, LinkSound

LEMMA SinkSound ==
  ASSUME NEW x, Sound(x), NEW s \in Sticks, NEW data \in Seq(Nat)
  PROVE  Sound(Sink(x, s, data))
<1>. DEFINE u == x.sticks[s].wb \o data
            k == [x.sticks[s] EXCEPT !.wb = u]
<1>1. x.sticks[s] \in Stick /\ u \in Seq(Nat)
  BY StickFields, ConcatProperties
<1>2. Sink(x, s, data) = IF HasSocket(x, s) THEN SetStick(x, s, k) ELSE x
  BY DEF Sink, SetStick
<1>. HIDE DEF u
<1>3. /\ k \in Stick /\ k.life = x.sticks[s].life /\ k.mate = x.sticks[s].mate
      /\ k.parsed = x.sticks[s].parsed /\ k.mateStatus = x.sticks[s].mateStatus
  BY <1>1 DEF Stick
<1>. HIDE DEF k
<1>. QED  BY <1>2, <1>3, StickSound

LEMMA HasSocketLive ==
  ASSUME NEW x, Sound(x), NEW s \in Sticks
  PROVE  /\ HasSocket(x, s) <=> x.sticks[s].life = "live"
         /\ HasSocket(x, s) <=> StateOf(x, s) \in {"connecting", "open"}
<1>1. Agrees(x, s)
  BY DEF Sound
<1>. QED  BY <1>1 DEF HasSocket, HasFd, Agrees, StateOf

\* An object is in the queue once it is posted, and whoever was in it before.
LEMMA PostTaskFacts ==
  ASSUME NEW c \in Context(Sticks), NEW s \in Sticks
  PROVE  PostTask(c, s) \in Context(Sticks) /\ TasksOf(PostTask(c, s)) = TasksOf(c) \cup {s}
<1>. DEFINE q == Append(c.tasks, s)
<1>1. c.tasks \in Seq(Sticks)
  BY DEF Context
<1>2. q \in Seq(Sticks) /\ Len(q) = Len(c.tasks) + 1 /\ q[Len(q)] = s
      /\ \A i \in 1 .. Len(c.tasks) : q[i] = c.tasks[i]
  BY <1>1, AppendProperties
<1>3. PostTask(c, s) \in Context(Sticks) /\ PostTask(c, s).tasks = q
  BY <1>2 DEF PostTask, Context
<1>4. DOMAIN q = 1 .. Len(q) /\ DOMAIN c.tasks = 1 .. Len(c.tasks) /\ Len(c.tasks) \in Nat
  BY <1>1, <1>2
<1>. HIDE DEF q
<1>. QED  BY <1>2, <1>3, <1>4 DEF TasksOf

SetHost(x, h, c) == [x EXCEPT !.hosts[h] = c]

\* What the parts are after one of them changes.
LEMMA SetFacts ==
  ASSUME NEW x \in Relay
  PROVE  /\ \A l \in LinkNames, k \in Wire :
              /\ SetLink(x, l, k) \in Relay /\ SetLink(x, l, k).links = [x.links EXCEPT ![l] = k]
              /\ SetLink(x, l, k).sticks = x.sticks /\ SetLink(x, l, k).hosts = x.hosts
         /\ \A s \in Sticks, k \in Stick :
              /\ SetStick(x, s, k) \in Relay /\ SetStick(x, s, k).links = x.links
              /\ SetStick(x, s, k).sticks = [x.sticks EXCEPT ![s] = k] /\ SetStick(x, s, k).hosts = x.hosts
         /\ \A h \in Hosts, c \in Context(Sticks) :
              /\ SetHost(x, h, c) \in Relay /\ SetHost(x, h, c).links = x.links
              /\ SetHost(x, h, c).sticks = x.sticks /\ SetHost(x, h, c).hosts = [x.hosts EXCEPT ![h] = c]
<1>1. ASSUME NEW l \in LinkNames, NEW k \in Wire
      PROVE  /\ SetLink(x, l, k) \in Relay /\ SetLink(x, l, k).links = [x.links EXCEPT ![l] = k]
             /\ SetLink(x, l, k).sticks = x.sticks /\ SetLink(x, l, k).hosts = x.hosts
  BY DEF SetLink, Relay
<1>2. ASSUME NEW s \in Sticks, NEW k \in Stick
      PROVE  /\ SetStick(x, s, k) \in Relay /\ SetStick(x, s, k).links = x.links
             /\ SetStick(x, s, k).sticks = [x.sticks EXCEPT ![s] = k] /\ SetStick(x, s, k).hosts = x.hosts
  BY DEF SetStick, Relay
<1>3. ASSUME NEW h \in Hosts, NEW c \in Context(Sticks)
      PROVE  /\ SetHost(x, h, c) \in Relay /\ SetHost(x, h, c).links = x.links
             /\ SetHost(x, h, c).sticks = x.sticks /\ SetHost(x, h, c).hosts = [x.hosts EXCEPT ![h] = c]
  BY DEF SetHost, Relay
<1>. QED  BY <1>1, <1>2, <1>3

\* What a host does to its own sticks leaves those of the other host as they are.
Serves(x, y, h) ==
  /\ \A g \in Hosts : g # h => y.hosts[g] = x.hosts[g]
  /\ \A t \in Sticks : Host(t) # h => y.sticks[t] = x.sticks[t] /\ StateOf(y, t) = StateOf(x, t)
  /\ \A l \in LinkNames : Shaped(y.links[l])
  /\ TasksOf(y.hosts[h]) \subseteq SticksOf(h)
  /\ \A t \in SticksOf(h) : Agrees(y, t)
  /\ InTurn(y)

LEMMA HostSound ==
  ASSUME NEW x, Sound(x), NEW h \in Hosts, NEW y \in Relay, Serves(x, y, h)
  PROVE  Sound(y)
<1>1. \A t \in Sticks : Agrees(y, t)
  <2>. TAKE t \in Sticks
  <2>1. CASE Host(t) = h
    BY <2>1, Mates DEF Serves
  <2>2. CASE Host(t) # h
    <3>1. /\ Mate(t) \in Sticks /\ Host(Mate(t)) # h /\ Host(t) \in Hosts /\ Agrees(x, t)
      BY <2>2, Mates DEF Sound
    <3>2. /\ y.sticks[t] = x.sticks[t] /\ StateOf(y, t) = StateOf(x, t)
          /\ y.sticks[Mate(t)] = x.sticks[Mate(t)] /\ y.hosts[Host(t)] = x.hosts[Host(t)]
      BY <2>2, <3>1 DEF Serves
    <3>. QED  BY <3>1, <3>2 DEF Agrees
  <2>. QED  BY <2>1, <2>2
<1>2. \A g \in Hosts : TasksOf(y.hosts[g]) \subseteq SticksOf(g)
  BY DEF Sound, Serves
<1>. QED  BY <1>1, <1>2 DEF Sound, Serves

\* An end of a link is closed: the states of the other ends stay.
LEMMA CloseLink ==
  ASSUME NEW x, Sound(x), NEW s \in Sticks, NEW y \in Relay,
         y.links = [x.links EXCEPT ![Link(s)] = Close(x.links[Link(s)], EndOf(s))]
  PROVE  /\ \A l \in LinkNames : Shaped(y.links[l])
         /\ StateOf(y, s) = IF HasSocket(x, s) THEN "closed" ELSE StateOf(x, s)
         /\ \A t \in Sticks : t # s => StateOf(y, t) = StateOf(x, t)
<1>. DEFINE l == x.links[Link(s)]
            k == Close(l, EndOf(s))
<1>1. x \in Relay /\ Link(s) \in LinkNames /\ EndOf(s) \in Ends /\ l \in Wire /\ Shaped(l)
  BY Mates, RelayFields DEF Sound
<1>2. /\ k \in Wire /\ k[EndOf(s)].state = IF HasFd(l, EndOf(s)) THEN "closed" ELSE l[EndOf(s)].state
      /\ k[Peer(EndOf(s))].state = l[Peer(EndOf(s))].state
  BY <1>1, CloseStates
<1>3. y.links[Link(s)] = k /\ \A n \in LinkNames : n # Link(s) => y.links[n] = x.links[n]
  BY <1>1, RelayFields
<1>4. \A t \in Sticks : t # s => StateOf(y, t) = StateOf(x, t)
  <2>. TAKE t \in Sticks
  <2>1. CASE Link(t) = Link(s) /\ t # s
    <3>1. EndOf(t) \in Ends /\ EndOf(t) # EndOf(s)
      BY <2>1, Mates
    <3>2. EndOf(t) = Peer(EndOf(s))
      BY <1>1, <3>1 DEF Ends, Peer
    <3>. QED  BY <1>2, <1>3, <2>1, <3>2 DEF StateOf
  <2>2. CASE Link(t) # Link(s)
    BY <1>3, <2>2, Mates DEF StateOf
  <2>. QED  BY <2>1, <2>2
<1>5. Shaped(k)
  <2>1. CASE EndOf(s) = "near"
    BY <1>1, <1>2, <2>1 DEF Shaped, Peer, HasFd
  <2>2. CASE EndOf(s) = "far"
    BY <1>1, <1>2, <2>2 DEF Shaped, Peer, HasFd
  <2>. QED  BY <1>1, <2>1, <2>2 DEF Ends
<1>6. \A n \in LinkNames : Shaped(y.links[n])
  BY <1>3, <1>5 DEF Sound
<1>. QED  BY <1>2, <1>3, <1>4, <1>6 DEF StateOf, HasSocket

\* A stick closes its socket, tells its mate and posts its deletion, once.
LEMMA CloseFdDoes ==
  ASSUME NEW x \in Relay, NEW s \in Sticks
  PROVE  LET y == CloseFd(x, s)
             alone == [x.sticks[s] EXCEPT !.mate = FALSE]
             told == [x.sticks[Mate(s)] EXCEPT !.mateStatus = "discon", !.mate = FALSE]
             live == x.sticks[s].life = "live"
         IN  /\ y \in Relay
             /\ y.links = [x.links EXCEPT ![Link(s)] = Close(x.links[Link(s)], EndOf(s))]
             /\ y.sticks[s] = IF live THEN [alone EXCEPT !.life = "destroyed"] ELSE alone
             /\ y.sticks[Mate(s)] = IF x.sticks[s].mate THEN told ELSE x.sticks[Mate(s)]
             /\ \A t \in Sticks : t \notin {s, Mate(s)} => y.sticks[t] = x.sticks[t]
             /\ y.hosts = IF live THEN [x.hosts EXCEPT ![Host(s)] = PostTask(x.hosts[Host(s)], s)]
                                  ELSE x.hosts
<1>. DEFINE m == Mate(s)
            h == Host(s)
            k == Close(x.links[Link(s)], EndOf(s))
            alone == [x.sticks[s] EXCEPT !.mate = FALSE]
            told == [x.sticks[m] EXCEPT !.mateStatus = "discon", !.mate = FALSE]
            c == PostTask(x.hosts[h], s)
            x1 == SetLink(x, Link(s), k)
            x2 == SetStick(x1, s, alone)
            x3 == IF x.sticks[s].mate THEN SetStick(x2, m, told) ELSE x2
            dead == [alone EXCEPT !.life = "destroyed"]
<1>1. /\ Link(s) \in LinkNames /\ EndOf(s) \in Ends /\ h \in Hosts /\ m \in Sticks /\ m # s
      /\ x.sticks[s] \in Stick /\ x.sticks[m] \in Stick /\ k \in Wire
      /\ x.hosts[h] \in Context(Sticks) /\ c \in Context(Sticks)
  BY Mates, RelayFields, CloseStates, PostTaskFacts
<1>2. /\ alone \in Stick /\ alone.life = x.sticks[s].life /\ dead \in Stick /\ told \in Stick
  BY <1>1 DEF Stick
<1>3. [x EXCEPT !.links[Link(s)] = Close(@, EndOf(s)), !.sticks[s].mate = FALSE] = x2
  BY <1>1 DEF SetLink, SetStick, Relay
<1>. HIDE DEF alone, told, k, c, dead
<1>4. x1 \in Relay /\ x1.links = [x.links EXCEPT ![Link(s)] = k] /\ x1.sticks = x.sticks /\ x1.hosts = x.hosts
  BY <1>1, SetFacts
<1>. HIDE DEF x1
<1>5. /\ x2 \in Relay /\ x2.links = x1.links /\ x2.hosts = x.hosts
      /\ x2.sticks = [x.sticks EXCEPT ![s] = alone]
  BY <1>1, <1>2, <1>4, SetFacts
<1>. HIDE DEF x2
<1>6. x2.sticks[s] = alone /\ \A t \in Sticks : t # s => x2.sticks[t] = x.sticks[t]
  BY <1>1, <1>5, RelayFields
<1>7. NotifyDiscon(x2, m) = SetStick(x2, m, told)
  <2>1. NotifyDiscon(x2, m) = SetStick(x2, m, [x2.sticks[m] EXCEPT !.mateStatus = "discon", !.mate = FALSE])
    BY <1>1, <1>5 DEF NotifyDiscon, SetStick, Relay
  <2>. QED  BY <1>1, <1>6, <2>1 DEF told
<1>8. /\ x3 \in Relay /\ x3.links = x1.links /\ x3.hosts = x.hosts
      /\ x3.sticks[s] = alone /\ x3.sticks[m] = IF x.sticks[s].mate THEN told ELSE x.sticks[m]
      /\ \A t \in Sticks : t \notin {s, m} => x3.sticks[t] = x.sticks[t]
  <2>1. CASE x.sticks[s].mate
    <3>1. x3 = SetStick(x2, m, told)
      BY <2>1
    <3>2. /\ x3 \in Relay /\ x3.links = x1.links /\ x3.hosts = x.hosts
          /\ x3.sticks = [x2.sticks EXCEPT ![m] = told]
      BY <1>1, <1>2, <1>5, <3>1, SetFacts
    <3>. QED  BY <1>1, <1>5, <1>6, <2>1, <3>2, RelayFields
  <2>2. CASE ~ x.sticks[s].mate
    BY <1>1, <1>5, <1>6, <2>2
  <2>. QED  BY <2>1, <2>2
<1>9. CloseFd(x, s) = DeleteSelf(x3, s)
  BY <1>3, <1>7 DEF CloseFd
<1>. HIDE DEF x3
<1>10. CASE x.sticks[s].life # "live"
  <2>1. CloseFd(x, s) = x3
    BY <1>2, <1>8, <1>9, <1>10 DEF DeleteSelf
  <2>. QED  BY <1>4, <1>8, <1>10, <2>1 DEF alone, told, k
<1>11. CASE x.sticks[s].life = "live"
  <2>. DEFINE x4 == SetStick(x3, s, dead)
              x5 == SetHost(x4, h, c)
  <2>1. DeleteSelf(x3, s) = SetHost(SetStick(x3, s, [x3.sticks[s] EXCEPT !.life = "destroyed"]),
                                    h, PostTask(x3.hosts[h], s))
    BY <1>1, <1>2, <1>8, <1>11 DEF DeleteSelf, SetStick, SetHost, Relay
  <2>2. CloseFd(x, s) = x5
    BY <1>8, <1>9, <2>1 DEF dead, c
  <2>3. x4 \in Relay /\ x4.links = x1.links /\ x4.hosts = x.hosts /\ x4.sticks = [x3.sticks EXCEPT ![s] = dead]
    BY <1>2, <1>8, SetFacts
  <2>. HIDE DEF x4
  <2>4. x5 \in Relay /\ x5.links = x1.links /\ x5.sticks = x4.sticks /\ x5.hosts = [x.hosts EXCEPT ![h] = c]
    BY <1>1, <2>3, SetFacts
  <2>. HIDE DEF x5
  <2>5. x5.sticks[s] = dead /\ \A t \in Sticks : t # s => x5.sticks[t] = x3.sticks[t]
    BY <1>8, <2>3, <2>4, RelayFields
  <2>. QED  BY <1>1, <1>4, <1>8, <1>11, <2>2, <2>4, <2>5 DEF alone, told, k, c, dead
<1>. QED  BY <1>10, <1>11

LEMMA CloseFdSound ==
  ASSUME NEW x, Sound(x), NEW s \in Sticks
  PROVE  Sound(CloseFd(x, s))
<1>. DEFINE y == CloseFd(x, s)
            m == Mate(s)
            h == Host(s)
<1>1. /\ x \in Relay /\ Link(s) \in LinkNames /\ EndOf(s) \in Ends /\ h \in Hosts /\ m \in Sticks /\ m # s
      /\ Mate(m) = s /\ Host(m) = h /\ x.sticks[s] \in Stick /\ x.sticks[m] \in Stick
      /\ x.hosts[h] \in Context(Sticks) /\ Agrees(x, s) /\ Agrees(x, m)
  BY Mates, RelayFields DEF Sound
<1>2. /\ y \in Relay
      /\ y.links = [x.links EXCEPT ![Link(s)] = Close(x.links[Link(s)], EndOf(s))]
      /\ y.sticks[s] = IF x.sticks[s].life = "live"
                       THEN [[x.sticks[s] EXCEPT !.mate = FALSE] EXCEPT !.life = "destroyed"]
                       ELSE [x.sticks[s] EXCEPT !.mate = FALSE]
      /\ y.sticks[m] = IF x.sticks[s].mate
                       THEN [x.sticks[m] EXCEPT !.mateStatus = "discon", !.mate = FALSE]
                       ELSE x.sticks[m]
      /\ \A t \in Sticks : t \notin {s, m} => y.sticks[t] = x.sticks[t]
      /\ y.hosts = IF x.sticks[s].life = "live"
                   THEN [x.hosts EXCEPT ![h] = PostTask(x.hosts[h], s)] ELSE x.hosts
  BY <1>1, CloseFdDoes
<1>3. /\ \A l \in LinkNames : Shaped(y.links[l])
      /\ StateOf(y, s) = IF HasSocket(x, s) THEN "closed" ELSE StateOf(x, s)
      /\ \A t \in Sticks : t # s => StateOf(y, t) = StateOf(x, t)
  BY <1>2, CloseLink
<1>. HIDE DEF y
<1>4. /\ y.sticks[s].life = IF x.sticks[s].life = "live" THEN "destroyed" ELSE x.sticks[s].life
      /\ y.sticks[s].mate = FALSE /\ y.sticks[s].mateStatus = x.sticks[s].mateStatus
      /\ y.sticks[s].parsed = x.sticks[s].parsed
      /\ y.sticks[m].life = x.sticks[m].life /\ y.sticks[m].parsed = x.sticks[m].parsed
      /\ y.sticks[m].mate = IF x.sticks[s].mate THEN FALSE ELSE x.sticks[m].mate
      /\ y.sticks[m].mateStatus = IF x.sticks[s].mate THEN "discon" ELSE x.sticks[m].mateStatus
  BY <1>1, <1>2 DEF Stick
<1>5. /\ TasksOf(y.hosts[h]) = IF x.sticks[s].life = "live" THEN TasksOf(x.hosts[h]) \cup {s}
                               ELSE TasksOf(x.hosts[h])
      /\ \A g \in Hosts : g # h => y.hosts[g] = x.hosts[g]
  BY <1>1, <1>2, RelayFields, PostTaskFacts
<1>6. Agrees(y, s) /\ Agrees(y, m)
  BY <1>1, <1>3, <1>4, <1>5, HasSocketLive DEF Agrees
<1>7. SticksOf(h) = {s, m}
  BY Names DEF Sticks
<1>8. \A t \in Sticks : Host(t) # h => y.sticks[t] = x.sticks[t] /\ StateOf(y, t) = StateOf(x, t)
  BY <1>1, <1>2, <1>3
<1>9. InTurn(y)
  <2>1. InTurn(x)
    BY DEF Sound
  <2>2. \A t \in Sticks : /\ y.sticks[t].life = "none" <=> x.sticks[t].life = "none"
                          /\ y.sticks[t].parsed = x.sticks[t].parsed
    BY <1>1, <1>2, <1>4
  <2>3. \A t \in Sticks : x.sticks[t].life = "none" => StateOf(y, t) = StateOf(x, t)
    BY <1>3, HasSocketLive
  <2>. QED  BY <2>1, <2>2, <2>3 DEF InTurn, Sticks
<1>10. TasksOf(y.hosts[h]) \subseteq SticksOf(h)
  BY <1>1, <1>5, <1>7 DEF Sound
<1>11. Sound(y)
  <2>1. \A t \in SticksOf(h) : Agrees(y, t)
    BY <1>6, <1>7
  <2>2. h \in Hosts /\ y \in Relay
    BY <1>1, <1>2
  <2>. HIDE DEF h
  <2>3. Serves(x, y, h)
    BY <1>3, <1>5, <1>8, <1>9, <1>10, <2>1 DEF Serves
  <2>. QED  BY <2>2, <2>3, HostSound
<1>. QED  BY <1>11 DEF y

StateIn(links, s) == links[Link(s)][EndOf(s)].state

LEMMA CloseSocketFacts ==
  ASSUME NEW links \in [LinkNames -> Wire], \A l \in LinkNames : Shaped(links[l]), NEW s \in Sticks
  PROVE  /\ CloseSocketOf(links, s) \in [LinkNames -> Wire]
         /\ \A l \in LinkNames : Shaped(CloseSocketOf(links, s)[l])
         /\ StateIn(CloseSocketOf(links, s), s) = IF StateIn(links, s) = "none" THEN "none" ELSE "closed"
         /\ \A t \in Sticks : t # s => StateIn(CloseSocketOf(links, s), t) = StateIn(links, t)
<1>. DEFINE e == EndOf(s)
            l == links[Link(s)]
            j == IF e = "far" THEN Abandon(l) ELSE l
            k == Close(j, e)
            y == CloseSocketOf(links, s)
<1>1. /\ Link(s) \in LinkNames /\ e \in Ends /\ l \in Wire /\ Shaped(l)
      /\ l[e].state \in {"none", "connecting", "queued", "open", "closed"}
  BY Mates, WireFields
<1>2. y = [links EXCEPT ![Link(s)] = k]
  BY <1>1 DEF CloseSocketOf
<1>3. /\ j \in Wire /\ j[Peer(e)].state = l[Peer(e)].state
      /\ j[e].state = IF e = "far" /\ l[e].state = "queued" THEN "closed" ELSE l[e].state
  BY <1>1, OtherLinkCalls, WireFields DEF Peer
<1>. HIDE DEF j
<1>4. /\ k \in Wire /\ k[e].state = (IF HasFd(j, e) THEN "closed" ELSE j[e].state)
      /\ k[Peer(e)].state = j[Peer(e)].state
  BY <1>1, <1>3, CloseStates
<1>5. k[e].state = IF l[e].state = "none" THEN "none" ELSE "closed"
  BY <1>1, <1>3, <1>4 DEF HasFd, Shaped, Ends
<1>. HIDE DEF k
<1>6. y[Link(s)] = k /\ (\A n \in LinkNames : n # Link(s) => y[n] = links[n]) /\ y \in [LinkNames -> Wire]
  BY <1>1, <1>2, <1>4
<1>. HIDE DEF y
<1>7. Shaped(k)
  <2>1. CASE e = "near"
    BY <1>1, <1>3, <1>4, <1>5, <2>1 DEF Shaped, Peer
  <2>2. CASE e = "far"
    BY <1>1, <1>3, <1>4, <1>5, <2>2 DEF Shaped, Peer
  <2>. QED  BY <1>1, <2>1, <2>2 DEF Ends
<1>8. \A n \in LinkNames : Shaped(y[n])
  BY <1>6, <1>7
<1>9. \A t \in Sticks : t # s => StateIn(y, t) = StateIn(links, t)
  <2>. TAKE t \in Sticks
  <2>1. CASE Link(t) = Link(s) /\ t # s
    <3>1. EndOf(t) \in Ends /\ EndOf(t) # e
      BY <2>1, Mates
    <3>2. EndOf(t) = Peer(e)
      BY <1>1, <3>1 DEF Ends, Peer
    <3>. QED  BY <1>3, <1>4, <1>6, <2>1, <3>2 DEF StateIn
  <2>2. CASE Link(t) # Link(s)
    BY <1>6, <2>2, Mates DEF StateIn
  <2>. QED  BY <2>1, <2>2
<1>. QED  BY <1>5, <1>6, <1>8, <1>9 DEF y, StateIn

LEMMA CloseSocketsFacts ==
  ASSUME NEW links \in [LinkNames -> Wire], \A l \in LinkNames : Shaped(links[l]), NEW h \in Hosts
  PROVE  /\ CloseSocketsOf(links, h) \in [LinkNames -> Wire]
         /\ \A l \in LinkNames : Shaped(CloseSocketsOf(links, h)[l])
         /\ \A s \in Sticks :
              StateIn(CloseSocketsOf(links, h), s) =
                IF Host(s) # h THEN StateIn(links, s)
                ELSE IF StateIn(links, s) = "none" THEN "none" ELSE "closed"
<1>1. CASE h = "B"
  <2>. DEFINE y == CloseSocketOf(links, "BL")
              z == CloseSocketOf(y, "BR")
  <2>0. "BL" \in Sticks /\ "BR" \in Sticks
    BY DEF Sticks
  <2>1. /\ y \in [LinkNames -> Wire] /\ \A l \in LinkNames : Shaped(y[l])
        /\ StateIn(y, "BL") = IF StateIn(links, "BL") = "none" THEN "none" ELSE "closed"
        /\ \A t \in Sticks : t # "BL" => StateIn(y, t) = StateIn(links, t)
    BY <2>0, CloseSocketFacts
  <2>. HIDE DEF y
  <2>2. /\ z \in [LinkNames -> Wire] /\ \A l \in LinkNames : Shaped(z[l])
        /\ StateIn(z, "BR") = IF StateIn(y, "BR") = "none" THEN "none" ELSE "closed"
        /\ \A t \in Sticks : t # "BR" => StateIn(z, t) = StateIn(y, t)
    BY <2>0, <2>1, CloseSocketFacts
  <2>3. CloseSocketsOf(links, h) = z
    BY <1>1 DEF CloseSocketsOf, y
  <2>. HIDE DEF z
  <2>. QED  BY <1>1, <2>1, <2>2, <2>3, Names DEF Sticks
<1>2. CASE h = "C"
  <2>. DEFINE y == CloseSocketOf(links, "CL")
              z == CloseSocketOf(y, "CR")
  <2>0. "CL" \in Sticks /\ "CR" \in Sticks
    BY DEF Sticks
  <2>1. /\ y \in [LinkNames -> Wire] /\ \A l \in LinkNames : Shaped(y[l])
        /\ StateIn(y, "CL") = IF StateIn(links, "CL") = "none" THEN "none" ELSE "closed"
        /\ \A t \in Sticks : t # "CL" => StateIn(y, t) = StateIn(links, t)
    BY <2>0, CloseSocketFacts
  <2>. HIDE DEF y
  <2>2. /\ z \in [LinkNames -> Wire] /\ \A l \in LinkNames : Shaped(z[l])
        /\ StateIn(z, "CR") = IF StateIn(y, "CR") = "none" THEN "none" ELSE "closed"
        /\ \A t \in Sticks : t # "CR" => StateIn(z, t) = StateIn(y, t)
    BY <2>0, <2>1, CloseSocketFacts
  <2>3. CloseSocketsOf(links, h) = z
    BY <1>2 DEF CloseSocketsOf, y
  <2>. HIDE DEF z
  <2>. QED  BY <1>2, <2>1, <2>2, <2>3, Names DEF Sticks
<1>. QED  BY <1>1, <1>2 DEF Hosts

\* The end of a host leaves no stick alive and no task.
LEMMA EndSound ==
  ASSUME NEW x, Sound(x), NEW h \in Hosts
  PROVE  Sound(End_(x, h))
<1>. DEFINE links == CloseSocketsOf(x.links, h)
            sticks == [s \in Sticks |-> IF Host(s) = h THEN EndStick(x.sticks[s]) ELSE x.sticks[s]]
            c == Destroy(x.hosts[h])
            hosts == [x.hosts EXCEPT ![h] = c]
            y == End_(x, h)
<1>1. /\ x \in Relay /\ x.links \in [LinkNames -> Wire] /\ \A l \in LinkNames : Shaped(x.links[l])
      /\ x.hosts[h] \in Context(Sticks) /\ x.hosts \in [Hosts -> Context(Sticks)]
  BY RelayFields DEF Sound
<1>2. y = [links |-> links, sticks |-> sticks, hosts |-> hosts]
  <2>1. y = [x EXCEPT !.links = links, !.sticks = sticks, !.hosts[h] = c]
    BY Zenon DEF End_
  <2>. HIDE DEF links, sticks, c, y
  <2>. QED  BY <1>1, <2>1 DEF Relay
<1>3. /\ links \in [LinkNames -> Wire] /\ \A l \in LinkNames : Shaped(links[l])
      /\ \A s \in Sticks : StateIn(links, s) =
            IF Host(s) # h THEN StateIn(x.links, s)
            ELSE IF StateIn(x.links, s) = "none" THEN "none" ELSE "closed"
  BY <1>1, CloseSocketsFacts
<1>4. \A k \in Stick : /\ EndStick(k) \in Stick
                       /\ EndStick(k).life = IF k.life = "none" THEN "none" ELSE "deleted"
                       /\ EndStick(k).mate = FALSE /\ EndStick(k).mateStatus = k.mateStatus
                       /\ EndStick(k).parsed = k.parsed
  BY DEF EndStick, Stick
<1>5. c \in Context(Sticks) /\ TasksOf(c) = {}
  <2>1. <<>> \in Seq(Sticks) /\ DOMAIN <<>> = {} /\ {} \in SUBSET Sticks
    OBVIOUS
  <2>2. c \in Context(Sticks) /\ c.tasks = <<>>
    BY <1>1, <2>1 DEF Destroy, Context
  <2>. HIDE DEF c
  <2>. QED  BY <2>1, <2>2 DEF TasksOf
<1>6. \A s \in Sticks : x.sticks[s] \in Stick
  BY <1>1, RelayFields
<1>7. sticks \in [Sticks -> Stick]
  BY <1>4, <1>6
<1>8. \A s \in Sticks : sticks[s] = IF Host(s) = h THEN EndStick(x.sticks[s]) ELSE x.sticks[s]
  OBVIOUS
<1>9. hosts \in [Hosts -> Context(Sticks)] /\ hosts[h] = c /\ \A g \in Hosts : g # h => hosts[g] = x.hosts[g]
  BY <1>1, <1>5
<1>. HIDE DEF links, sticks, hosts, c, y
<1>10. y.links = links /\ y.sticks = sticks /\ y.hosts = hosts /\ y \in Relay
  BY <1>2, <1>3, <1>7, <1>9 DEF Relay
<1>11. \A s \in Sticks : StateOf(y, s) = IF Host(s) # h THEN StateOf(x, s)
                                         ELSE IF StateOf(x, s) = "none" THEN "none" ELSE "closed"
  BY <1>3, <1>10 DEF StateOf, StateIn
<1>12. \A s \in SticksOf(h) : Agrees(y, s)
  <2>. TAKE s \in SticksOf(h)
  <2>1. /\ s \in Sticks /\ Host(s) = h /\ Mate(s) \in Sticks /\ Host(Mate(s)) = h
        /\ x.sticks[s] \in Stick /\ x.sticks[Mate(s)] \in Stick /\ Agrees(x, s)
    BY <1>6, Mates DEF SticksOf, Sound
  <2>2. /\ y.sticks[s] = EndStick(x.sticks[s]) /\ y.sticks[Mate(s)] = EndStick(x.sticks[Mate(s)])
        /\ TasksOf(y.hosts[h]) = {}
        /\ StateOf(y, s) = IF StateOf(x, s) = "none" THEN "none" ELSE "closed"
    BY <1>5, <1>8, <1>9, <1>10, <1>11, <2>1
  <2>3. /\ y.sticks[s].life = IF x.sticks[s].life = "none" THEN "none" ELSE "deleted"
        /\ y.sticks[s].mate = FALSE /\ y.sticks[s].mateStatus = x.sticks[s].mateStatus
        /\ y.sticks[Mate(s)].life = IF x.sticks[Mate(s)].life = "none" THEN "none" ELSE "deleted"
    BY <1>4, <2>1, <2>2
  <2>. QED  BY <2>1, <2>2, <2>3 DEF Agrees
<1>13. InTurn(y)
  <2>1. \A s \in Sticks : /\ y.sticks[s].life = "none" <=> x.sticks[s].life = "none"
                          /\ y.sticks[s].parsed = x.sticks[s].parsed
    BY <1>4, <1>6, <1>8, <1>10
  <2>2. InTurn(x)
    BY DEF Sound
  <2>. QED  BY <1>11, <2>1, <2>2 DEF InTurn, Sticks
<1>14. /\ \A g \in Hosts : g # h => y.hosts[g] = x.hosts[g]
       /\ \A t \in Sticks : Host(t) # h => y.sticks[t] = x.sticks[t] /\ StateOf(y, t) = StateOf(x, t)
       /\ TasksOf(y.hosts[h]) \subseteq SticksOf(h)
       /\ \A l \in LinkNames : Shaped(y.links[l])
  BY <1>3, <1>5, <1>8, <1>9, <1>10, <1>11
<1>15. Sound(y)
  <2>1. Serves(x, y, h)
    BY <1>12, <1>13, <1>14 DEF Serves
  <2>. QED  BY <1>10, <2>1, HostSound
<1>. QED  BY <1>15 DEF y

-------------------------------------------------------------------------------
(* The callbacks of a stick. *)

LEMMA FlushBufferSound ==
  ASSUME NEW x, Sound(x), NEW s \in Sticks
  PROVE  Sound(FlushBuffer(x, s))
<1>. DEFINE wb == x.sticks[s].wb
            link == x.links[Link(s)]
            n == Taken(link, EndOf(s), Len(wb))
            l == Send(link, EndOf(s), wb)
            u == SubSeq(wb, n + 1, Len(wb))
            k == [x.sticks[s] EXCEPT !.wb = u]
            y == SetStick(SetLink(x, Link(s), l), s, k)
<1>1. /\ x \in Relay /\ Link(s) \in LinkNames /\ EndOf(s) \in Ends /\ Host(s) \in Hosts
      /\ x.sticks[s] \in Stick /\ wb \in Seq(Nat) /\ link \in Wire /\ Len(wb) \in Nat
  BY Mates, StickFields DEF Sound
<1>2. [x EXCEPT !.links[Link(s)] = Send(@, EndOf(s), wb), !.sticks[s].wb = SubSeq(@, n + 1, Len(@))] = y
  BY <1>1 DEF SetLink, SetStick, Relay
<1>3. SameStates(link, l)
  BY <1>1, SendKeepsStates
<1>4. n \in 0 .. Len(wb)
  BY <1>1, LinkData
<1>5. u \in Seq(Nat)
  <2>. HIDE DEF n
  <2>. QED  BY <1>1, <1>4, Split
<1>. HIDE DEF u, l
<1>6. /\ k \in Stick /\ k.life = x.sticks[s].life /\ k.mate = x.sticks[s].mate
      /\ k.parsed = x.sticks[s].parsed /\ k.mateStatus = x.sticks[s].mateStatus
  BY <1>1, <1>5 DEF Stick
<1>. HIDE DEF k
<1>7. Sound(SetLink(x, Link(s), l)) /\ SetLink(x, Link(s), l).sticks = x.sticks
  BY <1>1, <1>3, LinkSound
<1>8. Sound(y)
  BY <1>6, <1>7, StickSound
<1>. HIDE DEF y
<1>9. Sound(End_(x, Host(s)))
  BY <1>1, EndSound
<1>10. FlushBuffer(x, s) = x \/ FlushBuffer(x, s) = End_(x, Host(s)) \/ FlushBuffer(x, s) = y
  BY <1>2 DEF FlushBuffer
<1>. QED  BY <1>8, <1>9, <1>10

LEMMA OnWriteEventSound ==
  ASSUME NEW x, Sound(x), NEW s \in Sticks
  PROVE  Sound(OnWriteEvent(x, s))
<1>. DEFINE y == FlushBuffer(x, s)
<1>1. Sound(y)
  BY FlushBufferSound
<1>2. OnWriteEvent(x, s) = IF Gone(y, s) THEN y ELSE CheckCloseFd(y, s)
  BY DEF OnWriteEvent, Then
<1>. HIDE DEF y
<1>3. CheckCloseFd(y, s) \in {y, CloseFd(y, s)}
  BY DEF CheckCloseFd
<1>. QED  BY <1>1, <1>2, <1>3, CloseFdSound

LEMMA ReadOnSound ==
  ASSUME NEW x, Sound(x), NEW s \in Sticks
  PROVE  Sound(ReadOn(x, s))
<1>. DEFINE k == ErrorRead(x.links[Link(s)], EndOf(s))
<1>1. Link(s) \in LinkNames /\ SameStates(x.links[Link(s)], k)
  BY Mates, StickFields, LinkData
<1>2. ReadOn(x, s) \in {x, CloseFd(x, s), SetLink(x, Link(s), k)}
  BY DEF ReadOn, SetLink
<1>. HIDE DEF k
<1>. QED  BY <1>1, <1>2, CloseFdSound, LinkSound

LEMMA OnReadEventSound ==
  ASSUME NEW x, Sound(x), NEW s \in Sticks
  PROVE  Sound(OnReadEvent(x, s))
<1>. DEFINE data == Unread(x, s)
            y == ReadUnits(x, s, Len(data))
            z == Sink(y, Mate(s), data)
            w == ReadUnits(x, s, 1)
<1>1. data \in Seq(Nat) /\ Len(data) \in Nat /\ Mate(s) \in Sticks /\ (data # <<>> => Len(data) >= 1)
  BY StickFields, Mates
<1>2. Sound(z)
  <2>1. Sound(y)
    BY <1>1, ReadUnitsSound
  <2>. HIDE DEF y
  <2>. QED  BY <1>1, <2>1, SinkSound
<1>3. data # <<>> => Sound(w)
  BY <1>1, ReadUnitsSound
<1>4. OnReadEvent(x, s) =
        IF ~ HasSocket(x, s) THEN x
        ELSE IF data = <<>> THEN ReadOn(x, s)
        ELSE IF x.sticks[s].mate THEN ReadOn(z, s) ELSE CloseFd(w, s)
  BY DEF OnReadEvent, Then
<1>. HIDE DEF data, z, w
<1>. QED  BY <1>2, <1>3, <1>4, ReadOnSound, CloseFdSound

\* A right stick that connects tells its mate, whose right stick lives.
LEMMA RightConnectedSound ==
  ASSUME NEW x, Sound(x), NEW s \in Sticks
  PROVE  Sound(RightConnected(x, s))
<1>. DEFINE m == Mate(s)
            k == [x.sticks[s] EXCEPT !.own = "connected"]
            y == SetStick(x, s, k)
            j == [x.sticks[m] EXCEPT !.mateStatus = "connected"]
            z == SetStick(y, m, j)
<1>1. /\ x \in Relay /\ x.sticks[s] \in Stick /\ x.sticks[m] \in Stick /\ m \in Sticks /\ m # s
  BY Mates, StickFields DEF Sound
<1>2. /\ k \in Stick /\ k.life = x.sticks[s].life /\ k.mate = x.sticks[s].mate
      /\ k.parsed = x.sticks[s].parsed /\ k.mateStatus = x.sticks[s].mateStatus
  BY <1>1 DEF Stick
<1>3. /\ j \in Stick /\ j.life = x.sticks[m].life /\ j.mate = x.sticks[m].mate
      /\ j.parsed = x.sticks[m].parsed /\ j.mateStatus # "discon"
  BY <1>1 DEF Stick
<1>4. [x EXCEPT !.sticks[s].own = "connected"] = y
  BY <1>1 DEF SetStick, Relay
<1>. HIDE DEF k
<1>5. Sound(y) /\ y.sticks[m] = x.sticks[m]
  BY <1>1, <1>2, StickSound
<1>. HIDE DEF y
<1>6. [y EXCEPT !.sticks[m].mateStatus = "connected"] = z
  <2>1. y \in Relay
    BY <1>5 DEF Sound
  <2>. QED  BY <1>1, <1>5, <2>1 DEF SetStick, Relay
<1>. HIDE DEF j
<1>7. Sound(z)
  BY <1>1, <1>3, <1>5, StickSound
<1>8. RightConnected(x, s) \in {x, y, z}
  BY <1>4, <1>6 DEF RightConnected
<1>. HIDE DEF z
<1>. QED  BY <1>5, <1>7, <1>8

-------------------------------------------------------------------------------
(* Sticks come and go. *)

LeftStick == [NewStick EXCEPT !.own = "connected"]
NewLeft(x, s) == SetStick(SetLink(x, Link(s), Accept(x.links[Link(s)])), s, LeftStick)

LEMMA NewSticks ==
  /\ \A first \in Seq(Nat) :
       LET k == [NewStick EXCEPT !.wb = first]
           j == [NewStick EXCEPT !.own = "connecting", !.mate = TRUE, !.wb = first]
       IN  /\ k \in Stick /\ k.life = "live" /\ k.mate = FALSE /\ k.mateStatus = "min"
           /\ k.wb = first /\ k.parsed = FALSE
           /\ j \in Stick /\ j.life = "live" /\ j.mate = TRUE /\ j.mateStatus = "min"
           /\ j.wb = first /\ j.parsed = FALSE
  /\ LeftStick \in Stick /\ LeftStick.life = "live" /\ LeftStick.mate = FALSE
  /\ LeftStick.mateStatus = "min" /\ LeftStick.parsed = FALSE
<1>1. NoStick \in Stick /\ NoStick.mate = FALSE /\ NoStick.mateStatus = "min" /\ NoStick.parsed = FALSE
  <2>1. <<>> \in Seq(Nat)
    OBVIOUS
  <2>. QED  BY <2>1 DEF NoStick, Stick
<1>2. /\ NewStick \in Stick /\ NewStick.life = "live" /\ NewStick.mate = FALSE
      /\ NewStick.mateStatus = "min" /\ NewStick.parsed = FALSE
  BY <1>1 DEF NewStick, Stick
<1>3. /\ LeftStick \in Stick /\ LeftStick.life = "live" /\ LeftStick.mate = FALSE
      /\ LeftStick.mateStatus = "min" /\ LeftStick.parsed = FALSE
  BY <1>2 DEF LeftStick, Stick
<1>4. ASSUME NEW first \in Seq(Nat)
      PROVE  LET k == [NewStick EXCEPT !.wb = first]
                 j == [NewStick EXCEPT !.own = "connecting", !.mate = TRUE, !.wb = first]
             IN  /\ k \in Stick /\ k.life = "live" /\ k.mate = FALSE /\ k.mateStatus = "min"
                 /\ k.wb = first /\ k.parsed = FALSE
                 /\ j \in Stick /\ j.life = "live" /\ j.mate = TRUE /\ j.mateStatus = "min"
                 /\ j.wb = first /\ j.parsed = FALSE
  BY <1>2 DEF Stick
<1>. QED  BY <1>3, <1>4

\* A connection is accepted: the left stick lives, the right one does not exist yet.
LEMMA NewLeftSound ==
  ASSUME NEW x, Sound(x), NEW s \in {"BL", "CL"}, x.links[Link(s)]["far"].state = "queued"
  PROVE  /\ Sound(NewLeft(x, s))
         /\ NewLeft(x, s).sticks[s].life = "live" /\ NewLeft(x, s).sticks[Mate(s)].life = "none"
<1>. DEFINE m == Mate(s)
            h == Host(s)
            l == x.links[Link(s)]
            k == Accept(l)
            x1 == SetLink(x, Link(s), k)
            y == NewLeft(x, s)
<1>1. /\ x \in Relay /\ s \in Sticks /\ Link(s) \in LinkNames /\ EndOf(s) = "far" /\ h \in Hosts
      /\ m \in {"BR", "CR"} /\ m \in Sticks /\ m # s /\ Mate(m) = s /\ Host(m) = h /\ SticksOf(h) = {s, m}
  BY Names DEF Sound, Sticks, LinkNames, Hosts
<1>2. l \in Wire /\ Shaped(l) /\ Agrees(x, s) /\ Agrees(x, m) /\ InTurn(x) /\ StateOf(x, s) = "queued"
  BY <1>1, RelayFields DEF Sound, StateOf
<1>3. x.sticks[s].life = "none"
  BY <1>2 DEF Agrees
<1>4. x.sticks[m].life = "none"
  BY <1>2, <1>3, Names DEF InTurn
<1>5. k \in Wire /\ k["far"].state = "open" /\ k["near"] = l["near"]
  BY <1>2, OtherLinkCalls
<1>. HIDE DEF k
<1>6. x1 \in Relay /\ x1.links = [x.links EXCEPT ![Link(s)] = k] /\ x1.sticks = x.sticks /\ x1.hosts = x.hosts
  BY <1>1, <1>5, SetFacts
<1>7. y = SetStick(x1, s, LeftStick)
  BY DEF NewLeft, k
<1>. HIDE DEF x1, y
<1>8. /\ y \in Relay /\ y.links = x1.links /\ y.hosts = x.hosts
      /\ y.sticks = [x.sticks EXCEPT ![s] = LeftStick]
  <2>1. s \in Sticks /\ LeftStick \in Stick
    BY <1>1, NewSticks
  <2>. QED  BY <1>6, <1>7, <2>1, SetFacts
<1>9. /\ y.sticks[s] = LeftStick /\ \A t \in Sticks : t # s => y.sticks[t] = x.sticks[t]
      /\ y.links[Link(s)] = k /\ \A n \in LinkNames : n # Link(s) => y.links[n] = x.links[n]
  BY <1>1, <1>6, <1>8, RelayFields
<1>10. StateOf(y, s) = "open" /\ \A t \in Sticks : t # s => StateOf(y, t) = StateOf(x, t)
  <2>1. StateOf(y, s) = "open"
    BY <1>1, <1>5, <1>9 DEF StateOf
  <2>2. ASSUME NEW t \in Sticks, t # s  PROVE StateOf(y, t) = StateOf(x, t)
    <3>1. CASE Link(t) = Link(s)
      <4>1. EndOf(t) \in Ends /\ EndOf(t) # "far"
        BY <1>1, <2>2, <3>1, Mates
      <4>2. EndOf(t) = "near"
        BY <4>1 DEF Ends
      <4>. QED  BY <1>5, <1>9, <3>1, <4>2 DEF StateOf
    <3>2. CASE Link(t) # Link(s)
      BY <1>9, <3>2, Mates DEF StateOf
    <3>. QED  BY <3>1, <3>2
  <2>. QED  BY <2>1, <2>2
<1>11. Agrees(y, s) /\ Agrees(y, m)
  <2>1. x.sticks[s].life # "live" /\ x.sticks[s].life # "destroyed"
    BY <1>3
  <2>2. s \notin TasksOf(y.hosts[h]) /\ m \notin TasksOf(y.hosts[h])
    BY <1>1, <1>2, <1>3, <1>4, <1>8 DEF Agrees
  <2>3. Agrees(y, s)
    BY <1>1, <1>9, <1>10, <2>2, NewSticks DEF Agrees
  <2>4. ~ x.sticks[m].mate /\ x.sticks[m].mateStatus # "discon"
    BY <1>1, <1>2, <1>3 DEF Agrees
  <2>5. StateOf(y, m) = "none"
    BY <1>1, <1>2, <1>4, <1>10 DEF InTurn
  <2>6. Agrees(y, m)
    BY <1>1, <1>4, <1>9, <2>2, <2>4, <2>5 DEF Agrees
  <2>. QED  BY <2>3, <2>6
<1>12. InTurn(y)
  <2>1. \A t \in {"BR", "CR"} : y.sticks[t] = x.sticks[t] /\ StateOf(y, t) = StateOf(x, t)
    BY <1>1, <1>9, <1>10 DEF Sticks
  <2>2. /\ y.sticks["BL"].life = "none" => x.sticks["BL"].life = "none"
        /\ y.sticks["CL"].life = "none" \/ ~ y.sticks["CL"].parsed =>
             x.sticks["CL"].life = "none" \/ ~ x.sticks["CL"].parsed
    BY <1>1, <1>3, <1>9, NewSticks DEF Sticks
  <2>. QED  BY <1>2, <2>1, <2>2 DEF InTurn
<1>13. \A n \in LinkNames : Shaped(y.links[n])
  <2>1. Shaped(k)
    BY <1>1, <1>2, <1>5 DEF Shaped, StateOf
  <2>. QED  BY <1>9, <2>1 DEF Sound
<1>14. Sound(y)
  <2>1. /\ \A g \in Hosts : g # h => y.hosts[g] = x.hosts[g]
        /\ \A t \in Sticks : Host(t) # h => y.sticks[t] = x.sticks[t] /\ StateOf(y, t) = StateOf(x, t)
        /\ TasksOf(y.hosts[h]) \subseteq SticksOf(h) /\ \A t \in SticksOf(h) : Agrees(y, t)
        /\ h \in Hosts /\ y \in Relay
    BY <1>1, <1>8, <1>9, <1>10, <1>11 DEF Sound
  <2>. HIDE DEF h
  <2>2. Serves(x, y, h)
    BY <1>12, <1>13, <2>1 DEF Serves
  <2>. QED  BY <2>1, <2>2, HostSound
<1>. QED  BY <1>1, <1>4, <1>9, <1>14, NewSticks DEF y

\* The right stick of a left stick that lives and has none yet.
ReadyFor(x, r) ==
  /\ x.sticks[Mate(r)].life = "live" /\ x.sticks[r].life = "none"
  /\ r = "CR" => x.sticks["CL"].parsed

\* The link of a right stick that does not exist is not used yet.
LEMMA Unused ==
  ASSUME NEW x, Sound(x), NEW r \in {"BR", "CR"}, ReadyFor(x, r)
  PROVE  /\ x.links[Link(r)]["near"].state = "none" /\ x.links[Link(r)]["far"].state = "none"
         /\ x.sticks[Mate(r)].mate = FALSE /\ x.sticks[Mate(r)].mateStatus # "discon"
         /\ r \notin TasksOf(x.hosts[Host(r)]) /\ Mate(r) \notin TasksOf(x.hosts[Host(r)])
<1>1. /\ r \in Sticks /\ Mate(r) \in Sticks /\ Mate(Mate(r)) = r /\ Link(r) \in LinkNames /\ EndOf(r) = "near"
      /\ Host(Mate(r)) = Host(r) /\ x.sticks[Mate(r)] \in Stick
  BY Names, RelayFields DEF Sticks, LinkNames, Sound
<1>2. /\ Agrees(x, r) /\ Agrees(x, Mate(r)) /\ InTurn(x) /\ Shaped(x.links[Link(r)])
      /\ x.sticks[Mate(r)].life = "live" /\ x.sticks[r].life = "none"
  BY <1>1 DEF Sound, ReadyFor
<1>3. StateOf(x, r) = "none"
  BY <1>2 DEF InTurn
<1>4. ~ x.sticks[Mate(r)].mate /\ x.sticks[Mate(r)].mateStatus # "discon"
  BY <1>1, <1>2 DEF Agrees
<1>5. x.sticks[Mate(r)].mate = FALSE
  BY <1>1, <1>4 DEF Stick
<1>6. r \notin TasksOf(x.hosts[Host(r)]) /\ Mate(r) \notin TasksOf(x.hosts[Host(r)])
  BY <1>1, <1>2 DEF Agrees
<1>. QED  BY <1>1, <1>2, <1>3, <1>4, <1>5, <1>6 DEF StateOf, Shaped

\* A new right stick, given what the parts of its host are afterwards.
NewRight(x, y, r, k, first) ==
  /\ y \in Relay /\ k \in Wire
  /\ k["near"].state \in {"connecting", "closed"} /\ k["far"].state = "none"
  /\ y.links = [x.links EXCEPT ![Link(r)] = k]
  /\ \A t \in Sticks : Host(t) # Host(r) => y.sticks[t] = x.sticks[t]
  /\ \A g \in Hosts : g # Host(r) => y.hosts[g] = x.hosts[g]
  /\ y.sticks[r].life = IF k["near"].state = "connecting" THEN "live" ELSE "destroyed"
  /\ y.sticks[r].mateStatus = "min" /\ y.sticks[Mate(r)].life = "live"
  /\ y.sticks[r].mate = (k["near"].state = "connecting") /\ y.sticks[Mate(r)].mate = y.sticks[r].mate
  /\ y.sticks[Mate(r)].mateStatus = x.sticks[Mate(r)].mateStatus
  /\ y.sticks[Mate(r)].parsed = x.sticks[Mate(r)].parsed
  /\ y.sticks[Mate(r)].wb = x.sticks[Mate(r)].wb
  /\ y.sticks[r].wb = first /\ y.sticks[r].parsed = FALSE
  /\ TasksOf(y.hosts[Host(r)]) = IF k["near"].state = "connecting" THEN TasksOf(x.hosts[Host(r)])
                                 ELSE TasksOf(x.hosts[Host(r)]) \cup {r}

LEMMA NewRightSound ==
  ASSUME NEW x, Sound(x), NEW r \in {"BR", "CR"}, ReadyFor(x, r), NEW y, NEW k, NEW first,
         NewRight(x, y, r, k, first)
  PROVE  Sound(y)
<1>. DEFINE m == Mate(r)
            h == Host(r)
<1>1. /\ x \in Relay /\ r \in Sticks /\ Link(r) \in LinkNames /\ EndOf(r) = "near" /\ h \in Hosts
      /\ m \in {"BL", "CL"} /\ m \in Sticks /\ m # r /\ Mate(m) = r /\ Host(m) = h /\ SticksOf(h) = {m, r}
  BY Names DEF Sound, Sticks, LinkNames, Hosts
<1>2. /\ Agrees(x, r) /\ Agrees(x, m) /\ InTurn(x)
      /\ x.sticks[m].life = "live" /\ x.sticks[r].life = "none"
  BY <1>1 DEF Sound, ReadyFor
<1>3. /\ x.links[Link(r)]["near"].state = "none" /\ x.links[Link(r)]["far"].state = "none"
      /\ x.sticks[m].mateStatus # "discon"
      /\ r \notin TasksOf(x.hosts[h]) /\ m \notin TasksOf(x.hosts[h])
  BY Unused
<1>4. y.links[Link(r)] = k /\ \A n \in LinkNames : n # Link(r) => y.links[n] = x.links[n]
  BY <1>1, RelayFields DEF NewRight
<1>5. StateOf(y, r) = k["near"].state /\ \A t \in Sticks : t # r => StateOf(y, t) = StateOf(x, t)
  <2>1. StateOf(y, r) = k["near"].state
    BY <1>1, <1>4 DEF StateOf
  <2>2. ASSUME NEW t \in Sticks, t # r  PROVE StateOf(y, t) = StateOf(x, t)
    <3>1. CASE Link(t) = Link(r)
      <4>1. EndOf(t) \in Ends /\ EndOf(t) # "near"
        BY <1>1, <2>2, <3>1, Mates
      <4>2. EndOf(t) = "far"
        BY <4>1 DEF Ends
      <4>. QED  BY <1>3, <1>4, <3>1, <4>2 DEF StateOf, NewRight
    <3>2. CASE Link(t) # Link(r)
      BY <1>4, <3>2, Mates DEF StateOf
    <3>. QED  BY <3>1, <3>2
  <2>. QED  BY <2>1, <2>2
<1>6. Agrees(y, r)
  BY <1>1, <1>3, <1>5 DEF Agrees, NewRight
<1>7. Agrees(y, m)
  <2>1. StateOf(x, m) \in {"connecting", "open"}
    BY <1>2 DEF Agrees
  <2>. QED  BY <1>1, <1>3, <1>5, <2>1 DEF Agrees, NewRight
<1>8. InTurn(y)
  BY <1>1, <1>2, <1>5, Names DEF InTurn, ReadyFor, Sticks, NewRight
<1>9. \A n \in LinkNames : Shaped(y.links[n])
  <2>1. Shaped(k)
    BY DEF Shaped, NewRight
  <2>. QED  BY <1>4, <2>1 DEF Sound
<1>10. /\ \A t \in SticksOf(h) : Agrees(y, t)
       /\ TasksOf(y.hosts[h]) \subseteq SticksOf(h)
       /\ \A t \in Sticks : Host(t) # h => y.sticks[t] = x.sticks[t] /\ StateOf(y, t) = StateOf(x, t)
  BY <1>1, <1>5, <1>6, <1>7 DEF Sound, NewRight
<1>. HIDE DEF h
<1>11. h \in Hosts /\ y \in Relay /\ \A g \in Hosts : g # h => y.hosts[g] = x.hosts[g]
  BY <1>1 DEF h, NewRight
<1>12. Serves(x, y, h)
  BY <1>8, <1>9, <1>10, <1>11 DEF Serves
<1>. QED  BY <1>11, <1>12, HostSound

LEMMA ConnectDoes ==
  ASSUME NEW x, Sound(x), NEW r \in {"BR", "CR"}, ReadyFor(x, r), NEW first \in Seq(Nat)
  PROVE  NewRight(x, Connect(x, Mate(r), r, first), r, Connecting, first)
<1>. DEFINE m == Mate(r)
            j == [NewStick EXCEPT !.own = "connecting", !.mate = TRUE, !.wb = first]
            i == [x.sticks[m] EXCEPT !.mate = TRUE]
            x1 == SetLink(x, Link(r), Connecting)
            x2 == SetStick(x1, r, j)
            y == SetStick(x2, m, i)
<1>1. /\ x \in Relay /\ r \in Sticks /\ Link(r) \in LinkNames
      /\ m \in Sticks /\ m # r /\ Host(m) = Host(r) /\ x.sticks[m] \in Stick
  BY Mates, RelayFields DEF Sound, Sticks
<1>2. Connect(x, m, r, first) = y
  BY <1>1 DEF Connect, SetLink, SetStick, Relay
<1>3. /\ i \in Stick /\ i.life = x.sticks[m].life /\ i.mate = TRUE /\ i.wb = x.sticks[m].wb
      /\ i.mateStatus = x.sticks[m].mateStatus /\ i.parsed = x.sticks[m].parsed
  BY <1>1 DEF Stick
<1>4. /\ j \in Stick /\ j.life = "live" /\ j.mate = TRUE /\ j.mateStatus = "min"
      /\ j.wb = first /\ j.parsed = FALSE
  BY NewSticks
<1>. HIDE DEF i, j
<1>5. /\ x1 \in Relay /\ x1.links = [x.links EXCEPT ![Link(r)] = Connecting]
      /\ x1.sticks = x.sticks /\ x1.hosts = x.hosts
  BY <1>1, NewLinks, SetFacts
<1>. HIDE DEF x1
<1>6. x2 \in Relay /\ x2.links = x1.links /\ x2.hosts = x.hosts /\ x2.sticks = [x.sticks EXCEPT ![r] = j]
  BY <1>1, <1>4, <1>5, SetFacts
<1>. HIDE DEF x2
<1>7. y \in Relay /\ y.links = x1.links /\ y.hosts = x.hosts /\ y.sticks = [x2.sticks EXCEPT ![m] = i]
  <2>1. m \in Sticks /\ i \in Stick
    BY <1>1, <1>3
  <2>. HIDE DEF m
  <2>. QED  BY <1>6, <2>1, SetFacts
<1>. HIDE DEF y
<1>8. /\ y.sticks[r] = j /\ y.sticks[m] = i
      /\ \A t \in Sticks : t \notin {r, m} => y.sticks[t] = x.sticks[t]
  BY <1>1, <1>6, <1>7, RelayFields
<1>9. x.sticks[m].life = "live"
  BY DEF ReadyFor
<1>10. \A t \in Sticks : Host(t) # Host(r) => t \notin {r, m}
  BY <1>1
<1>. HIDE DEF m
<1>11. NewRight(x, y, r, Connecting, first)
  BY <1>3, <1>4, <1>5, <1>7, <1>8, <1>9, <1>10, NewLinks DEF m, NewRight
<1>. QED  BY <1>2, <1>11 DEF m

LEMMA FailToConnectDoes ==
  ASSUME NEW x, Sound(x), NEW r \in {"BR", "CR"}, ReadyFor(x, r), NEW first \in Seq(Nat)
  PROVE  NewRight(x, FailToConnect(x, r, first), r, SetState(x.links[Link(r)], "near", "closed"), first)
<1>. DEFINE m == Mate(r)
            h == Host(r)
            l == x.links[Link(r)]
            k == SetState(l, "near", "closed")
            j == [NewStick EXCEPT !.wb = first]
            dead == [j EXCEPT !.life = "destroyed"]
            x1 == SetLink(x, Link(r), k)
            x2 == SetStick(x1, r, j)
            x3 == SetStick(x2, r, dead)
            c == PostTask(x.hosts[h], r)
            y == SetHost(x3, h, c)
<1>1. /\ x \in Relay /\ r \in Sticks /\ Link(r) \in LinkNames /\ h \in Hosts /\ l \in Wire
      /\ m \in Sticks /\ m # r /\ Host(m) = h /\ x.hosts[h] \in Context(Sticks)
  BY Mates, RelayFields DEF Sound, Sticks
<1>2. [x EXCEPT !.sticks[r] = [NewStick EXCEPT !.wb = first], !.links[Link(r)]["near"].state = "closed"] = x2
  BY <1>1 DEF SetLink, SetStick, SetState, Relay
<1>3. /\ j \in Stick /\ j.life = "live" /\ j.mate = FALSE /\ j.mateStatus = "min"
      /\ j.wb = first /\ j.parsed = FALSE
  BY NewSticks
<1>4. /\ dead \in Stick /\ dead.life = "destroyed" /\ dead.mate = FALSE /\ dead.mateStatus = "min"
      /\ dead.wb = first /\ dead.parsed = FALSE
  BY <1>3 DEF Stick
<1>5. k \in Wire /\ k["near"].state = "closed" /\ k["far"].state = "none"
  <2>1. "near" \in Ends /\ Peer("near") = "far" /\ "closed" \in States
    BY DEF Ends, Peer, States
  <2>2. l["far"].state = "none"
    BY Unused
  <2>. QED  BY <1>1, <2>1, <2>2, SetStateFacts
<1>6. c \in Context(Sticks) /\ TasksOf(c) = TasksOf(x.hosts[h]) \cup {r}
  BY <1>1, PostTaskFacts
<1>. HIDE DEF j, k, c
<1>7. /\ x1 \in Relay /\ x1.links = [x.links EXCEPT ![Link(r)] = k]
      /\ x1.sticks = x.sticks /\ x1.hosts = x.hosts
  BY <1>1, <1>5, SetFacts
<1>. HIDE DEF x1
<1>8. x2 \in Relay /\ x2.links = x1.links /\ x2.hosts = x.hosts /\ x2.sticks = [x.sticks EXCEPT ![r] = j]
  BY <1>1, <1>3, <1>7, SetFacts
<1>. HIDE DEF x2
<1>9. x2.sticks[r] = j /\ \A t \in Sticks : t # r => x2.sticks[t] = x.sticks[t]
  BY <1>1, <1>8, RelayFields
<1>10. FailToConnect(x, r, first) = y
  <2>1. FailToConnect(x, r, first) = DeleteSelf(x2, r)
    BY <1>2 DEF FailToConnect
  <2>2. DeleteSelf(x2, r) = SetHost(SetStick(x2, r, [x2.sticks[r] EXCEPT !.life = "destroyed"]),
                                    h, PostTask(x2.hosts[h], r))
    BY <1>1, <1>3, <1>8, <1>9 DEF DeleteSelf, SetStick, SetHost, Relay
  <2>. QED  BY <1>8, <1>9, <2>1, <2>2 DEF c
<1>. HIDE DEF dead
<1>11. x3 \in Relay /\ x3.links = x1.links /\ x3.hosts = x.hosts /\ x3.sticks = [x2.sticks EXCEPT ![r] = dead]
  BY <1>1, <1>4, <1>8, SetFacts
<1>. HIDE DEF x3
<1>12. y \in Relay /\ y.links = x1.links /\ y.sticks = x3.sticks /\ y.hosts = [x.hosts EXCEPT ![h] = c]
  BY <1>1, <1>6, <1>11, SetFacts
<1>. HIDE DEF y
<1>13. /\ y.sticks[r] = dead /\ \A t \in Sticks : t # r => y.sticks[t] = x.sticks[t]
       /\ y.hosts[h] = c /\ \A g \in Hosts : g # h => y.hosts[g] = x.hosts[g]
  BY <1>1, <1>8, <1>9, <1>11, <1>12, RelayFields
<1>14. x.sticks[m].life = "live" /\ x.sticks[m].mate = FALSE
  BY Unused DEF ReadyFor
<1>15. \A t \in Sticks : Host(t) # Host(r) => t # r
  OBVIOUS
<1>. HIDE DEF m, h
<1>16. NewRight(x, y, r, k, first)
  BY <1>1, <1>4, <1>5, <1>6, <1>7, <1>12, <1>13, <1>14, <1>15 DEF m, h, NewRight
<1>. QED  BY <1>10, <1>16 DEF k

LEMMA NewRightsSound ==
  ASSUME NEW x, Sound(x), NEW r \in {"BR", "CR"}, ReadyFor(x, r), NEW first \in Seq(Nat)
  PROVE  Sound(Connect(x, Mate(r), r, first)) /\ Sound(FailToConnect(x, r, first))
BY ConnectDoes, FailToConnectDoes, NewRightSound

-------------------------------------------------------------------------------
(* The steps. *)

LEMMA AcceptBSound ==
  ASSUME Sound(hx), AcceptB  PROVE Sound(hx')
<1>. DEFINE x == NewLeft(hx, "BL")
<1>1. hx.links["ab"]["far"].state = "queued" /\ \E y \in BHenLeftStick(hx) : hx' = y
  BY DEF AcceptB, HostDoes
<1>2. hx \in Relay /\ "BL" \in Sticks /\ "ab" \in LinkNames /\ Link("BL") = "ab" /\ Mate("BR") = "BL" /\ Mate("BL") = "BR"
  BY Names DEF Sound, Sticks, LinkNames
<1>3. Sound(x) /\ x.sticks["BL"].life = "live" /\ x.sticks["BR"].life = "none"
  BY <1>1, <1>2, NewLeftSound
<1>4. [hx EXCEPT !.links["ab"] = Accept(@), !.sticks["BL"] = [NewStick EXCEPT !.own = "connected"]] = x
  BY <1>2 DEF NewLeft, LeftStick, SetLink, SetStick, Relay
<1>. HIDE DEF x
<1>5. <<Meta>> \in Seq(Nat)
  BY DEF Meta
<1>6. ReadyFor(x, "BR")
  BY <1>2, <1>3 DEF ReadyFor
<1>7. Sound(CloseFd(x, "BL"))
  BY <1>2, <1>3, CloseFdSound
<1>8. Sound(CloseFd(FailToConnect(x, "BR", <<Meta>>), "BL"))
  BY <1>2, <1>3, <1>5, <1>6, NewRightsSound, CloseFdSound
<1>9. Sound(Connect(x, "BL", "BR", <<Meta>>))
  BY <1>2, <1>3, <1>5, <1>6, NewRightsSound
<1>10. BHenLeftStick(hx) = { CloseFd(x, "BL"), CloseFd(FailToConnect(x, "BR", <<Meta>>), "BL"),
                             Connect(x, "BL", "BR", <<Meta>>) }
  BY <1>4 DEF BHenLeftStick
<1>. QED  BY <1>1, <1>7, <1>8, <1>9, <1>10

LEMMA AcceptCSound ==
  ASSUME Sound(hx), AcceptC  PROVE Sound(hx')
<1>1. hx.links["bc"]["far"].state = "queued" /\ hx' = CHenLeftStick(hx)
  BY DEF AcceptC, HostDoes
<1>2. hx \in Relay /\ "CL" \in Sticks /\ "bc" \in LinkNames /\ Link("CL") = "bc"
  BY Names DEF Sound, Sticks, LinkNames
<1>3. CHenLeftStick(hx) = NewLeft(hx, "CL")
  BY <1>2 DEF CHenLeftStick, NewLeft, LeftStick, SetLink, SetStick, Relay
<1>. QED  BY <1>1, <1>2, <1>3, NewLeftSound

\* CL has read the address.
Parsed(x) == [ReadUnits(x, "CL", Len(Unread(x, "CL"))) EXCEPT !.sticks["CL"].parsed = TRUE]

LEMMA ParsedDoes ==
  ASSUME NEW x, Sound(x), x.sticks["CL"].life = "live", x.sticks["CL"].parsed = FALSE
  PROVE  LET w == Parsed(x)
         IN  /\ Sound(w) /\ ReadyFor(w, "CR") /\ w.hosts = x.hosts
             /\ w.links = [x.links EXCEPT !["bc"] = Consume(x.links["bc"], "far", Len(x.links["bc"]["far"].in))]
             /\ \A t \in Sticks : t # "CL" => w.sticks[t] = x.sticks[t]
             /\ w.sticks["CL"].life = "live" /\ w.sticks["CL"].wb = x.sticks["CL"].wb
             /\ w.sticks["CL"].parsed = TRUE
<1>. DEFINE data == Unread(x, "CL")
            z == ReadUnits(x, "CL", Len(data))
            k == [z.sticks["CL"] EXCEPT !.parsed = TRUE]
            w == SetStick(z, "CL", k)
<1>1. /\ "CL" \in Sticks /\ "CR" \in Sticks /\ "C" \in Hosts /\ Mate("CR") = "CL"
      /\ "bc" \in LinkNames /\ Link("CL") = "bc" /\ EndOf("CL") = "far"
      /\ data \in Seq(Nat) /\ InTurn(x) /\ x.sticks["CL"] \in Stick /\ x \in Relay
  BY Names, StickFields DEF Sound, Sticks, Hosts, LinkNames
<1>2. Len(data) \in 0 .. Len(data)
  BY <1>1
<1>3. Sound(z) /\ z.sticks = x.sticks /\ z.hosts = x.hosts
  BY <1>1, <1>2, ReadUnitsSound
<1>4. z.links = [x.links EXCEPT !["bc"] = Consume(x.links["bc"], "far", Len(x.links["bc"]["far"].in))]
  BY <1>1 DEF ReadUnits, Unread, Relay
<1>5. Parsed(x) = w
  <2>1. z \in Relay
    BY <1>3 DEF Sound
  <2>. HIDE DEF z, data
  <2>2. [z EXCEPT !.sticks["CL"].parsed = TRUE] = w
    BY <1>1, <2>1 DEF SetStick, Relay
  <2>. QED  BY <2>2 DEF Parsed, z, data
<1>. HIDE DEF z, data
<1>6. /\ k \in Stick /\ k.life = x.sticks["CL"].life /\ k.mate = x.sticks["CL"].mate
      /\ k.mateStatus = x.sticks["CL"].mateStatus /\ k.wb = x.sticks["CL"].wb /\ k.parsed = TRUE
  BY <1>1, <1>3 DEF Stick
<1>. HIDE DEF k
<1>7. /\ Sound(w) /\ w.links = z.links /\ w.hosts = z.hosts
      /\ w.sticks["CL"] = k /\ \A t \in Sticks : t # "CL" => w.sticks[t] = x.sticks[t]
  <2>1. z.sticks["CL"] = x.sticks["CL"]
    BY <1>3
  <2>. QED  BY <1>1, <1>3, <1>6, <2>1, StickSound
<1>. HIDE DEF w
<1>8. ReadyFor(w, "CR")
  <2>1. x.sticks["CR"].life = "none"
    BY <1>1 DEF InTurn
  <2>. QED  BY <1>1, <1>6, <1>7, <2>1 DEF ReadyFor
<1>. QED  BY <1>3, <1>4, <1>5, <1>6, <1>7, <1>8

\* CL reads the address and makes CR.
LEMMA ReadMetaSound ==
  ASSUME NEW x, Sound(x), x.sticks["CL"].life = "live", x.sticks["CL"].parsed = FALSE,
         Unread(x, "CL") # <<>>, NEW y \in ReadMeta(x)
  PROVE  Sound(y)
<1>. DEFINE data == Unread(x, "CL")
            w == Parsed(x)
<1>1. "CL" \in Sticks /\ "CR" \in Sticks /\ "C" \in Hosts /\ Mate("CR") = "CL" /\ data \in Seq(Nat)
  BY Names, StickFields DEF Sticks, Hosts
<1>2. Tail(data) \in Seq(Nat)
  BY <1>1
<1>3. Sound(w) /\ ReadyFor(w, "CR")
  BY ParsedDoes
<1>4. PICK v \in CreateRightStick(w) :
        y = IF Gone(v, "CL") THEN v ELSE ReadOn(Sink(v, "CR", Tail(data)), "CL")
  BY DEF ReadMeta, Parsed
<1>. HIDE DEF w, data
<1>5. \A z \in CreateRightStick(w) : Sound(z)
  <2>1. <<>> \in Seq(Nat)
    OBVIOUS
  <2>2. Sound(Connect(w, "CL", "CR", <<>>))
    BY <1>1, <1>3, <2>1, NewRightsSound
  <2>. QED  BY <1>1, <1>3, <2>2, EndSound DEF CreateRightStick
<1>. QED  BY <1>1, <1>2, <1>4, <1>5, SinkSound, ReadOnSound

LEMMA LeftOnEventSound ==
  ASSUME Sound(hx), NEW s \in Sticks, LeftOnEvent(s)  PROVE Sound(hx')
<1>1. s \in {"BL", "CL"} /\ hx.sticks[s].life = "live"
  BY DEF LeftOnEvent, Registered
<1>2. PICK y \in IF "IN" \in EventsOf(s) THEN LeftOnReadEvent(hx, s) ELSE {hx} :
        hx' = IF "OUT" \in EventsOf(s) /\ ~ Gone(y, s) THEN OnWriteEvent(y, s) ELSE y
  BY DEF LeftOnEvent, HostDoes
<1>3. Sound(y)
  <2>1. CASE y = hx
    BY <2>1
  <2>2. CASE y \in LeftOnReadEvent(hx, s)
    <3>1. CASE s = "CL" /\ ~ hx.sticks[s].parsed /\ Unread(hx, s) # <<>>
      <4>1. y \in ReadMeta(hx)
        BY <2>2, <3>1 DEF LeftOnReadEvent
      <4>2. hx.sticks["CL"].parsed = FALSE
        BY <3>1, StickFields DEF Stick
      <4>. QED  BY <1>1, <3>1, <4>1, <4>2, ReadMetaSound
    <3>2. CASE ~ (s = "CL" /\ ~ hx.sticks[s].parsed /\ Unread(hx, s) # <<>>)
      <4>1. y = OnReadEvent(hx, s)
        BY <2>2, <3>2 DEF LeftOnReadEvent
      <4>. QED  BY <4>1, OnReadEventSound
    <3>. QED  BY <3>1, <3>2
  <2>. QED  BY <1>2, <2>1, <2>2
<1>. QED  BY <1>2, <1>3, OnWriteEventSound

LEMMA RightOnEventSound ==
  ASSUME Sound(hx), NEW s \in Sticks, RightOnEvent(s)  PROVE Sound(hx')
<1>. DEFINE closed == IF EventsOf(s) \cap {"RDHUP", "HUP"} # {} THEN CloseFd(hx, s) ELSE hx
            read == IF "IN" \in EventsOf(s) THEN OnReadEvent(closed, s) ELSE closed
<1>1. hx' = IF "OUT" \in EventsOf(s) THEN OnWriteEvent(RightConnected(read, s), s) ELSE read
  BY DEF RightOnEvent, HostDoes
<1>2. Sound(closed)
  BY CloseFdSound
<1>. HIDE DEF closed
<1>3. Sound(read)
  BY <1>2, OnReadEventSound
<1>. HIDE DEF read
<1>4. Sound(RightConnected(read, s))
  BY <1>3, RightConnectedSound
<1>. QED  BY <1>1, <1>3, <1>4, OnWriteEventSound

\* The sticks whose deletion was posted are those that are destroyed.
LEMMA RunTasksSound ==
  ASSUME Sound(hx), NEW h \in Hosts, RunTasks(h)  PROVE Sound(hx')
<1>. DEFINE T == TasksOf(hx.hosts[h])
            sticks == [s \in Sticks |-> IF s \in T THEN [hx.sticks[s] EXCEPT !.life = "deleted"]
                                                   ELSE hx.sticks[s]]
            c == ExecuteTask(hx.hosts[h])
            y == [links |-> hx.links, sticks |-> sticks, hosts |-> [hx.hosts EXCEPT ![h] = c]]
<1>1. /\ hx \in Relay /\ hx.hosts[h] \in Context(Sticks) /\ hx.hosts \in [Hosts -> Context(Sticks)]
      /\ \A s \in Sticks : hx.sticks[s] \in Stick
  BY RelayFields DEF Sound
<1>2. hx' = y
  <2>1. hx' = [hx EXCEPT !.sticks = sticks, !.hosts[h] = c]
    BY Zenon DEF RunTasks, HostDoes
  <2>. HIDE DEF sticks, c
  <2>. QED  BY <1>1, <2>1 DEF Relay
<1>3. c \in Context(Sticks) /\ TasksOf(c) = {}
  <2>1. <<>> \in Seq(Sticks) /\ DOMAIN <<>> = {}
    OBVIOUS
  <2>2. c \in Context(Sticks) /\ c.tasks = <<>>
    BY <1>1, <2>1 DEF ExecuteTask, Context
  <2>. HIDE DEF c
  <2>. QED  BY <2>1, <2>2 DEF TasksOf
<1>4. \A s \in Sticks : sticks[s] = IF s \in T THEN [hx.sticks[s] EXCEPT !.life = "deleted"] ELSE hx.sticks[s]
  OBVIOUS
<1>5. \A s \in Sticks : /\ [hx.sticks[s] EXCEPT !.life = "deleted"] \in Stick
                        /\ [hx.sticks[s] EXCEPT !.life = "deleted"].life = "deleted"
                        /\ [hx.sticks[s] EXCEPT !.life = "deleted"].mate = hx.sticks[s].mate
                        /\ [hx.sticks[s] EXCEPT !.life = "deleted"].mateStatus = hx.sticks[s].mateStatus
                        /\ [hx.sticks[s] EXCEPT !.life = "deleted"].parsed = hx.sticks[s].parsed
  BY <1>1 DEF Stick
<1>6. sticks \in [Sticks -> Stick]
  BY <1>1, <1>5
<1>. HIDE DEF T, sticks, c
<1>7. /\ y \in Relay /\ y.links = hx.links /\ y.sticks = sticks /\ y.hosts[h] = c
      /\ \A g \in Hosts : g # h => y.hosts[g] = hx.hosts[g]
  BY <1>1, <1>3, <1>6 DEF Relay
<1>. HIDE DEF y
<1>8. \A s \in Sticks : StateOf(y, s) = StateOf(hx, s)
  BY <1>7 DEF StateOf
<1>9. \A s \in Sticks : /\ y.sticks[s].life = IF s \in T THEN "deleted" ELSE hx.sticks[s].life
                        /\ y.sticks[s].mate = hx.sticks[s].mate
                        /\ y.sticks[s].mateStatus = hx.sticks[s].mateStatus
                        /\ y.sticks[s].parsed = hx.sticks[s].parsed
  BY <1>4, <1>5, <1>7
<1>10. \A s \in SticksOf(h) : s \in T <=> hx.sticks[s].life = "destroyed"
  <2>. TAKE s \in SticksOf(h)
  <2>1. s \in Sticks /\ Host(s) = h
    BY DEF SticksOf
  <2>. QED  BY <2>1 DEF Sound, Agrees, T
<1>11. \A s \in SticksOf(h) : Agrees(y, s)
  <2>. TAKE s \in SticksOf(h)
  <2>1. /\ s \in Sticks /\ Host(s) = h /\ Mate(s) \in Sticks /\ Mate(s) \in SticksOf(h) /\ Agrees(hx, s)
    BY Mates DEF SticksOf, Sound
  <2>2. y.sticks[s].life # "destroyed" /\ s \notin TasksOf(y.hosts[h])
    BY <1>3, <1>7, <1>9, <1>10, <2>1
  <2>. QED  BY <1>8, <1>9, <1>10, <2>1, <2>2 DEF Agrees
<1>12. InTurn(y)
  <2>1. \A s \in Sticks : y.sticks[s].life = "none" <=> hx.sticks[s].life = "none"
    <3>. TAKE s \in Sticks
    <3>1. s \in T => s \in SticksOf(h)
      BY DEF Sound, T
    <3>. QED  BY <1>9, <1>10, <3>1
  <2>2. InTurn(hx)
    BY DEF Sound
  <2>. QED  BY <1>8, <1>9, <2>1, <2>2 DEF InTurn, Sticks
<1>13. Serves(hx, y, h)
  <2>1. \A s \in Sticks : Host(s) # h => s \notin T
    BY DEF Sound, T, SticksOf
  <2>2. \A s \in Sticks : Host(s) # h => y.sticks[s] = hx.sticks[s]
    BY <1>4, <1>7, <2>1
  <2>3. \A l \in LinkNames : Shaped(y.links[l])
    BY <1>7 DEF Sound
  <2>4. TasksOf(y.hosts[h]) \subseteq SticksOf(h)
    BY <1>3, <1>7
  <2>. QED  BY <1>7, <1>8, <1>11, <1>12, <2>2, <2>3, <2>4 DEF Serves
<1>. QED  BY <1>2, <1>7, <1>13, HostSound

LEMMA SignalHostSound ==
  ASSUME Sound(hx), NEW h \in Hosts, SignalHost(h)  PROVE Sound(hx')
<1>. DEFINE c == Stop(hx.hosts[h])
            y == SetHost(hx, h, c)
<1>1. hx \in Relay /\ hx.hosts[h] \in Context(Sticks) /\ \A l \in LinkNames : Shaped(hx.links[l])
  BY RelayFields DEF Sound
<1>2. hx' = y
  BY DEF SignalHost, HostDoes, SetHost
<1>3. c \in Context(Sticks) /\ TasksOf(c) = TasksOf(hx.hosts[h])
  BY <1>1 DEF Stop, Context, TasksOf
<1>. HIDE DEF c
<1>4. y \in Relay /\ y.links = hx.links /\ y.sticks = hx.sticks /\ y.hosts = [hx.hosts EXCEPT ![h] = c]
  BY <1>1, <1>3, SetFacts
<1>. HIDE DEF y
<1>5. y.hosts[h] = c /\ \A g \in Hosts : g # h => y.hosts[g] = hx.hosts[g]
  BY <1>1, <1>4, RelayFields
<1>6. \A s \in Sticks : StateOf(y, s) = StateOf(hx, s)
  BY <1>4 DEF StateOf
<1>7. \A s \in SticksOf(h) : Agrees(y, s)
  <2>. TAKE s \in SticksOf(h)
  <2>1. s \in Sticks /\ Host(s) = h /\ Agrees(hx, s)
    BY DEF SticksOf, Sound
  <2>. QED  BY <1>3, <1>4, <1>5, <1>6, <2>1 DEF Agrees
<1>8. InTurn(y)
  BY <1>4, <1>6 DEF Sound, InTurn, Sticks
<1>9. Serves(hx, y, h)
  BY <1>1, <1>3, <1>4, <1>5, <1>6, <1>7, <1>8 DEF Serves, Sound
<1>. QED  BY <1>2, <1>4, <1>9, HostSound

-------------------------------------------------------------------------------
(* What is outside of the hosts: the client, the server and the network. *)

\* An end of a link changes that belongs to no stick.
Outside(l, e) == l \in LinkNames /\ e \in Ends /\ \A s \in Sticks : ~ (Link(s) = l /\ EndOf(s) = e)

LEMMA TheOutside ==
  Outside("ab", "near") /\ Outside("cd", "far")
BY Names DEF Outside, LinkNames, Ends, Sticks

LEMMA StatesSound ==
  ASSUME NEW x, Sound(x), NEW l \in LinkNames, NEW k \in Wire, Shaped(k),
         \A s \in Sticks : Link(s) = l => k[EndOf(s)].state = x.links[l][EndOf(s)].state
  PROVE  Sound(SetLink(x, l, k))
<1>. DEFINE y == SetLink(x, l, k)
<1>1. x \in Relay
  BY DEF Sound
<1>2. y \in Relay /\ y.links = [x.links EXCEPT ![l] = k] /\ y.sticks = x.sticks /\ y.hosts = x.hosts
  BY <1>1, SetFacts
<1>. HIDE DEF y
<1>3. y.links[l] = k /\ \A n \in LinkNames : n # l => y.links[n] = x.links[n]
  BY <1>1, <1>2, RelayFields
<1>4. \A s \in Sticks : StateOf(y, s) = StateOf(x, s)
  BY <1>3, Mates DEF StateOf
<1>5. \A s \in Sticks : Agrees(y, s)
  BY <1>2, <1>4 DEF Sound, Agrees
<1>6. InTurn(y)
  BY <1>2, <1>4 DEF Sound, InTurn, Sticks
<1>7. \A n \in LinkNames : Shaped(y.links[n])
  BY <1>3 DEF Sound
<1>8. Sound(y)
  BY <1>2, <1>5, <1>6, <1>7 DEF Sound
<1>. QED  BY <1>8 DEF y

LEMMA CloseOutsideSound ==
  ASSUME NEW x, Sound(x), NEW l, NEW e, Outside(l, e), NEW j, SameStates(x.links[l], j)
  PROVE  Sound(SetLink(x, l, Close(j, e)))
<1>. DEFINE k == Close(j, e)
            i == x.links[l]
<1>1. l \in LinkNames /\ e \in Ends /\ j \in Wire /\ i \in Wire /\ Shaped(i)
  BY RelayFields DEF Outside, SameStates, Sound
<1>2. /\ k \in Wire /\ k[e].state = (IF HasFd(j, e) THEN "closed" ELSE j[e].state)
      /\ k[Peer(e)].state = j[Peer(e)].state
  BY <1>1, CloseStates
<1>3. \A f \in Ends : j[f].state = i[f].state
  BY DEF SameStates
<1>. HIDE DEF k, i
<1>4. "near" \in Ends /\ "far" \in Ends
  BY DEF Ends
<1>5. Shaped(k)
  <2>1. CASE e = "near"
    BY <1>1, <1>2, <1>3, <1>4, <2>1 DEF Shaped, Peer, HasFd
  <2>2. CASE e = "far"
    BY <1>1, <1>2, <1>3, <1>4, <2>2 DEF Shaped, Peer, HasFd
  <2>. QED  BY <1>1, <2>1, <2>2 DEF Ends
<1>6. \A s \in Sticks : Link(s) = l => k[EndOf(s)].state = x.links[l][EndOf(s)].state
  <2>. TAKE s \in Sticks
  <2>. HAVE Link(s) = l
  <2>1. EndOf(s) \in Ends /\ EndOf(s) # e
    BY Mates DEF Outside
  <2>2. EndOf(s) = Peer(e) /\ Peer(e) \in Ends
    BY <1>1, <2>1 DEF Ends, Peer
  <2>. QED  BY <1>2, <1>3, <2>2 DEF i
<1>7. Sound(SetLink(x, l, k))
  BY <1>1, <1>2, <1>5, <1>6, StatesSound
<1>. QED  BY <1>7 DEF k

LEMMA SameItself ==
  ASSUME NEW x, Sound(x), NEW l \in LinkNames
  PROVE  x.links[l] \in Wire /\ SameStates(x.links[l], x.links[l]) /\ Sound(SetLink(x, l, x.links[l]))
<1>1. x.links[l] \in Wire /\ SameStates(x.links[l], x.links[l])
  BY RelayFields DEF Sound, SameStates
<1>. QED  BY <1>1, LinkSound

LEMMA SameTwice ==
  ASSUME NEW l, NEW j, NEW k, SameStates(l, j), SameStates(j, k)
  PROVE  SameStates(l, k)
BY DEF SameStates

\* The client: its link, and what it counts.
LEMMA ClientSound ==
  ASSUME HenInv, SendMessage \/ WaitReply \/ ClientExits
  PROVE  Sound(hx') /\ echoed' = echoed /\ client' \in Client
<1>. DEFINE ab == hx.links["ab"]
            in == ab["near"].in
<1>1. /\ Sound(hx) /\ client \in Client /\ client.sent \in 0 .. Requests /\ client.got \in Seq(Nat)
      /\ "ab" \in LinkNames /\ "near" \in Ends /\ Outside("ab", "near")
  BY TheOutside DEF HenInv, Client, LinkNames, Ends
<1>2. ab \in Wire /\ SameStates(ab, ab) /\ in \in Seq(Nat) /\ Len(in) \in 0 .. Len(in)
  <2>1. ab \in Wire /\ SameStates(ab, ab)
    BY <1>1, SameItself
  <2>2. in \in Seq(Nat)
    BY <1>1, <2>1, WireFields
  <2>. QED  BY <2>1, <2>2
<1>3. Sound(SetLink(hx, "ab", Close(ab, "near")))
  BY <1>1, <1>2, CloseOutsideSound
<1>4. CASE SendMessage
  <2>. DEFINE next == client.sent + 1
              k == Send(ab, "near", <<next>>)
  <2>1. CASE hx' = SetLink(hx, "ab", Close(ab, "near")) /\ client' = client /\ echoed' = echoed
    BY <1>1, <1>3, <2>1
  <2>2. CASE /\ hx' = SetLink(hx, "ab", k) /\ client' = [client EXCEPT !.sent = next]
             /\ echoed' = echoed /\ next <= Requests
    <3>1. <<next>> \in Seq(Nat) /\ next \in 0 .. Requests
      BY <1>1, <2>2, HenAssumption
    <3>2. SameStates(ab, k)
      BY <1>1, <1>2, <3>1, SendKeepsStates
    <3>. HIDE DEF k
    <3>3. Sound(SetLink(hx, "ab", k))
      BY <1>1, <3>2, LinkSound
    <3>4. client' \in Client
      BY <1>1, <2>2, <3>1 DEF Client
    <3>. QED  BY <1>1, <2>2, <3>1, <3>3, <3>4
  <2>. QED  BY <1>4, <2>1, <2>2 DEF SendMessage, ClientDoes, SetLink
<1>5. CASE WaitReply
  <2>. DEFINE k == Consume(ab, "near", Len(in))
  <2>1. CASE hx' = SetLink(hx, "ab", Close(ab, "near")) /\ client' = client /\ echoed' = echoed
    BY <1>1, <1>3, <2>1
  <2>2. CASE /\ hx' = SetLink(hx, "ab", k) /\ client' = [client EXCEPT !.got = @ \o in]
             /\ echoed' = echoed
    <3>1. SameStates(ab, k)
      BY <1>1, <1>2, LinkData
    <3>. HIDE DEF k
    <3>2. Sound(SetLink(hx, "ab", k))
      BY <1>1, <3>1, LinkSound
    <3>. DEFINE got == client.got \o in
    <3>3. got \in Seq(Nat)
      BY <1>1, <1>2, ConcatProperties
    <3>4. client' = [client EXCEPT !.got = got]
      BY <2>2
    <3>. HIDE DEF got
    <3>5. client' \in Client
      BY <1>1, <3>3, <3>4 DEF Client
    <3>. QED  BY <2>2, <3>2, <3>5
  <2>. QED  BY <1>5, <2>1, <2>2 DEF WaitReply, ClientDoes, SetLink
<1>6. CASE ClientExits
  BY <1>1, <1>3, <1>6 DEF ClientExits, ClientDoes, SetLink
<1>. QED  BY <1>4, <1>5, <1>6

\* The server: it accepts, and it sends back what it reads.
LEMMA ServerSound ==
  ASSUME HenInv, AcceptD \/ EchoOnEvent
  PROVE  Sound(hx') /\ client' = client /\ echoed' \in Seq(Nat)
<1>. DEFINE cd == hx.links["cd"]
            in == cd["far"].in
            taken == Consume(cd, "far", Len(in))
            read == Send(taken, "far", in)
<1>1. /\ Sound(hx) /\ echoed \in Seq(Nat)
      /\ "cd" \in LinkNames /\ "far" \in Ends /\ Outside("cd", "far")
  BY TheOutside DEF HenInv, LinkNames, Ends
<1>2. cd \in Wire /\ SameStates(cd, cd) /\ in \in Seq(Nat) /\ Len(in) \in 0 .. Len(in)
  <2>1. cd \in Wire /\ SameStates(cd, cd)
    BY <1>1, SameItself
  <2>2. in \in Seq(Nat)
    BY <1>1, <2>1, WireFields
  <2>. QED  BY <2>1, <2>2
<1>3. CASE AcceptD
  <2>. DEFINE k == Accept(cd)
  <2>1. hx' = SetLink(hx, "cd", k) /\ cd["far"].state = "queued" /\ echoed' = echoed /\ client' = client
    BY <1>3 DEF AcceptD, ServerDoes, SetLink
  <2>2. k \in Wire /\ k["far"].state = "open" /\ k["near"] = cd["near"]
    BY <1>2, OtherLinkCalls
  <2>3. Shaped(k)
    BY <1>1, <2>1, <2>2 DEF Shaped, Sound
  <2>4. \A s \in Sticks : Link(s) = "cd" => k[EndOf(s)].state = hx.links["cd"][EndOf(s)].state
    BY <2>2, Names DEF Sticks
  <2>. HIDE DEF k
  <2>5. Sound(SetLink(hx, "cd", k))
    BY <1>1, <2>2, <2>3, <2>4, StatesSound
  <2>. QED  BY <1>1, <2>1, <2>5
<1>4. CASE EchoOnEvent
  <2>1. SameStates(cd, taken)
    BY <1>1, <1>2, LinkData
  <2>2. SameStates(taken, read)
    BY <1>1, <1>2, <2>1, SendKeepsStates DEF SameStates
  <2>3. SameStates(cd, read)
    BY <2>1, <2>2, SameTwice
  <2>4. echoed \o in \in Seq(Nat)
    BY <1>1, <1>2, ConcatProperties
  <2>5. /\ client' = client /\ echoed' \in {echoed, echoed \o in}
        /\ hx' \in {SetLink(hx, "cd", read), SetLink(hx, "cd", Close(read, "far")),
                    SetLink(hx, "cd", Close(cd, "far"))}
    BY <1>4 DEF EchoOnEvent, ServerDoes, SetLink
  <2>. HIDE DEF read, taken
  <2>6. Sound(SetLink(hx, "cd", read))
    BY <1>1, <2>3, LinkSound
  <2>7. Sound(SetLink(hx, "cd", Close(read, "far"))) /\ Sound(SetLink(hx, "cd", Close(cd, "far")))
    BY <1>1, <1>2, <2>3, CloseOutsideSound
  <2>. QED  BY <1>1, <2>4, <2>5, <2>6, <2>7
<1>. QED  BY <1>3, <1>4

LEMMA NetworkSound ==
  ASSUME Sound(hx), NEW l \in LinkNames, Established(l) \/ Refused(l) \/ Breaks(l)
  PROVE  Sound(hx') /\ client' = client /\ echoed' = echoed
<1>. DEFINE j == hx.links[l]
<1>1. j \in Wire /\ Shaped(j)
  BY SameItself DEF Sound
<1>2. CASE Established(l)
  <2>. DEFINE k == Establish(j)
              y == SetLink(hx, l, k)
  <2>1. j["near"].state = "connecting" /\ hx' = y /\ UNCHANGED <<client, echoed>>
    BY <1>2 DEF Established, NetworkDoes, UnderWay, SetLink
  <2>2. k \in Wire /\ k["near"].state = "open" /\ k["far"].state = "queued"
    BY <1>1, OtherLinkCalls
  <2>3. j["far"].state = "none"
    BY <1>1, <2>1 DEF Shaped
  <2>. HIDE DEF k
  <2>4. hx \in Relay
    BY DEF Sound
  <2>5. y \in Relay /\ y.links = [hx.links EXCEPT ![l] = k] /\ y.sticks = hx.sticks /\ y.hosts = hx.hosts
    BY <2>2, <2>4, SetFacts
  <2>. HIDE DEF y
  <2>6. y.links[l] = k /\ \A n \in LinkNames : n # l => y.links[n] = hx.links[n]
    BY <2>4, <2>5, RelayFields
  <2>7. \A s \in Sticks : \/ StateOf(y, s) = StateOf(hx, s)
                          \/ StateOf(hx, s) = "connecting" /\ StateOf(y, s) = "open"
                          \/ StateOf(hx, s) = "none" /\ StateOf(y, s) = "queued" /\ EndOf(s) = "far"
    <3>. TAKE s \in Sticks
    <3>1. CASE Link(s) # l
      BY <2>6, <3>1, Mates DEF StateOf
    <3>2. CASE Link(s) = l
      <4>1. EndOf(s) \in {"near", "far"}
        BY Mates DEF Ends
      <4>. QED  BY <2>1, <2>2, <2>3, <2>6, <3>2, <4>1 DEF StateOf
    <3>. QED  BY <3>1, <3>2
  <2>8. \A s \in Sticks : Agrees(y, s)
    <3>. TAKE s \in Sticks
    <3>1. Agrees(hx, s) /\ y.sticks = hx.sticks /\ y.hosts = hx.hosts
      BY <2>5 DEF Sound
    <3>2. CASE StateOf(y, s) = StateOf(hx, s)
      BY <3>1, <3>2 DEF Agrees
    <3>3. CASE StateOf(hx, s) = "connecting" /\ StateOf(y, s) = "open"
      BY <3>1, <3>3 DEF Agrees
    <3>4. CASE StateOf(hx, s) = "none" /\ StateOf(y, s) = "queued"
      BY <3>1, <3>4 DEF Agrees
    <3>. QED  BY <2>7, <3>2, <3>3, <3>4
  <2>9. InTurn(y)
    <3>1. InTurn(hx) /\ \A s \in {"BR", "CR"} : s \in Sticks /\ EndOf(s) = "near" /\ Agrees(hx, s)
      BY Names DEF Sound, Sticks
    <3>2. ASSUME NEW s \in {"BR", "CR"}, y.sticks[s].life = "none"
          PROVE  StateOf(y, s) = "none"
      <4>1. s \in Sticks /\ EndOf(s) = "near" /\ hx.sticks[s].life = "none"
        BY <2>5, <3>1, <3>2
      <4>2. StateOf(hx, s) = "none"
        BY <3>1, <4>1 DEF InTurn
      <4>. QED  BY <2>7, <4>1, <4>2
    <3>. QED  BY <2>5, <3>1, <3>2 DEF InTurn
  <2>10. \A n \in LinkNames : Shaped(y.links[n])
    <3>1. Shaped(k)
      BY <2>2 DEF Shaped
    <3>. QED  BY <2>6, <3>1 DEF Sound
  <2>11. Sound(y)
    BY <2>5, <2>8, <2>9, <2>10 DEF Sound
  <2>. QED  BY <2>1, <2>11
<1>3. CASE Refused(l) \/ Breaks(l)
  <2>1. "near" \in Ends
    BY DEF Ends
  <2>2. SameStates(j, Refuse(j)) /\ SameStates(j, Break(j))
    BY <1>1, <2>1, LinkData
  <2>3. /\ UNCHANGED <<client, echoed>>
        /\ hx' \in {SetLink(hx, l, Refuse(j)), SetLink(hx, l, Break(j))}
    BY <1>3 DEF Refused, Breaks, NetworkDoes, SetLink
  <2>. QED  BY <2>2, <2>3, LinkSound
<1>. QED  BY <1>2, <1>3

-------------------------------------------------------------------------------
(* The specification. *)

LEMMA InitSound ==
  ASSUME Init  PROVE HenInv
<1>1. hx = [ links |-> [ab |-> Dialled, bc |-> NoLink, cd |-> NoLink],
             sticks |-> [s \in Sticks |-> NoStick], hosts |-> [h \in Hosts |-> NewContext] ]
  BY DEF Init
<1>2. Dialled \in Wire /\ Dialled["near"].state = "open" /\ Dialled["far"].state = "queued"
  BY NewLinks, OtherLinkCalls DEF Dialled
<1>3. NewContext \in Context(Sticks) /\ TasksOf(NewContext) = {}
  <2>1. <<>> \in Seq(Sticks) /\ DOMAIN <<>> = {} /\ {} \in SUBSET Sticks
    OBVIOUS
  <2>2. NewContext \in Context(Sticks) /\ NewContext.tasks = <<>>
    BY <2>1 DEF NewContext, Context
  <2>. QED  BY <2>1, <2>2 DEF TasksOf
<1>4. /\ NoStick \in Stick /\ NoStick.life = "none" /\ NoStick.mate = FALSE
      /\ NoStick.mateStatus = "min" /\ NoStick.parsed = FALSE
  <2>1. <<>> \in Seq(Nat)
    OBVIOUS
  <2>. QED  BY <2>1 DEF NoStick, Stick
<1>5. /\ hx.links["ab"] = Dialled /\ hx.links["bc"] = NoLink /\ hx.links["cd"] = NoLink
      /\ hx.links \in [LinkNames -> Wire]
      /\ \A s \in Sticks : hx.sticks[s] = NoStick
      /\ \A h \in Hosts : hx.hosts[h] = NewContext
      /\ hx.sticks \in [Sticks -> Stick] /\ hx.hosts \in [Hosts -> Context(Sticks)]
  BY <1>1, <1>2, <1>3, <1>4, NewLinks DEF LinkNames
<1>6. hx \in Relay
  BY <1>1, <1>5 DEF Relay
<1>7. \A l \in LinkNames : Shaped(hx.links[l])
  BY <1>2, <1>5, NewLinks DEF Shaped, LinkNames
<1>8. \A s \in Sticks : StateOf(hx, s) = IF s = "BL" THEN "queued" ELSE "none"
  BY <1>2, <1>5, NewLinks, Names DEF StateOf, Sticks
<1>9. \A s \in Sticks : Agrees(hx, s)
  <2>. TAKE s \in Sticks
  <2>1. hx.sticks[s] = NoStick /\ hx.sticks[Mate(s)] = NoStick /\ TasksOf(hx.hosts[Host(s)]) = {}
    BY <1>3, <1>5, Mates
  <2>. QED  BY <1>4, <1>8, <2>1 DEF Agrees
<1>10. InTurn(hx)
  BY <1>4, <1>5, <1>8 DEF InTurn, Sticks
<1>11. Sound(hx)
  BY <1>3, <1>5, <1>6, <1>7, <1>9, <1>10 DEF Sound
<1>12. client \in Client /\ echoed \in Seq(Nat)
  BY HenAssumption DEF Init, Client
<1>. QED  BY <1>11, <1>12 DEF HenInv

LEMMA NextSound ==
  ASSUME HenInv, [Next]_vars  PROVE HenInv'
<1>1. Sound(hx) /\ client \in Client /\ echoed \in Seq(Nat)
  BY DEF HenInv
<1>2. CASE UNCHANGED vars
  <2>1. hx' = hx /\ client' = client /\ echoed' = echoed
    BY <1>2 DEF vars
  <2>. QED  BY <1>1, <2>1 DEF HenInv
<1>3. ASSUME NEW h \in Hosts, HostServes(h) \/ SignalHost(h)
      PROVE  Sound(hx') /\ client' = client /\ echoed' = echoed
  <2>1. client' = client /\ echoed' = echoed
    BY <1>3 DEF HostServes, SignalHost, AcceptB, AcceptC, LeftOnEvent, RightOnEvent, RunTasks,
                HostExits, HostDoes
  <2>2. Sound(hx')
    <3>1. CASE AcceptB \/ AcceptC
      BY <1>1, <3>1, AcceptBSound, AcceptCSound
    <3>2. CASE \E s \in SticksOf(h) : LeftOnEvent(s) \/ RightOnEvent(s)
      <4>1. PICK s \in Sticks : LeftOnEvent(s) \/ RightOnEvent(s)
        BY <3>2 DEF SticksOf
      <4>. QED  BY <1>1, <4>1, LeftOnEventSound, RightOnEventSound
    <3>3. CASE RunTasks(h) \/ SignalHost(h)
      BY <1>1, <3>3, RunTasksSound, SignalHostSound
    <3>4. CASE HostExits(h)
      <4>1. hx' = End_(hx, h)
        BY <3>4 DEF HostExits, HostDoes
      <4>. QED  BY <1>1, <4>1, EndSound
    <3>. QED  BY <1>3, <3>1, <3>2, <3>3, <3>4 DEF HostServes
  <2>. QED  BY <2>1, <2>2
<1>4. CASE \E h \in Hosts : HostServes(h) \/ SignalHost(h)
  <2>1. Sound(hx') /\ client' = client /\ echoed' = echoed
    BY <1>3, <1>4
  <2>. QED  BY <1>1, <2>1 DEF HenInv
<1>5. CASE SendMessage \/ WaitReply \/ ClientExits
  <2>1. Sound(hx') /\ echoed' = echoed /\ client' \in Client
    BY <1>5, ClientSound
  <2>. QED  BY <1>1, <2>1 DEF HenInv
<1>6. CASE AcceptD \/ EchoOnEvent
  <2>1. Sound(hx') /\ client' = client /\ echoed' \in Seq(Nat)
    BY <1>6, ServerSound
  <2>. QED  BY <1>1, <2>1 DEF HenInv
<1>7. CASE \E l \in LinkNames : Established(l) \/ Refused(l) \/ Breaks(l)
  <2>1. Sound(hx') /\ client' = client /\ echoed' = echoed
    BY <1>1, <1>7, NetworkSound
  <2>. QED  BY <1>1, <2>1 DEF HenInv
<1>. QED  BY <1>2, <1>4, <1>5, <1>6, <1>7 DEF Next, Progress, EndsRead, NetworkAnswers

LEMMA SoundSticksAgree ==
  HenInv => SticksAgree
<1>. SUFFICES ASSUME HenInv PROVE SticksAgree
  OBVIOUS
<1>1. /\ Sound(hx) /\ hx \in Relay /\ client.sent \in 0 .. Requests /\ client.got \in Seq(Nat)
      /\ echoed \in Seq(Nat)
  BY DEF HenInv, Client, Sound
<1>2. TypeOK
  <2>1. hx.links \in [LinkNames -> [Ends -> End]]
    BY <1>1 DEF Relay, Wire
  <2>. QED  BY <1>1, <2>1, RelayFields DEF TypeOK, Links
<1>3. ASSUME NEW s \in Sticks
      PROVE  LET stick == hx.sticks[s]
             IN  /\ stick.mate => hx.sticks[Mate(s)].mate /\ hx.sticks[Mate(s)].life = "live"
                 /\ stick.life = "live" <=> HasSocket(hx, s)
                 /\ stick.life = "destroyed" <=> s \in TasksOf(hx.hosts[Host(s)])
                 /\ stick.mateStatus = "discon" => hx.sticks[Mate(s)].life \in {"destroyed", "deleted"}
  <2>1. Agrees(hx, s)
    BY <1>1 DEF Sound
  <2>. QED  BY <1>1, <2>1, HasSocketLive DEF Agrees
<1>. QED  BY <1>2, <1>3 DEF SticksAgree

\* The two sticks of a host agree, however the callbacks, the deletions, the ends of the
\* connections and the ends of the hosts are interleaved: src/hen never follows a pointer
\* to a deleted stick and no stick keeps a mate that no longer knows it.
THEOREM SticksAlwaysAgree == Spec => []SticksAgree
<1>1. Init => HenInv
  BY InitSound
<1>2. HenInv /\ [Next]_vars => HenInv'
  BY NextSound
<1>3. HenInv => SticksAgree
  BY SoundSticksAgree
<1>. QED  BY <1>1, <1>2, <1>3, PTL DEF Spec

-------------------------------------------------------------------------------
(* The way of the data.  Each direction is a row of five buffers, the one     *)
(* next to the reader first: a queue, a stick, a queue, a stick and a queue.  *)

\* The units after number a, in order.
Run(q, a) == \A i \in 1 .. Len(q) : q[i] = a + i

Places == 1 .. 5
Behind(k, lag) == IF k = 2 THEN lag ELSE 0

\* A place is a number from one to five.
LEMMA PlacesAre ==
  \A k : k \in Places <=> k \in Nat /\ 1 <= k /\ k <= 5
BY DEF Places

\* n units have arrived of t that were sent.  As long as the first w of the five joints
\* between the buffers hold, the buffers hold what comes next, without a gap.  lag is 1
\* while the address, which goes ahead of the first unit, has not been taken out.
Lies(p, n, q, lag, w, t) ==
  /\ p[1] = n
  /\ \A k \in Places : k <= w + 1 => Run(q[k], p[k]) /\ p[k] + Len(q[k]) <= t
  /\ \A k \in Places : k <= w => p[k + 1] = p[k] + Len(q[k]) - Behind(k, lag)
  /\ w = 5 => p[6] = t
Flow(n, q, lag, w, t) == \E p \in [Nat -> Int] : Lies(p, n, q, lag, w, t)

\* What comes next, appended, is still in order.
LEMMA RunConcat ==
  ASSUME NEW u \in Seq(Nat), NEW v \in Seq(Nat), NEW a \in Int, Run(u, a), Run(v, a + Len(u))
  PROVE  Run(u \o v, a)
<1>1. /\ Len(u) \in Nat /\ Len(v) \in Nat /\ Len(u \o v) = Len(u) + Len(v)
      /\ \A i \in 1 .. Len(u) + Len(v) : (u \o v)[i] = IF i <= Len(u) THEN u[i] ELSE v[i - Len(u)]
  BY ConcatProperties
<1>2. \A i \in 1 .. Len(u) + Len(v) : (u \o v)[i] = a + i
  <2>. TAKE i \in 1 .. Len(u) + Len(v)
  <2>1. CASE i <= Len(u)
    BY <1>1, <2>1 DEF Run
  <2>2. CASE i > Len(u)
    <3>1. i - Len(u) \in 1 .. Len(v)
      BY <1>1, <2>2
    <3>2. v[i - Len(u)] = a + Len(u) + (i - Len(u))
      BY <3>1 DEF Run
    <3>. QED  BY <1>1, <2>2, <3>1, <3>2
  <2>. QED  BY <1>1, <2>1, <2>2
<1>. QED  BY <1>1, <1>2 DEF Run

\* Both parts of what is in order are.
LEMMA RunParts ==
  ASSUME NEW u \in Seq(Nat), NEW j \in 0 .. Len(u), NEW a \in Int, Run(u, a)
  PROVE  Run(SubSeq(u, 1, j), a) /\ Run(SubSeq(u, j + 1, Len(u)), a + j)
<1>1. Len(SubSeq(u, 1, j)) = j /\ Len(SubSeq(u, j + 1, Len(u))) = Len(u) - j /\ Len(u) \in Nat
  BY Split
<1>2. \A i \in 1 .. j : SubSeq(u, 1, j)[i] = u[i]
  OBVIOUS
<1>3. \A i \in 1 .. Len(u) - j : SubSeq(u, j + 1, Len(u))[i] = u[i + j]
  OBVIOUS
<1>. QED  BY <1>1, <1>2, <1>3 DEF Run

\* A part of one buffer goes on to the next.
LEMMA PartGoesOn ==
  ASSUME NEW u \in Seq(Nat), NEW v \in Seq(Nat), NEW j \in 0 .. Len(v), NEW a \in Int
  PROVE  LET taken == u \o SubSeq(v, 1, j)
             rest == SubSeq(v, j + 1, Len(v))
         IN  /\ taken \in Seq(Nat) /\ rest \in Seq(Nat)
             /\ Len(taken) = Len(u) + j /\ Len(rest) = Len(v) - j
             /\ Run(u, a) /\ Run(v, a + Len(u)) => Run(taken, a) /\ Run(rest, a + Len(u) + j)
<1>. DEFINE part == SubSeq(v, 1, j)
            rest == SubSeq(v, j + 1, Len(v))
<1>1. part \in Seq(Nat) /\ rest \in Seq(Nat) /\ Len(part) = j /\ Len(rest) = Len(v) - j
  BY Split
<1>2. u \o part \in Seq(Nat) /\ Len(u \o part) = Len(u) + Len(part)
  BY <1>1, ConcatProperties
<1>3. ASSUME Run(u, a), Run(v, a + Len(u))
      PROVE  Run(u \o part, a) /\ Run(rest, a + Len(u) + j)
  <2>1. a + Len(u) \in Int
    OBVIOUS
  <2>2. Run(part, a + Len(u)) /\ Run(rest, a + Len(u) + j)
    BY <1>3, <2>1, RunParts
  <2>. HIDE DEF part, rest
  <2>. QED  BY <1>1, <1>3, <2>2, RunConcat
<1>. HIDE DEF part, rest
<1>4. u \o part \in Seq(Nat) /\ rest \in Seq(Nat) /\ Len(u \o part) = Len(u) + j
  BY <1>1, <1>2
<1>. QED  BY <1>1, <1>3, <1>4 DEF part, rest

Rows == [Places -> Seq(Nat)]

\* The types of a row.
LEMMA RowFields ==
  ASSUME NEW q \in Rows, NEW k \in Places
  PROVE  q[k] \in Seq(Nat) /\ Len(q[k]) \in Nat /\ k \in Nat /\ k + 1 \in Nat
BY PlacesAre DEF Rows

\* y is q after j units went from place m + 1 to place m.
Moves(q, y, m, j) ==
  /\ y[m] = q[m] \o SubSeq(q[m + 1], 1, j) /\ y[m + 1] = SubSeq(q[m + 1], j + 1, Len(q[m + 1]))
  /\ \A k \in Places : k # m /\ k # m + 1 => y[k] = q[k]

\* What moves between two places keeps its numbers.
LEMMA MovesRun ==
  ASSUME NEW q \in Rows, NEW m \in Places, m + 1 \in Places, NEW j \in 0 .. Len(q[m + 1]), NEW y,
         Moves(q, y, m, j), NEW a \in Int
  PROVE  /\ Len(y[m]) = Len(q[m]) + j /\ Len(y[m + 1]) = Len(q[m + 1]) - j
         /\ Run(q[m], a) /\ Run(q[m + 1], a + Len(q[m])) => Run(y[m], a) /\ Run(y[m + 1], a + Len(q[m]) + j)
<1>. DEFINE u == q[m]
            v == q[m + 1]
            u2 == y[m]
            v2 == y[m + 1]
<1>1. u \in Seq(Nat) /\ v \in Seq(Nat) /\ j \in 0 .. Len(v)
  BY RowFields
<1>2. u2 = u \o SubSeq(v, 1, j) /\ v2 = SubSeq(v, j + 1, Len(v))
  BY DEF Moves
<1>. HIDE DEF u, v, u2, v2
<1>3. /\ Len(u2) = Len(u) + j /\ Len(v2) = Len(v) - j
      /\ Run(u, a) /\ Run(v, a + Len(u)) => Run(u2, a) /\ Run(v2, a + Len(u) + j)
  BY <1>1, <1>2, PartGoesOn
<1>. QED  BY <1>3 DEF u, v, u2, v2

\* The places of two buffers that a part moves between.
LEMMA LiesMoves ==
  ASSUME NEW p \in [Nat -> Int], NEW n \in Nat, NEW q \in Rows, NEW lag \in Nat, NEW w \in Nat, NEW t \in Nat,
         Lies(p, n, q, lag, w, t), NEW m \in Places, m + 1 \in Places, w # m - 1, m = 2 => lag = 0,
         NEW j \in 0 .. Len(q[m + 1]), NEW y, Moves(q, y, m, j)
  PROVE  Lies([p EXCEPT ![m + 1] = p[m + 1] + (IF w >= m THEN j ELSE 0)], n, y, lag, w, t)
<1>. DEFINE i == IF w >= m THEN j ELSE 0
            r == [p EXCEPT ![m + 1] = p[m + 1] + i]
            a == p[m]
            b == p[m + 1]
            lu == Len(q[m])
            lv == Len(q[m + 1])
<1>1. /\ m \in Nat /\ 1 <= m /\ m <= 4 /\ m + 1 \in Nat /\ a \in Int /\ b \in Int /\ p[m + 2] \in Int
      /\ lu \in Nat /\ lv \in Nat /\ j \in Nat /\ i \in Nat /\ j <= lv
  <2>1. m \in Nat /\ 1 <= m /\ m + 1 <= 5
    BY PlacesAre
  <2>2. m <= 4 /\ m + 1 \in Nat /\ m + 2 \in Nat
    BY <2>1
  <2>3. lu \in Nat /\ lv \in Nat
    BY RowFields
  <2>. HIDE DEF lu
  <2>4. j \in Nat /\ i \in Nat /\ j <= lv
    BY <2>3
  <2>5. a \in Int /\ b \in Int /\ p[m + 2] \in Int
    BY <2>1, <2>2
  <2>. QED  BY <2>1, <2>2, <2>3, <2>4, <2>5
<1>2. /\ r \in [Nat -> Int] /\ r[m + 1] = b + i /\ \A k \in Nat : k # m + 1 => r[k] = p[k]
  <2>. HIDE DEF i, b
  <2>1. b + i \in Int /\ m + 1 \in Nat /\ r = [p EXCEPT ![m + 1] = b + i]
    BY <1>1 DEF b
  <2>. QED  BY <2>1
<1>3. /\ Len(y[m]) = lu + j /\ Len(y[m + 1]) = lv - j
      /\ Run(q[m], a) /\ Run(q[m + 1], a + lu) => Run(y[m], a) /\ Run(y[m + 1], a + lu + j)
  BY <1>1, MovesRun
<1>4. \A k \in Places : k # m /\ k # m + 1 => y[k] = q[k]
  BY DEF Moves
<1>5. \A k \in Places : /\ k \in Nat /\ k + 1 \in Nat /\ Len(q[k]) \in Nat /\ p[k] \in Int /\ p[k + 1] \in Int
                        /\ k <= w + 1 => Run(q[k], p[k]) /\ p[k] + Len(q[k]) <= t
                        /\ k <= w => p[k + 1] = p[k] + Len(q[k]) - Behind(k, lag)
  <2>. TAKE k \in Places
  <2>1. k \in Nat /\ k + 1 \in Nat /\ Len(q[k]) \in Nat
    BY RowFields
  <2>2. p[k] \in Int /\ p[k + 1] \in Int
    BY <2>1
  <2>3. /\ k <= w + 1 => Run(q[k], p[k]) /\ p[k] + Len(q[k]) <= t
        /\ k <= w => p[k + 1] = p[k] + Len(q[k]) - Behind(k, lag)
    BY DEF Lies
  <2>. QED  BY <2>1, <2>2, <2>3
<1>. HIDE DEF r
<1>6. r[1] = n /\ (w = 5 => r[6] = t)
  <2>1. p[1] = n /\ (w = 5 => p[6] = t)
    BY DEF Lies
  <2>2. 1 # m + 1 /\ 6 # m + 1
    <3>1. m \in Nat /\ 1 <= m /\ m <= 4
      BY <1>1
    <3>. QED  BY <3>1
  <2>. QED  BY <1>2, <2>1, <2>2
<1>7. Behind(m, lag) = 0
  BY DEF Behind
<1>8. CASE w < m - 1
  <2>0. \A k \in Places : k <= w + 1 => k # m /\ k # m + 1 /\ r[k] = p[k] /\ y[k] = q[k]
    <3>. TAKE k \in Places
    <3>. HAVE k <= w + 1
    <3>1. k \in Nat /\ m \in Nat
      BY <1>1, <1>5
    <3>2. k # m /\ k # m + 1
      BY <1>8, <3>1
    <3>. QED  BY <1>2, <1>4, <3>1, <3>2
  <2>1. \A k \in Places : k <= w => k <= w + 1 /\ k + 1 # m + 1
    BY <1>1, <1>5, <1>8
  <2>2. \A k \in Places : k <= w + 1 => Run(y[k], r[k]) /\ r[k] + Len(y[k]) <= t
    BY <1>5, <2>0
  <2>3. \A k \in Places : k <= w => r[k + 1] = r[k] + Len(y[k]) - Behind(k, lag)
    BY <1>2, <1>5, <2>0, <2>1
  <2>. QED  BY <1>6, <2>2, <2>3 DEF Lies, r, i
<1>9. CASE w >= m
  <2>. HIDE DEF a, b, lu, lv
  <2>1. i = j /\ m <= w /\ m <= w + 1 /\ m + 1 <= w + 1
    BY <1>1, <1>9
  <2>2. /\ Run(q[m], a) /\ Run(q[m + 1], b) /\ b + lv <= t
        /\ b = a + lu - Behind(m, lag)
    BY <1>5, <2>1 DEF a, b, lu, lv
  <2>3. b = a + lu
    BY <1>1, <1>7, <2>2
  <2>4. Run(y[m], a) /\ Run(y[m + 1], a + lu + j) /\ r[m + 1] = a + lu + j /\ r[m] = a
    <3>1. r[m + 1] = a + lu + j
      BY <1>2, <2>1, <2>3
    <3>2. Run(y[m], a) /\ Run(y[m + 1], a + lu + j)
      BY <1>3, <2>2, <2>3 DEF a, b, lu, lv
    <3>3. m # m + 1 /\ m \in Nat
      BY <1>1
    <3>. QED  BY <1>2, <3>1, <3>2, <3>3 DEF a
  <2>5. \A k \in Places : k <= w + 1 => Run(y[k], r[k]) /\ r[k] + Len(y[k]) <= t
    <3>. TAKE k \in Places
    <3>. HAVE k <= w + 1
    <3>1. CASE k = m
      <4>1. a + (lu + j) <= t
        BY <1>1, <2>2, <2>3
      <4>2. Len(y[m]) = lu + j
        BY <1>3 DEF lu
      <4>. QED  BY <2>4, <3>1, <4>1, <4>2
    <3>2. CASE k = m + 1
      <4>1. (a + lu + j) + (lv - j) <= t
        BY <1>1, <2>2, <2>3
      <4>2. Len(y[m + 1]) = lv - j
        BY <1>3 DEF lv
      <4>. QED  BY <2>4, <3>2, <4>1, <4>2
    <3>3. CASE k # m /\ k # m + 1
      <4>1. y[k] = q[k] /\ r[k] = p[k]
        BY <1>2, <1>4, <1>5, <3>3
      <4>. QED  BY <1>5, <4>1
    <3>. QED  BY <3>1, <3>2, <3>3
  <2>6. \A k \in Places : k <= w => r[k + 1] = r[k] + Len(y[k]) - Behind(k, lag)
    <3>. TAKE k \in Places
    <3>. HAVE k <= w
    <3>1. p[k + 1] = p[k] + Len(q[k]) - Behind(k, lag) /\ p[k] \in Int /\ k + 1 \in Nat /\ k \in Nat
      BY <1>5
    <3>2. CASE k = m
      <4>1. a + lu + j = a + (lu + j) - 0
        BY <1>1
      <4>2. Len(y[m]) = lu + j
        BY <1>3 DEF lu
      <4>. QED  BY <1>7, <2>4, <3>2, <4>1, <4>2
    <3>3. CASE k = m + 1
      <4>1. k + 1 # m + 1 /\ r[k + 1] = p[k + 1]
        BY <1>1, <1>2, <3>1, <3>3
      <4>2. r[k] = p[k] + j /\ Len(y[k]) = Len(q[k]) - j
        <5>1. r[k] = b + j
          BY <1>2, <2>1, <3>3
        <5>2. Len(y[k]) = lv - j
          BY <1>3, <3>3 DEF lv
        <5>. QED  BY <3>3, <5>1, <5>2 DEF b, lv
      <4>3. Behind(k, lag) \in Int /\ Len(q[k]) \in Int /\ p[k] \in Int /\ j \in Int
        <5>1. Behind(k, lag) \in Int
          BY DEF Behind
        <5>. QED  BY <1>1, <1>5, <5>1
      <4>4. p[k] + Len(q[k]) - Behind(k, lag) = (p[k] + j) + (Len(q[k]) - j) - Behind(k, lag)
        <5>. DEFINE x == Behind(k, lag)
                    c == Len(q[k])
                    d == p[k]
        <5>1. x \in Int /\ c \in Int /\ d \in Int /\ j \in Int
          BY <4>3
        <5>. HIDE DEF x, c, d
        <5>2. d + c - x = (d + j) + (c - j) - x
          BY <5>1
        <5>. QED  BY <5>2 DEF x, c, d
      <4>. QED  BY <3>1, <4>1, <4>2, <4>4
    <3>4. CASE k # m /\ k # m + 1
      <4>1. y[k] = q[k] /\ r[k] = p[k] /\ r[k + 1] = p[k + 1]
        BY <1>1, <1>2, <1>4, <3>1, <3>4
      <4>. QED  BY <3>1, <4>1
    <3>. QED  BY <3>2, <3>3, <3>4
  <2>. QED  BY <1>6, <2>5, <2>6 DEF Lies, r, i, a, b
<1>. QED  BY <1>1, <1>8, <1>9

\* A unit that goes on by one place leaves the row as it was.
LEMMA FlowMoves ==
  ASSUME NEW n \in Nat, NEW q \in Rows, NEW lag \in Nat, NEW w \in Nat, NEW t \in Nat,
         Flow(n, q, lag, w, t), NEW m \in Places, m + 1 \in Places, w # m - 1, m = 2 => lag = 0,
         NEW j \in 0 .. Len(q[m + 1]), NEW y, Moves(q, y, m, j)
  PROVE  Flow(n, y, lag, w, t)
<1>1. PICK p \in [Nat -> Int] : Lies(p, n, q, lag, w, t)
  BY DEF Flow
<1>. DEFINE i == IF w >= m THEN j ELSE 0
            r == [p EXCEPT ![m + 1] = p[m + 1] + i]
<1>2. Lies(r, n, y, lag, w, t)
  BY <1>1, LiesMoves
<1>3. i \in Int /\ m + 1 \in Nat /\ p[m + 1] \in Int
  BY RowFields
<1>. HIDE DEF i
<1>4. r \in [Nat -> Int]
  BY <1>3, SMTT(20)
<1>. QED  BY <1>2, <1>4 DEF Flow, r

\* Joints break, and what is behind them does not matter any more.
Follows(q, y, j) ==
  /\ y[1] = q[1] \/ (j = 0 /\ y[1] = <<>>)
  /\ \A k \in Places : 2 <= k /\ k <= j + 1 => y[k] = q[k]

\* A row may hold less far than it did.
LEMMA FlowBreaks ==
  ASSUME NEW n \in Nat, NEW q \in Rows, NEW lag \in Nat, NEW w \in Nat, NEW t \in Nat,
         Flow(n, q, lag, w, t), NEW j \in Nat, j <= w, NEW lag2 \in Nat, j >= 2 => lag2 = lag,
         NEW y, Follows(q, y, j), NEW s \in Nat, t <= s, j = 5 => s = t /\ w = 5
  PROVE  Flow(n, y, lag2, j, s)
<1>1. PICK p \in [Nat -> Int] : Lies(p, n, q, lag, w, t)
  BY DEF Flow
<1>2. \A k \in Places : /\ k \in Nat /\ k + 1 \in Nat /\ Len(q[k]) \in Nat /\ p[k] \in Int /\ p[k + 1] \in Int
                        /\ k <= w + 1 => Run(q[k], p[k]) /\ p[k] + Len(q[k]) <= t
                        /\ k <= w => p[k + 1] = p[k] + Len(q[k]) - Behind(k, lag)
  <2>. TAKE k \in Places
  <2>1. k \in Nat /\ k + 1 \in Nat /\ Len(q[k]) \in Nat
    BY RowFields
  <2>2. p[k] \in Int /\ p[k + 1] \in Int
    BY <2>1
  <2>3. /\ k <= w + 1 => Run(q[k], p[k]) /\ p[k] + Len(q[k]) <= t
        /\ k <= w => p[k + 1] = p[k] + Len(q[k]) - Behind(k, lag)
    BY <1>1 DEF Lies
  <2>. QED  BY <2>1, <2>2, <2>3
<1>3. \A k \in Places : k <= j + 1 => Run(y[k], p[k]) /\ p[k] + Len(y[k]) <= s
  <2>. TAKE k \in Places
  <2>. HAVE k <= j + 1
  <2>1. Run(q[k], p[k]) /\ p[k] + Len(q[k]) <= s /\ p[k] + 0 <= s
    <3>. DEFINE c == Len(q[k])
                d == p[k]
    <3>1. c \in Nat /\ d \in Int /\ k \in Nat /\ k <= w + 1
      BY <1>2, SMTT(20)
    <3>2. Run(q[k], d) /\ d + c <= t
      BY <1>2, <3>1
    <3>. HIDE DEF c, d
    <3>3. d + c <= s /\ d + 0 <= s
      BY <3>1, <3>2
    <3>. QED  BY <3>2, <3>3 DEF c, d
  <2>2. Run(<<>>, p[k]) /\ Len(<<>>) = 0
    BY DEF Run
  <2>3. y[k] = q[k] \/ y[k] = <<>>
    BY PlacesAre DEF Follows
  <2>. QED  BY <2>1, <2>2, <2>3
<1>4. \A k \in Places : k <= j => p[k + 1] = p[k] + Len(y[k]) - Behind(k, lag2)
  <2>. TAKE k \in Places
  <2>. HAVE k <= j
  <2>a. k \in Nat /\ 1 <= k
    BY PlacesAre
  <2>0. k \in Nat /\ k <= w /\ k <= j + 1 /\ (k = 2 => j >= 2) /\ (k = 1 => j # 0) /\ (k # 1 => 2 <= k)
    <3>1. k <= j /\ j <= w
      OBVIOUS
    <3>2. k <= w /\ k <= j + 1
      BY <2>a, <3>1
    <3>3. (k = 2 => j >= 2) /\ (k = 1 => j # 0) /\ (k # 1 => 2 <= k)
      BY <2>a, <3>1
    <3>. QED  BY <2>a, <3>2, <3>3
  <2>1. y[k] = q[k]
    BY <2>0 DEF Follows
  <2>2. Behind(k, lag2) = Behind(k, lag)
    BY <2>0 DEF Behind
  <2>. QED  BY <1>2, <2>0, <2>1, <2>2
<1>5. p[1] = n /\ (j = 5 => p[6] = s)
  BY <1>1 DEF Lies
<1>6. Lies(p, n, y, lag2, j, s)
  BY <1>3, <1>4, <1>5 DEF Lies
<1>. QED  BY <1>6 DEF Flow

-------------------------------------------------------------------------------
(* Links that lose data. *)

\* An end keeps what waits at it as long as it is not closed; a reset stays.
EndFades(i, k) ==
  /\ k.in \in {i.in, <<>>}
  /\ k.state # "closed" => i.state # "closed" /\ k.in = i.in /\ (i.reset => k.reset)
  /\ k.state = "none" => i.state = "none" /\ k.reset = i.reset

\* Who has connected has somebody to send to.
Joined(l) == l["near"].state = "open" => l["far"].state # "none"

Fades(l, k) ==
  /\ k \in Wire
  /\ Joined(l) => Joined(k)
  /\ \A e \in Ends : EndFades(l[e], k[e])

\* What can happen to one end without data being sent or read.
LEMMA EndsFade ==
  ASSUME NEW i \in WireEnd
  PROVE  /\ EndFades(i, i) /\ EndFades(i, ClosedEnd)
         /\ EndFades(i, [i EXCEPT !.error = FALSE]) /\ EndFades(i, [i EXCEPT !.eof = TRUE])
         /\ i.state # "none" => EndFades(i, ResetEnd(i))
         /\ \A v \in States : v \notin {"none", "closed"} /\ i.state # "closed"
              => EndFades(i, [i EXCEPT !.state = v])
<1>1. i \in End
  BY DEF WireEnd
<1>2. EndFades(i, i)
  BY DEF EndFades
<1>3. EndFades(i, ClosedEnd)
  BY DEF EndFades, ClosedEnd, NoEnd
<1>4. EndFades(i, [i EXCEPT !.error = FALSE]) /\ EndFades(i, [i EXCEPT !.eof = TRUE])
  BY <1>1 DEF EndFades, End
<1>5. i.state # "none" => EndFades(i, ResetEnd(i))
  BY <1>1 DEF EndFades, ResetEnd, End
<1>6. ASSUME NEW v \in States, v \notin {"none", "closed"}, i.state # "closed"
      PROVE  EndFades(i, [i EXCEPT !.state = v])
  BY <1>1, <1>6 DEF EndFades, End
<1>. QED  BY <1>2, <1>3, <1>4, <1>5, <1>6

\* EndFades is transitive.
LEMMA EndFadesTwice ==
  ASSUME NEW i, NEW j, NEW k, EndFades(i, j), EndFades(j, k)
  PROVE  EndFades(i, k)
BY DEF EndFades

\* Fades is transitive.
LEMMA FadesTwice ==
  ASSUME NEW l, NEW j, NEW k, Fades(l, j), Fades(j, k)
  PROVE  Fades(l, k)
<1>1. \A e \in Ends : EndFades(l[e], k[e])
  <2>. TAKE e \in Ends
  <2>1. EndFades(l[e], j[e]) /\ EndFades(j[e], k[e])
    BY DEF Fades
  <2>. QED  BY <2>1, EndFadesTwice
<1>. QED  BY <1>1 DEF Fades

\* One end of a link fades.
LEMMA OneEndFades ==
  ASSUME NEW l \in Wire, NEW e \in Ends, NEW k \in WireEnd, EndFades(l[e], k),
         k.state \in {l[e].state, "closed"}
  PROVE  Fades(l, [l EXCEPT ![e] = k])
<1>. DEFINE m == [l EXCEPT ![e] = k]
<1>1. /\ m \in Wire /\ m[e] = k /\ m[Peer(e)] = l[Peer(e)] /\ l[Peer(e)] \in WireEnd
      /\ Peer(e) \in Ends /\ \A f \in Ends : f = e \/ f = Peer(e)
  BY WireFields, EndChanges DEF Ends
<1>. HIDE DEF m
<1>2. EndFades(l[Peer(e)], m[Peer(e)])
  BY <1>1, EndsFade
<1>3. \A f \in Ends : EndFades(l[f], m[f])
  BY <1>1, <1>2
<1>4. Joined(l) => Joined(m)
  BY <1>1 DEF Joined, EndFades, Ends, Peer
<1>5. Fades(l, m)
  BY <1>1, <1>3, <1>4 DEF Fades
<1>. QED  BY <1>5 DEF m

\* An end is closed; what waited there may have been read before.
LEMMA CloseFades ==
  ASSUME NEW l \in Wire, NEW e \in Ends
  PROVE  Fades(l, Close(l, e))
<1>. DEFINE p == Peer(e)
            m == [l EXCEPT ![e] = ClosedEnd]
            j == [l[p] EXCEPT !.eof = TRUE]
<1>1. p \in Ends /\ p # e /\ l[p] \in WireEnd /\ l[e] \in WireEnd
  BY WireFields
<1>2. m \in Wire /\ m[p] = l[p]
  BY ConstantEnds, EndChanges
<1>3. Close(l, e) = IF ~ HasFd(l, e) THEN l
                    ELSE IF l[p].state \notin {"open", "queued"} THEN m
                    ELSE IF l[e].in # <<>> THEN [m EXCEPT ![p] = ResetEnd(l[p])]
                    ELSE [m EXCEPT ![p] = j]
  BY <1>2 DEF Close, ClosedEnd
<1>4. Fades(l, l)
  BY EndsFade, WireFields DEF Fades
<1>5. Fades(l, m)
  BY <1>1, ConstantEnds, EndsFade, OneEndFades
<1>6. /\ j \in WireEnd /\ j.state = l[p].state
      /\ ResetEnd(l[p]) \in WireEnd /\ ResetEnd(l[p]).state = l[p].state
  BY <1>1, ResetEndFacts, EndMarks
<1>7. EndFades(l[p], j) /\ (l[p].state # "none" => EndFades(l[p], ResetEnd(l[p])))
  BY <1>1, EndsFade
<1>. HIDE DEF j, m, p
<1>8. Fades(m, [m EXCEPT ![p] = j]) /\ (l[p].state # "none" => Fades(m, [m EXCEPT ![p] = ResetEnd(l[p])]))
  BY <1>1, <1>2, <1>6, <1>7, OneEndFades
<1>. QED  BY <1>3, <1>4, <1>5, <1>8, FadesTwice

\* Reading a unit and closing loses data only at the end that closes.
LEMMA ReadAndCloseFades ==
  ASSUME NEW l \in Wire, NEW e \in Ends, HasFd(l, e), NEW n \in 0 .. Len(l[e].in)
  PROVE  Fades(l, Close(Consume(l, e, n), e))
<1>. DEFINE j == Consume(l, e, n)
            k == Close(j, e)
            p == Peer(e)
<1>1. p \in Ends /\ p # e /\ l[p] \in WireEnd /\ l[e] \in WireEnd /\ \A f \in Ends : f = e \/ f = p
  BY WireFields DEF Ends
<1>2. j \in Wire /\ j[p] = l[p] /\ HasFd(j, e) /\ j[e].state = l[e].state
  <2>1. SameStates(l, j)
    BY LinkData
  <2>2. j[p] = l[p]
    BY <1>1 DEF Consume, Wire
  <2>. QED  BY <2>1, <2>2 DEF SameStates, HasFd
<1>. HIDE DEF j
<1>3. Fades(j, k) /\ k \in Wire /\ k[e].state = "closed" /\ k[e].in \in {<<>>}
  <2>1. Fades(j, k) /\ k \in Wire
    BY <1>2, CloseFades, CloseStates
  <2>2. k[e] = ClosedEnd
    <3>. DEFINE m == [j EXCEPT ![e] = ClosedEnd]
    <3>1. m \in Wire /\ m[e] = ClosedEnd
      BY <1>2, ConstantEnds, EndChanges
    <3>2. \/ k = m
          \/ \E i : k = [m EXCEPT ![p] = i]
      <4>1. k = IF j[p].state \notin {"open", "queued"} THEN m
                ELSE IF j[e].in # <<>> THEN [m EXCEPT ![p] = ResetEnd(m[p])]
                ELSE [m EXCEPT ![p] = [m[p] EXCEPT !.eof = TRUE]]
        BY <1>2 DEF Close, ClosedEnd
      <4>. QED  BY <4>1
    <3>. HIDE DEF m, k
    <3>. QED  BY <1>1, <3>1, <3>2 DEF Wire
  <2>. QED  BY <2>1, <2>2 DEF ClosedEnd, NoEnd
<1>. HIDE DEF k
<1>4. EndFades(l[e], k[e])
  BY <1>3 DEF EndFades
<1>5. EndFades(l[p], k[p])
  BY <1>1, <1>2, <1>3 DEF Fades
<1>6. Joined(l) => Joined(k)
  <2>1. Joined(l) => Joined(j)
    BY <1>1, <1>2 DEF Joined, Ends
  <2>. QED  BY <1>3, <2>1 DEF Fades
<1>7. Fades(l, k)
  BY <1>1, <1>3, <1>4, <1>5, <1>6 DEF Fades
<1>. QED  BY <1>7 DEF k, j

\* The other calls on a link, and the network, lose data at most.
LEMMA CallsFade ==
  ASSUME NEW l \in Wire
  PROVE  /\ Fades(l, l) /\ Fades(l, Break(l)) /\ (Shaped(l) => Fades(l, Abandon(l)))
         /\ \A e \in Ends : Fades(l, ErrorRead(l, e))
         /\ l["near"].state # "none" => Fades(l, Refuse(l))
         /\ l["far"].state = "queued" => Fades(l, Accept(l))
         /\ l["near"].state = "connecting" /\ l["far"].state = "none" => Fades(l, Establish(l))
<1>0. /\ l["near"] \in WireEnd /\ l["far"] \in WireEnd /\ "near" \in Ends /\ "far" \in Ends
      /\ Peer("near") = "far" /\ Peer("far") = "near"
      /\ \A e \in Ends : l[e] \in WireEnd /\ (e = "near" \/ e = "far")
  BY WireFields DEF Ends
<1>1. Fades(l, l)
  BY <1>0, EndsFade DEF Fades
<1>2. Fades(l, Break(l))
  <2>1. Break(l) \in Wire /\ \A e \in Ends : Break(l)[e] = IF HasFd(l, e) THEN ResetEnd(l[e]) ELSE l[e]
    BY LinkData, <1>0 DEF SameStates, Break
  <2>2. \A e \in Ends : EndFades(l[e], Break(l)[e]) /\ Break(l)[e].state = l[e].state
    BY <1>0, <2>1, EndsFade, ResetEndFacts DEF HasFd
  <2>. QED  BY <1>0, <2>1, <2>2 DEF Fades, Joined
<1>3. Shaped(l) => Fades(l, Abandon(l))
  <2>. DEFINE m == [l EXCEPT !["near"] = ResetEnd(l["near"])]
              k == [m EXCEPT !["far"] = ClosedEnd]
              i == [l EXCEPT !["far"] = ClosedEnd]
  <2>1. Abandon(l) = IF l["far"].state # "queued" THEN l ELSE k
    BY DEF Abandon, ClosedEnd
  <2>2. CASE l["far"].state = "queued" /\ Shaped(l)
    <3>1. Fades(l, m) /\ m \in Wire
      <4>1. l["near"].state # "none"
        BY <2>2 DEF Shaped
      <4>. QED  BY <1>0, <4>1, ResetEndFacts, EndsFade, OneEndFades, EndChanges
    <3>2. m["far"] \in WireEnd
      BY <1>0, <3>1, WireFields
    <3>. HIDE DEF m
    <3>3. Fades(m, k)
      BY <1>0, <3>1, <3>2, ConstantEnds, EndsFade, OneEndFades
    <3>. QED  BY <2>1, <2>2, <3>1, <3>3, FadesTwice
  <2>. QED  BY <1>1, <2>1, <2>2
<1>4. \A e \in Ends : Fades(l, ErrorRead(l, e))
  <2>. TAKE e \in Ends
  <2>. DEFINE i == [l[e] EXCEPT !.error = FALSE]
  <2>1. ErrorRead(l, e) = [l EXCEPT ![e] = i]
    BY DEF ErrorRead
  <2>2. i \in WireEnd /\ i.state = l[e].state /\ EndFades(l[e], i)
    BY <1>0, EndMarks, EndsFade
  <2>. HIDE DEF i
  <2>. QED  BY <2>1, <2>2, OneEndFades
<1>5. l["near"].state # "none" => Fades(l, Refuse(l))
  BY <1>0, ResetEndFacts, EndsFade, OneEndFades DEF Refuse
<1>. DEFINE OpenFar == [l["far"] EXCEPT !.state = "open"]
            Queued == [l["far"] EXCEPT !.state = "queued"]
            OpenNear == [l["near"] EXCEPT !.state = "open"]
            m == [l EXCEPT !["near"] = OpenNear]
<1>6. /\ OpenFar \in WireEnd /\ OpenFar.state = "open" /\ Queued \in WireEnd /\ Queued.state = "queued"
      /\ OpenNear \in WireEnd /\ OpenNear.state = "open"
  BY <1>0, EndState DEF States
<1>7. /\ l["far"].state # "closed" => EndFades(l["far"], OpenFar) /\ EndFades(l["far"], Queued)
      /\ l["near"].state # "closed" => EndFades(l["near"], OpenNear)
  BY <1>0, EndsFade DEF States
<1>8. EndFades(l["near"], l["near"])
  BY <1>0, EndsFade
<1>. HIDE DEF OpenFar, Queued, OpenNear
<1>9. /\ m \in Wire /\ m["near"] = OpenNear /\ m["far"] = l["far"]
  BY <1>0, <1>6, EndChanges
<1>10. l["far"].state = "queued" => Fades(l, Accept(l))
  <2>. DEFINE k == [l EXCEPT !["far"] = OpenFar]
  <2>1. Accept(l) = k
    BY DEF Accept, OpenFar
  <2>2. k \in Wire /\ k["far"] = OpenFar /\ k["near"] = l["near"]
    BY <1>0, <1>6, EndChanges
  <2>. HIDE DEF k
  <2>. QED  BY <1>0, <1>6, <1>7, <1>8, <2>1, <2>2 DEF Fades, Joined
<1>11. l["near"].state = "connecting" /\ l["far"].state = "none" => Fades(l, Establish(l))
  <2>. DEFINE k == [m EXCEPT !["far"] = Queued]
  <2>1. Establish(l) = k
    BY DEF Establish, OpenNear, Queued
  <2>. HIDE DEF m
  <2>2. k \in Wire /\ k["far"] = Queued /\ k["near"] = OpenNear
    BY <1>0, <1>6, <1>9, EndChanges
  <2>. HIDE DEF k
  <2>. QED  BY <1>0, <1>6, <1>7, <1>8, <2>1, <2>2 DEF Fades, Joined
<1>. QED  BY <1>1, <1>2, <1>3, <1>4, <1>5, <1>10, <1>11

-------------------------------------------------------------------------------
(* The two directions. *)

Waiting(x, l, e) == x.links[l][e].in
Kept(x, s) == x.sticks[s].wb
Stands(x, l, e) == x.links[l][e].state # "closed"

Row(a, b, c, d, e) == [k \in Places |-> CASE k = 1 -> a [] k = 2 -> b [] k = 3 -> c [] k = 4 -> d [] k = 5 -> e]

Upward(x) ==
  Row(Waiting(x, "cd", "far"), Kept(x, "CR"), Waiting(x, "bc", "far"), Kept(x, "BR"), Waiting(x, "ab", "far"))
Downward(x) ==
  Row(Waiting(x, "ab", "near"), Kept(x, "BL"), Waiting(x, "bc", "near"), Kept(x, "CL"), Waiting(x, "cd", "near"))

\* How many joints hold, from the reader on: between a stick and a queue while the ends
\* of their connection stand.
Level(a, b, c, d, e) ==
  IF ~ a THEN 0 ELSE IF ~ b THEN 1 ELSE IF ~ c THEN 2 ELSE IF ~ d THEN 3 ELSE IF ~ e THEN 4 ELSE 5

UpLevel(x) ==
  Level(Stands(x, "cd", "near") /\ Stands(x, "cd", "far"), Stands(x, "bc", "far"), Stands(x, "bc", "near"),
        Stands(x, "ab", "far"), Stands(x, "ab", "near"))
DownLevel(x) ==
  Level(Stands(x, "ab", "near") /\ Stands(x, "ab", "far"), Stands(x, "bc", "near"), Stands(x, "bc", "far"),
        Stands(x, "cd", "near"), Stands(x, "cd", "far") /\ ~ x.links["cd"]["far"].reset)

\* BR has sent the address, or will, and CL has not taken it.
Lag(x) == IF x.sticks["BR"].life # "none" /\ ~ x.sticks["CL"].parsed THEN 1 ELSE 0

\* What is not there yet holds nothing; the client has called from the beginning.
Fresh(x) ==
  /\ \A s \in Sticks : x.sticks[s].life = "none" => Kept(x, s) = <<>> /\ ~ x.sticks[s].parsed
  /\ \A l \in LinkNames : /\ Joined(x.links[l])
                          /\ \A e \in Ends : x.links[l][e].state = "none" =>
                               Waiting(x, l, e) = <<>> /\ ~ x.links[l][e].reset
  /\ x.links["ab"]["far"].state # "none"

\* Nothing is answered before CL has the address.
Early(x) == ~ x.sticks["CL"].parsed => echoed = <<>>

Flows(x) ==
  /\ Fresh(x) /\ Early(x)
  /\ Flow(Len(echoed), Upward(x), Lag(x), UpLevel(x), client.sent)
  /\ Flow(Len(client.got), Downward(x), 0, DownLevel(x), Len(echoed))

\* The five places of a row, one by one.
LEMMA RowCells ==
  ASSUME NEW a, NEW b, NEW c, NEW d, NEW e
  PROVE  /\ Row(a, b, c, d, e)[1] = a /\ Row(a, b, c, d, e)[2] = b /\ Row(a, b, c, d, e)[3] = c
         /\ Row(a, b, c, d, e)[4] = d /\ Row(a, b, c, d, e)[5] = e
         /\ a \in Seq(Nat) /\ b \in Seq(Nat) /\ c \in Seq(Nat) /\ d \in Seq(Nat) /\ e \in Seq(Nat)
              => Row(a, b, c, d, e) \in Rows
         /\ 1 \in Places /\ 2 \in Places /\ 3 \in Places /\ 4 \in Places /\ 5 \in Places
         /\ \A k \in Places : k = 1 \/ k = 2 \/ k = 3 \/ k = 4 \/ k = 5
<1>1. /\ 1 \in Places /\ 2 \in Places /\ 3 \in Places /\ 4 \in Places /\ 5 \in Places
      /\ \A k \in Places : k = 1 \/ k = 2 \/ k = 3 \/ k = 4 \/ k = 5
  BY DEF Places
<1>2. /\ Row(a, b, c, d, e)[1] = a /\ Row(a, b, c, d, e)[2] = b /\ Row(a, b, c, d, e)[3] = c
      /\ Row(a, b, c, d, e)[4] = d /\ Row(a, b, c, d, e)[5] = e
  BY <1>1 DEF Row
<1>3. ASSUME a \in Seq(Nat) /\ b \in Seq(Nat) /\ c \in Seq(Nat) /\ d \in Seq(Nat) /\ e \in Seq(Nat)
      PROVE  Row(a, b, c, d, e) \in Rows
  <2>1. \A k \in Places : Row(a, b, c, d, e)[k] \in Seq(Nat)
    BY <1>1, <1>2, <1>3
  <2>. QED  BY <2>1 DEF Row, Rows
<1>. QED  BY <1>1, <1>2, <1>3

\* The names of the links, ends and sticks.
LEMMA Names2 ==
  /\ "ab" \in LinkNames /\ "bc" \in LinkNames /\ "cd" \in LinkNames
  /\ "near" \in Ends /\ "far" \in Ends
  /\ "BL" \in Sticks /\ "BR" \in Sticks /\ "CL" \in Sticks /\ "CR" \in Sticks
BY DEF LinkNames, Ends, Sticks

\* The types of the rows and levels of a relay.
LEMMA RelayCells ==
  ASSUME NEW x \in Relay
  PROVE  /\ \A l \in LinkNames, e \in Ends : Waiting(x, l, e) \in Seq(Nat)
         /\ \A s \in Sticks : Kept(x, s) \in Seq(Nat)
         /\ Upward(x) \in Rows /\ Downward(x) \in Rows
         /\ UpLevel(x) \in Nat /\ UpLevel(x) <= 5 /\ DownLevel(x) \in Nat /\ DownLevel(x) <= 5
         /\ Lag(x) \in Nat
<1>1. \A l \in LinkNames, e \in Ends : Waiting(x, l, e) \in Seq(Nat)
  BY RelayFields, WireFields DEF Waiting
<1>2. \A s \in Sticks : Kept(x, s) \in Seq(Nat)
  BY RelayFields DEF Kept, Stick
<1>3. Upward(x) \in Rows /\ Downward(x) \in Rows
  BY <1>1, <1>2, Names2, RowCells DEF Upward, Downward
<1>4. /\ UpLevel(x) \in Nat /\ UpLevel(x) <= 5 /\ DownLevel(x) \in Nat /\ DownLevel(x) <= 5
      /\ Lag(x) \in Nat
  BY DEF UpLevel, DownLevel, Level, Lag
<1>. QED  BY <1>1, <1>2, <1>3, <1>4

-------------------------------------------------------------------------------
(* A relay that only loses data. *)

Fading(x, y) ==
  /\ y \in Relay
  /\ \A l \in LinkNames : Fades(x.links[l], y.links[l])
  /\ \A s \in Sticks : /\ Kept(y, s) = Kept(x, s)
                       /\ y.sticks[s].parsed = x.sticks[s].parsed
                       /\ y.sticks[s].life = "none" => x.sticks[s].life = "none"
  /\ y.sticks["BR"].life = "none" <=> x.sticks["BR"].life = "none"

\* What is not there yet still holds nothing.
LEMMA FadingFresh ==
  ASSUME NEW x, NEW y, Fresh(x), Fading(x, y)
  PROVE  Fresh(y)
<1>1. \A s \in Sticks : y.sticks[s].life = "none" => Kept(y, s) = <<>> /\ ~ y.sticks[s].parsed
  BY DEF Fading, Fresh
<1>2. ASSUME NEW l \in LinkNames
      PROVE  Joined(y.links[l])
  BY DEF Fading, Fades, Fresh
<1>3. ASSUME NEW l \in LinkNames, NEW e \in Ends, y.links[l][e].state = "none"
      PROVE  Waiting(y, l, e) = <<>> /\ ~ y.links[l][e].reset
  <2>1. EndFades(x.links[l][e], y.links[l][e])
    BY DEF Fading, Fades
  <2>2. /\ x.links[l][e].state = "none" /\ y.links[l][e].reset = x.links[l][e].reset
        /\ y.links[l][e].in = x.links[l][e].in
    BY <1>3, <2>1 DEF EndFades
  <2>. QED  BY <2>2 DEF Fresh, Waiting
<1>4. y.links["ab"]["far"].state # "none"
  <2>1. EndFades(x.links["ab"]["far"], y.links["ab"]["far"])
    BY Names2 DEF Fading, Fades
  <2>. QED  BY <2>1 DEF EndFades, Fresh
<1>. QED  BY <1>1, <1>2, <1>3, <1>4 DEF Fresh

\* Fading, a row holds no further than before, and is the same as far as it holds.
LEMMA FadingLevels ==
  ASSUME NEW x, NEW y, Fading(x, y)
  PROVE  /\ UpLevel(y) <= UpLevel(x) /\ Follows(Upward(x), Upward(y), UpLevel(y))
         /\ DownLevel(y) <= DownLevel(x) /\ Follows(Downward(x), Downward(y), DownLevel(y))
<1>1. \A l \in LinkNames, e \in Ends :
        /\ Stands(y, l, e) => Stands(x, l, e) /\ Waiting(y, l, e) = Waiting(x, l, e)
        /\ Stands(y, l, e) /\ x.links[l][e].reset => y.links[l][e].reset
        /\ Waiting(y, l, e) = Waiting(x, l, e) \/ Waiting(y, l, e) = <<>>
  <2>. TAKE l \in LinkNames, e \in Ends
  <2>1. EndFades(x.links[l][e], y.links[l][e])
    BY DEF Fading, Fades
  <2>. QED  BY <2>1 DEF EndFades, Stands, Waiting
<1>2. \A s \in Sticks : Kept(y, s) = Kept(x, s)
  BY DEF Fading
<1>3. UpLevel(y) <= UpLevel(x) /\ DownLevel(y) <= DownLevel(x)
  BY <1>1, Names2 DEF UpLevel, DownLevel, Level
<1>4. Follows(Upward(x), Upward(y), UpLevel(y))
  <2>1. /\ UpLevel(y) > 0 => Stands(y, "cd", "far") /\ Stands(y, "cd", "near")
        /\ UpLevel(y) > 1 => Stands(y, "bc", "far")
        /\ UpLevel(y) > 3 => Stands(y, "ab", "far")
        /\ UpLevel(y) \in Nat
    BY DEF UpLevel, Level
  <2>. DEFINE w == UpLevel(y)
  <2>. HIDE DEF w
  <2>2. /\ Upward(y)[1] = Upward(x)[1] \/ (w = 0 /\ Upward(y)[1] = <<>>)
        /\ Upward(y)[2] = Upward(x)[2]
        /\ w > 1 => Upward(y)[3] = Upward(x)[3]
        /\ Upward(y)[4] = Upward(x)[4]
        /\ w > 3 => Upward(y)[5] = Upward(x)[5]
    BY <1>1, <1>2, <2>1, Names2, RowCells DEF Upward, w
  <2>3. w \in Nat
    BY <2>1 DEF w
  <2>4. ASSUME NEW k \in Places, 2 <= k, k <= w + 1  PROVE Upward(y)[k] = Upward(x)[k]
    <3>1. k = 2 \/ k = 3 \/ k = 4 \/ k = 5
      BY <2>4, RowCells
    <3>2. (k = 3 => w > 1) /\ (k = 5 => w > 3)
      BY <2>3, <2>4
    <3>. QED  BY <2>2, <3>1, <3>2
  <2>5. Follows(Upward(x), Upward(y), w)
    BY <2>2, <2>4 DEF Follows
  <2>. QED  BY <2>5 DEF w
<1>5. Follows(Downward(x), Downward(y), DownLevel(y))
  <2>1. /\ DownLevel(y) > 0 => Stands(y, "ab", "near") /\ Stands(y, "ab", "far")
        /\ DownLevel(y) > 1 => Stands(y, "bc", "near")
        /\ DownLevel(y) > 3 => Stands(y, "cd", "near")
        /\ DownLevel(y) \in Nat
    BY DEF DownLevel, Level
  <2>. DEFINE w == DownLevel(y)
  <2>. HIDE DEF w
  <2>2. /\ Downward(y)[1] = Downward(x)[1] \/ (w = 0 /\ Downward(y)[1] = <<>>)
        /\ Downward(y)[2] = Downward(x)[2]
        /\ w > 1 => Downward(y)[3] = Downward(x)[3]
        /\ Downward(y)[4] = Downward(x)[4]
        /\ w > 3 => Downward(y)[5] = Downward(x)[5]
    BY <1>1, <1>2, <2>1, Names2, RowCells DEF Downward, w
  <2>3. w \in Nat
    BY <2>1 DEF w
  <2>4. ASSUME NEW k \in Places, 2 <= k, k <= w + 1  PROVE Downward(y)[k] = Downward(x)[k]
    <3>1. k = 2 \/ k = 3 \/ k = 4 \/ k = 5
      BY <2>4, RowCells
    <3>2. (k = 3 => w > 1) /\ (k = 5 => w > 3)
      BY <2>3, <2>4
    <3>. QED  BY <2>2, <3>1, <3>2
  <2>5. Follows(Downward(x), Downward(y), w)
    BY <2>2, <2>4 DEF Follows
  <2>. QED  BY <2>5 DEF w
<1>. QED  BY <1>3, <1>4, <1>5

\* What the rest of the proof knows of the two variables beside hx.
Counted == client \in Client /\ echoed \in Seq(Nat)

\* The rows of a relay that fades.
LEMMA FadingRows ==
  ASSUME NEW x \in Relay, NEW y, Fading(x, y), NEW n \in Nat, NEW t \in Nat
  PROVE  /\ Flow(n, Upward(x), Lag(x), UpLevel(x), t) => Flow(n, Upward(y), Lag(y), UpLevel(y), t)
         /\ Flow(n, Downward(x), 0, DownLevel(x), t) => Flow(n, Downward(y), 0, DownLevel(y), t)
<1>1. y \in Relay /\ Lag(y) = Lag(x)
  BY Names2 DEF Fading, Lag
<1>2. /\ Upward(x) \in Rows /\ Downward(x) \in Rows /\ Lag(x) \in Nat
      /\ UpLevel(x) \in Nat /\ UpLevel(x) <= 5 /\ DownLevel(x) \in Nat /\ DownLevel(x) <= 5
      /\ UpLevel(y) \in Nat /\ DownLevel(y) \in Nat
  BY <1>1, RelayCells
<1>3. /\ UpLevel(y) <= UpLevel(x) /\ Follows(Upward(x), Upward(y), UpLevel(y))
      /\ DownLevel(y) <= DownLevel(x) /\ Follows(Downward(x), Downward(y), DownLevel(y))
  BY FadingLevels
<1>4. /\ (UpLevel(y) = 5 => UpLevel(x) = 5) /\ (DownLevel(y) = 5 => DownLevel(x) = 5)
      /\ t <= t /\ 0 \in Nat
  BY <1>2, <1>3
<1>5. Flow(n, Upward(x), Lag(x), UpLevel(x), t) => Flow(n, Upward(y), Lag(y), UpLevel(y), t)
  BY <1>1, <1>2, <1>3, <1>4, FlowBreaks
<1>6. Flow(n, Downward(x), 0, DownLevel(x), t) => Flow(n, Downward(y), 0, DownLevel(y), t)
  BY <1>1, <1>2, <1>3, <1>4, FlowBreaks
<1>. QED  BY <1>5, <1>6

\* Flows is preserved by whatever only loses data.
LEMMA FadingFlows ==
  ASSUME Counted, NEW x \in Relay, NEW y, Flows(x), Fading(x, y)
  PROVE  Flows(y)
<1>1. Len(echoed) \in Nat /\ Len(client.got) \in Nat /\ client.sent \in Nat
  BY DEF Counted, Client
<1>2. Early(y)
  BY Names2 DEF Fading, Flows, Early
<1>3. /\ Flow(Len(echoed), Upward(y), Lag(y), UpLevel(y), client.sent)
      /\ Flow(Len(client.got), Downward(y), 0, DownLevel(y), Len(echoed))
  BY <1>1, FadingRows DEF Flows
<1>4. Fresh(y)
  BY FadingFresh DEF Flows
<1>. QED  BY <1>2, <1>3, <1>4 DEF Flows

-------------------------------------------------------------------------------
(* The calls that only lose data. *)

\* Fading is reflexive.
LEMMA FadingItself ==
  ASSUME NEW x \in Relay  PROVE Fading(x, x)
<1>1. \A l \in LinkNames : Fades(x.links[l], x.links[l])
  BY RelayFields, CallsFade
<1>. QED  BY <1>1 DEF Fading

\* Fading is transitive.
LEMMA FadingTwice ==
  ASSUME NEW x, NEW y, NEW z, Fading(x, y), Fading(y, z)
  PROVE  Fading(x, z)
<1>1. \A l \in LinkNames : Fades(x.links[l], z.links[l])
  <2>. TAKE l \in LinkNames
  <2>1. Fades(x.links[l], y.links[l]) /\ Fades(y.links[l], z.links[l])
    BY DEF Fading
  <2>. QED  BY <2>1, FadesTwice
<1>. QED  BY <1>1 DEF Fading

\* One link changes, and perhaps the fields of the sticks that hold no data.
LEMMA OneFading ==
  ASSUME NEW x \in Relay, NEW y \in Relay, NEW l \in LinkNames, NEW k,
         Fades(x.links[l], k), y.links = [x.links EXCEPT ![l] = k],
         \A s \in Sticks : /\ y.sticks[s].wb = x.sticks[s].wb /\ y.sticks[s].parsed = x.sticks[s].parsed
                           /\ y.sticks[s].life = "none" <=> x.sticks[s].life = "none"
  PROVE  Fading(x, y)
<1>1. y.links[l] = k /\ \A n \in LinkNames : n # l => y.links[n] = x.links[n]
  BY RelayFields
<1>2. \A n \in LinkNames : Fades(x.links[n], y.links[n])
  BY <1>1, RelayFields, CallsFade
<1>. QED  BY <1>2, Names2 DEF Fading, Kept

\* A link that fades, in the relay.
LEMMA LinkFading ==
  ASSUME NEW x \in Relay, NEW l \in LinkNames, NEW k, Fades(x.links[l], k)
  PROVE  Fading(x, SetLink(x, l, k))
<1>. DEFINE y == SetLink(x, l, k)
<1>1. k \in Wire
  BY DEF Fades
<1>2. y \in Relay /\ y.links = [x.links EXCEPT ![l] = k] /\ y.sticks = x.sticks
  BY <1>1, SetFacts
<1>. HIDE DEF y
<1>3. Fading(x, y)
  BY <1>2, OneFading
<1>. QED  BY <1>3 DEF y

\* CloseFd after at most a read from the socket it closes.
LEMMA CloseFdFading ==
  ASSUME NEW x \in Relay, NEW s \in Sticks, NEW z \in Relay,
         Fades(z.links[Link(s)], Close(x.links[Link(s)], EndOf(s))),
         \A l \in LinkNames : l # Link(s) => x.links[l] = z.links[l],
         x.sticks = z.sticks
  PROVE  Fading(z, CloseFd(x, s))
<1>. DEFINE y == CloseFd(x, s)
            m == Mate(s)
            k == Close(x.links[Link(s)], EndOf(s))
<1>1. /\ m \in Sticks /\ m # s /\ x.sticks[s] \in Stick /\ x.sticks[m] \in Stick /\ Link(s) \in LinkNames
      /\ x.links \in [LinkNames -> Wire] /\ z.links \in [LinkNames -> Wire]
  BY Mates, RelayFields
<1>2. /\ y \in Relay
      /\ y.links = [x.links EXCEPT ![Link(s)] = k]
      /\ y.sticks[s] = IF x.sticks[s].life = "live"
                       THEN [[x.sticks[s] EXCEPT !.mate = FALSE] EXCEPT !.life = "destroyed"]
                       ELSE [x.sticks[s] EXCEPT !.mate = FALSE]
      /\ y.sticks[m] = IF x.sticks[s].mate
                       THEN [x.sticks[m] EXCEPT !.mateStatus = "discon", !.mate = FALSE]
                       ELSE x.sticks[m]
      /\ \A t \in Sticks : t \notin {s, m} => y.sticks[t] = x.sticks[t]
  BY <1>1, CloseFdDoes
<1>. HIDE DEF y, k
<1>3. /\ y.sticks[s].wb = x.sticks[s].wb /\ y.sticks[s].parsed = x.sticks[s].parsed
      /\ y.sticks[s].life = "none" <=> x.sticks[s].life = "none"
  BY <1>1, <1>2 DEF Stick
<1>4. /\ y.sticks[m].wb = x.sticks[m].wb /\ y.sticks[m].parsed = x.sticks[m].parsed
      /\ y.sticks[m].life = "none" <=> x.sticks[m].life = "none"
  BY <1>1, <1>2 DEF Stick
<1>5. \A t \in Sticks : /\ y.sticks[t].wb = z.sticks[t].wb /\ y.sticks[t].parsed = z.sticks[t].parsed
                        /\ y.sticks[t].life = "none" <=> z.sticks[t].life = "none"
  BY <1>2, <1>3, <1>4
<1>6. y.links = [z.links EXCEPT ![Link(s)] = k]
  BY <1>1, <1>2
<1>7. Fading(z, y)
  <2>1. Link(s) \in LinkNames /\ Fades(z.links[Link(s)], k)
    BY <1>1 DEF k
  <2>. QED  BY <1>2, <1>5, <1>6, <2>1, OneFading
<1>. QED  BY <1>7 DEF y

\* CloseFd.
LEMMA CloseFading ==
  ASSUME NEW x \in Relay, NEW s \in Sticks
  PROVE  Fading(x, CloseFd(x, s))
<1>1. Fades(x.links[Link(s)], Close(x.links[Link(s)], EndOf(s)))
  BY Mates, RelayFields, CloseFades
<1>. QED  BY <1>1, CloseFdFading

\* What a stick without a mate reads is lost when it closes.
LEMMA ReadAndCloseFading ==
  ASSUME NEW x, Sound(x), NEW s \in Sticks, HasSocket(x, s), NEW n \in 0 .. Len(Unread(x, s))
  PROVE  Fading(x, CloseFd(ReadUnits(x, s, n), s))
<1>. DEFINE l == x.links[Link(s)]
            j == Consume(l, EndOf(s), n)
            y == ReadUnits(x, s, n)
<1>1. /\ x \in Relay /\ Link(s) \in LinkNames /\ EndOf(s) \in Ends /\ l \in Wire /\ HasFd(l, EndOf(s))
      /\ n \in 0 .. Len(l[EndOf(s)].in)
  BY Mates, StickFields DEF Sound, HasSocket, Unread
<1>2. j \in Wire /\ Fades(l, Close(j, EndOf(s)))
  BY <1>1, LinkData, ReadAndCloseFades DEF SameStates
<1>3. y = SetLink(x, Link(s), j)
  BY DEF ReadUnits, SetLink
<1>. HIDE DEF j, y
<1>4. y \in Relay /\ y.links = [x.links EXCEPT ![Link(s)] = j] /\ y.sticks = x.sticks
  BY <1>1, <1>2, <1>3, SetFacts
<1>5. y.links[Link(s)] = j /\ \A n2 \in LinkNames : n2 # Link(s) => y.links[n2] = x.links[n2]
  BY <1>1, <1>4, RelayFields
<1>6. Fades(x.links[Link(s)], Close(y.links[Link(s)], EndOf(s)))
  BY <1>2, <1>5
<1>7. Fading(x, CloseFd(y, s))
  BY <1>1, <1>4, <1>5, <1>6, CloseFdFading
<1>. QED  BY <1>7 DEF y

\* The end of a read loop.
LEMMA ReadOnFading ==
  ASSUME NEW x \in Relay, NEW s \in Sticks
  PROVE  Fading(x, ReadOn(x, s))
<1>. DEFINE k == ErrorRead(x.links[Link(s)], EndOf(s))
<1>1. Link(s) \in LinkNames /\ Fades(x.links[Link(s)], k)
  BY Mates, RelayFields, CallsFade
<1>2. ReadOn(x, s) \in {x, CloseFd(x, s), SetLink(x, Link(s), k)}
  BY DEF ReadOn, SetLink
<1>. HIDE DEF k
<1>. QED  BY <1>1, <1>2, FadingItself, CloseFading, LinkFading

\* The sockets of a host that ends.
LEMMA CloseSocketFades ==
  ASSUME NEW links \in [LinkNames -> Wire], \A l \in LinkNames : Shaped(links[l]), NEW s \in Sticks
  PROVE  \A n \in LinkNames : Fades(links[n], CloseSocketOf(links, s)[n])
<1>. DEFINE e == EndOf(s)
            l == links[Link(s)]
            j == IF e = "far" THEN Abandon(l) ELSE l
            k == Close(j, e)
            y == CloseSocketOf(links, s)
<1>1. Link(s) \in LinkNames /\ e \in Ends /\ l \in Wire /\ Shaped(l)
  BY Mates
<1>2. y = [links EXCEPT ![Link(s)] = k]
  BY <1>1 DEF CloseSocketOf
<1>3. Fades(l, j)
  BY <1>1, CallsFade
<1>. HIDE DEF j
<1>4. Fades(j, k)
  BY <1>1, <1>3, CloseFades DEF Fades
<1>5. Fades(l, k)
  BY <1>3, <1>4, FadesTwice
<1>. HIDE DEF k
<1>6. y[Link(s)] = k /\ \A n \in LinkNames : n # Link(s) => y[n] = links[n]
  BY <1>1, <1>2
<1>. HIDE DEF y
<1>7. \A n \in LinkNames : Fades(links[n], links[n])
  BY CallsFade
<1>. QED  BY <1>5, <1>6, <1>7 DEF y

\* Both of them.
LEMMA CloseSocketsFade ==
  ASSUME NEW links \in [LinkNames -> Wire], \A l \in LinkNames : Shaped(links[l]), NEW h \in Hosts
  PROVE  \A n \in LinkNames : Fades(links[n], CloseSocketsOf(links, h)[n])
<1>1. ASSUME NEW s \in Sticks, NEW t \in Sticks
      PROVE  \A n \in LinkNames : Fades(links[n], CloseSocketOf(CloseSocketOf(links, s), t)[n])
  <2>. DEFINE y == CloseSocketOf(links, s)
  <2>1. /\ y \in [LinkNames -> Wire] /\ \A l \in LinkNames : Shaped(y[l])
        /\ \A n \in LinkNames : Fades(links[n], y[n])
    BY CloseSocketFacts, CloseSocketFades
  <2>. HIDE DEF y
  <2>2. \A n \in LinkNames : Fades(y[n], CloseSocketOf(y, t)[n])
    BY <2>1, CloseSocketFades
  <2>. DEFINE z == CloseSocketOf(y, t)
  <2>. HIDE DEF z
  <2>3. \A n \in LinkNames : Fades(links[n], z[n])
    <3>. TAKE n \in LinkNames
    <3>1. Fades(links[n], y[n]) /\ Fades(y[n], z[n])
      BY <2>1, <2>2 DEF z
    <3>. QED  BY <3>1, FadesTwice
  <2>. QED  BY <2>3 DEF y, z
<1>. QED  BY <1>1, Names2 DEF CloseSocketsOf

\* The end of a host.
LEMMA EndFading ==
  ASSUME NEW x, Sound(x), NEW h \in Hosts
  PROVE  Fading(x, End_(x, h))
<1>. DEFINE links == CloseSocketsOf(x.links, h)
            sticks == [s \in Sticks |-> IF Host(s) = h THEN EndStick(x.sticks[s]) ELSE x.sticks[s]]
            c == Destroy(x.hosts[h])
            hosts == [x.hosts EXCEPT ![h] = c]
            y == End_(x, h)
<1>1. /\ x \in Relay /\ x.links \in [LinkNames -> Wire] /\ \A l \in LinkNames : Shaped(x.links[l])
      /\ y \in Relay
  BY RelayFields, EndSound DEF Sound
<1>2. y = [links |-> links, sticks |-> sticks, hosts |-> hosts]
  <2>1. y = [x EXCEPT !.links = links, !.sticks = sticks, !.hosts[h] = c]
    BY Zenon DEF End_
  <2>. HIDE DEF links, sticks, c, y
  <2>. QED  BY <1>1, <2>1 DEF Relay
<1>3. \A l \in LinkNames : Fades(x.links[l], links[l])
  BY <1>1, CloseSocketsFade
<1>4. \A k \in Stick : /\ EndStick(k).wb = k.wb /\ EndStick(k).parsed = k.parsed
                       /\ EndStick(k).life = "none" <=> k.life = "none"
  BY DEF EndStick, Stick
<1>5. \A s \in Sticks : sticks[s] = IF Host(s) = h THEN EndStick(x.sticks[s]) ELSE x.sticks[s]
  OBVIOUS
<1>. HIDE DEF links, sticks, hosts, c, y
<1>6. y.links = links /\ y.sticks = sticks
  BY <1>2
<1>7. \A s \in Sticks : /\ y.sticks[s].wb = x.sticks[s].wb /\ y.sticks[s].parsed = x.sticks[s].parsed
                        /\ y.sticks[s].life = "none" <=> x.sticks[s].life = "none"
  BY <1>1, <1>4, <1>5, <1>6, RelayFields
<1>8. Fading(x, y)
  BY <1>1, <1>3, <1>6, <1>7, Names2 DEF Fading, Kept
<1>. QED  BY <1>8 DEF y

\* Nothing of the links and of the data of the sticks changes.
LEMMA QuietFading ==
  ASSUME NEW x \in Relay, NEW y \in Relay, y.links = x.links,
         \A s \in Sticks : /\ y.sticks[s].wb = x.sticks[s].wb /\ y.sticks[s].parsed = x.sticks[s].parsed
                           /\ y.sticks[s].life = "none" <=> x.sticks[s].life = "none"
  PROVE  Fading(x, y)
<1>1. \A l \in LinkNames : Fades(x.links[l], y.links[l])
  BY RelayFields, CallsFade
<1>. QED  BY <1>1, Names2 DEF Fading, Kept

\* A right stick learns that it is connected.
LEMMA RightConnectedFading ==
  ASSUME NEW x \in Relay, NEW s \in Sticks
  PROVE  Fading(x, RightConnected(x, s))
<1>. DEFINE m == Mate(s)
            k == [x.sticks[s] EXCEPT !.own = "connected"]
            y == SetStick(x, s, k)
            j == [x.sticks[m] EXCEPT !.mateStatus = "connected"]
            z == SetStick(y, m, j)
<1>1. x.sticks[s] \in Stick /\ x.sticks[m] \in Stick /\ m \in Sticks /\ m # s
  BY Mates, RelayFields
<1>2. k \in Stick /\ k.wb = x.sticks[s].wb /\ k.parsed = x.sticks[s].parsed /\ k.life = x.sticks[s].life
  BY <1>1 DEF Stick
<1>3. j \in Stick /\ j.wb = x.sticks[m].wb /\ j.parsed = x.sticks[m].parsed /\ j.life = x.sticks[m].life
  BY <1>1 DEF Stick
<1>4. [x EXCEPT !.sticks[s].own = "connected"] = y
  BY <1>1 DEF SetStick, Relay
<1>. HIDE DEF k
<1>5. y \in Relay /\ y.links = x.links /\ y.sticks = [x.sticks EXCEPT ![s] = k]
  BY <1>2, SetFacts
<1>. HIDE DEF y
<1>6. y.sticks[s] = k /\ y.sticks[m] = x.sticks[m] /\ \A t \in Sticks : t # s => y.sticks[t] = x.sticks[t]
  BY <1>1, <1>5, RelayFields
<1>7. [y EXCEPT !.sticks[m].mateStatus = "connected"] = z
  BY <1>1, <1>5, <1>6 DEF SetStick, Relay
<1>. HIDE DEF j
<1>8. z \in Relay /\ z.links = x.links /\ z.sticks = [y.sticks EXCEPT ![m] = j]
  BY <1>1, <1>3, <1>5, SetFacts
<1>9. RightConnected(x, s) \in {x, y, z}
  BY <1>4, <1>7 DEF RightConnected
<1>. HIDE DEF z
<1>10. z.sticks[m] = j /\ \A t \in Sticks : t # m => z.sticks[t] = y.sticks[t]
  BY <1>1, <1>5, <1>8, RelayFields
<1>. HIDE DEF m
<1>11. Fading(x, y)
  <2>1. \A t \in Sticks : /\ y.sticks[t].wb = x.sticks[t].wb /\ y.sticks[t].parsed = x.sticks[t].parsed
                          /\ y.sticks[t].life = x.sticks[t].life
    BY <1>2, <1>6
  <2>. QED  BY <1>5, <2>1, QuietFading, ZenonT(30)
<1>12. Fading(x, z)
  <2>1. \A t \in Sticks : /\ z.sticks[t].wb = x.sticks[t].wb /\ z.sticks[t].parsed = x.sticks[t].parsed
                          /\ z.sticks[t].life = x.sticks[t].life
    BY <1>2, <1>3, <1>6, <1>10
  <2>. QED  BY <1>8, <2>1, QuietFading, ZenonT(30)
<1>. QED  BY <1>9, <1>11, <1>12, FadingItself

\* A left stick begins without data.
LEMMA NewLeftFading ==
  ASSUME NEW x, Sound(x), Fresh(x), NEW s \in {"BL", "CL"}, x.links[Link(s)]["far"].state = "queued"
  PROVE  Fading(x, NewLeft(x, s))
<1>. DEFINE l == x.links[Link(s)]
            k == Accept(l)
            x1 == SetLink(x, Link(s), k)
            y == NewLeft(x, s)
<1>1. /\ x \in Relay /\ s \in Sticks /\ Link(s) \in LinkNames /\ EndOf(s) = "far" /\ l \in Wire
      /\ s # "BR" /\ x.sticks[s] \in Stick
  BY Names, RelayFields DEF Sound, Sticks, LinkNames
<1>2. x.sticks[s].life = "none"
  BY <1>1 DEF Sound, Agrees, StateOf
<1>3. x.sticks[s].wb = <<>> /\ x.sticks[s].parsed = FALSE
  BY <1>1, <1>2 DEF Fresh, Kept, Stick
<1>4. Fades(l, k)
  BY <1>1, CallsFade
<1>. HIDE DEF k
<1>5. x1 \in Relay /\ x1.links = [x.links EXCEPT ![Link(s)] = k] /\ x1.sticks = x.sticks
  BY <1>1, <1>4, SetFacts DEF Fades
<1>6. y = SetStick(x1, s, LeftStick)
  BY DEF NewLeft, k
<1>. HIDE DEF x1, y
<1>7. /\ y \in Relay /\ y.links = x1.links /\ y.sticks = [x.sticks EXCEPT ![s] = LeftStick]
  <2>1. s \in Sticks /\ LeftStick \in Stick
    BY <1>1, NewSticks
  <2>. QED  BY <1>5, <1>6, <2>1, SetFacts
<1>8. LeftStick.wb = <<>> /\ LeftStick.parsed = FALSE /\ LeftStick.life = "live"
  BY NewSticks DEF LeftStick, NewStick, NoStick
<1>9. y.sticks[s] = LeftStick /\ \A t \in Sticks : t # s => y.sticks[t] = x.sticks[t]
  BY <1>1, <1>7, RelayFields
<1>10. \A n \in LinkNames : Fades(x.links[n], y.links[n])
  <2>1. y.links[Link(s)] = k /\ \A n \in LinkNames : n # Link(s) => y.links[n] = x.links[n]
    BY <1>1, <1>5, <1>7, RelayFields
  <2>. QED  BY <1>1, <1>4, <2>1, RelayFields, CallsFade
<1>11. \A t \in Sticks : /\ Kept(y, t) = Kept(x, t) /\ y.sticks[t].parsed = x.sticks[t].parsed
                         /\ y.sticks[t].life = "none" => x.sticks[t].life = "none"
  BY <1>2, <1>3, <1>8, <1>9 DEF Kept
<1>12. y.sticks["BR"] = x.sticks["BR"]
  BY <1>1, <1>9, Names2
<1>13. Fading(x, y)
  BY <1>7, <1>10, <1>11, <1>12 DEF Fading
<1>. QED  BY <1>13 DEF y

\* The posted deletions.
LEMMA RunTasksFading ==
  ASSUME Sound(hx), NEW h \in Hosts, RunTasks(h)  PROVE Fading(hx, hx')
<1>. DEFINE T == TasksOf(hx.hosts[h])
            sticks == [s \in Sticks |-> IF s \in T THEN [hx.sticks[s] EXCEPT !.life = "deleted"]
                                                   ELSE hx.sticks[s]]
            c == ExecuteTask(hx.hosts[h])
<1>1. hx \in Relay /\ hx' \in Relay /\ \A s \in Sticks : hx.sticks[s] \in Stick
  BY RelayFields, RunTasksSound DEF Sound
<1>2. hx'.links = hx.links /\ hx'.sticks = sticks
  <2>1. hx' = [hx EXCEPT !.sticks = sticks, !.hosts[h] = c]
    BY Zenon DEF RunTasks, HostDoes
  <2>. HIDE DEF sticks, c
  <2>. QED  BY <1>1, <2>1 DEF Relay
<1>3. \A s \in Sticks : s \in T => hx.sticks[s].life = "destroyed"
  <2>. TAKE s \in Sticks
  <2>1. s \in T => Host(s) = h
    BY DEF Sound, SticksOf
  <2>. QED  BY <2>1 DEF Sound, Agrees
<1>4. \A s \in Sticks : sticks[s] = IF s \in T THEN [hx.sticks[s] EXCEPT !.life = "deleted"] ELSE hx.sticks[s]
  OBVIOUS
<1>. HIDE DEF T, sticks
<1>5. \A s \in Sticks : LET k == [hx.sticks[s] EXCEPT !.life = "deleted"]
                        IN  k.wb = hx.sticks[s].wb /\ k.parsed = hx.sticks[s].parsed /\ k.life = "deleted"
  BY <1>1 DEF Stick
<1>6. \A s \in Sticks : /\ hx'.sticks[s].wb = hx.sticks[s].wb /\ hx'.sticks[s].parsed = hx.sticks[s].parsed
                        /\ hx'.sticks[s].life = "none" <=> hx.sticks[s].life = "none"
  BY <1>2, <1>3, <1>4, <1>5
<1>. QED  BY <1>1, <1>2, <1>6, QuietFading

\* A host is told to stop.
LEMMA SignalHostFading ==
  ASSUME Sound(hx), NEW h \in Hosts, SignalHost(h)  PROVE Fading(hx, hx')
<1>1. hx \in Relay /\ hx' \in Relay
  BY SignalHostSound DEF Sound
<1>2. hx'.links = hx.links /\ hx'.sticks = hx.sticks
  BY <1>1 DEF SignalHost, HostDoes, Relay
<1>. QED  BY <1>1, <1>2, QuietFading

\* A connection is established, refused or broken.
LEMMA NetworkFading ==
  ASSUME Sound(hx), NEW l \in LinkNames, Established(l) \/ Refused(l) \/ Breaks(l)
  PROVE  Fading(hx, hx')
<1>. DEFINE j == hx.links[l]
<1>1. hx \in Relay /\ j \in Wire /\ Shaped(j)
  BY RelayFields DEF Sound
<1>2. CASE Established(l)
  <2>1. j["near"].state = "connecting" /\ hx' = SetLink(hx, l, Establish(j))
    BY <1>2 DEF Established, NetworkDoes, UnderWay, SetLink
  <2>2. j["far"].state = "none"
    BY <1>1, <2>1 DEF Shaped
  <2>3. Fades(j, Establish(j))
    BY <1>1, <2>1, <2>2, CallsFade
  <2>. QED  BY <1>1, <2>1, <2>3, LinkFading
<1>3. CASE Refused(l)
  <2>1. j["near"].state # "none" /\ hx' = SetLink(hx, l, Refuse(j))
    BY <1>3 DEF Refused, NetworkDoes, UnderWay, SetLink
  <2>2. Fades(j, Refuse(j))
    BY <1>1, <2>1, CallsFade
  <2>. QED  BY <1>1, <2>1, <2>2, LinkFading
<1>4. CASE Breaks(l)
  <2>1. hx' = SetLink(hx, l, Break(j))
    BY <1>4 DEF Breaks, NetworkDoes, SetLink
  <2>2. Fades(j, Break(j))
    BY <1>1, CallsFade
  <2>. QED  BY <1>1, <2>1, <2>2, LinkFading
<1>. QED  BY <1>2, <1>3, <1>4

-------------------------------------------------------------------------------
(* Where a stick is on the way.  It sends what it keeps into the slot before  *)
(* its own, and its mate reads what waits in the slot after it.               *)

Up(s) == s \in {"BR", "CR"}
Slot(s) == IF s \in {"BL", "CR"} THEN 1 ELSE 3
RowOf(x, s) == IF Up(s) THEN Upward(x) ELSE Downward(x)
LevelOf(x, s) == IF Up(s) THEN UpLevel(x) ELSE DownLevel(x)
LagOf(x, s) == IF Up(s) THEN Lag(x) ELSE 0

\* The connections stay as they are, and so do the sticks but for their data.
SameMarks(x, y) ==
  /\ \A l \in LinkNames, e \in Ends :
       /\ y.links[l][e].state = x.links[l][e].state
       /\ x.links[l][e].state = "none" \/ (l = "cd" /\ e = "far") =>
            y.links[l][e].reset = x.links[l][e].reset
  /\ \A s \in Sticks : y.sticks[s].life = x.sticks[s].life /\ y.sticks[s].parsed = x.sticks[s].parsed

\* Levels, lag and Early depend on the states and marks only.
LEMMA SameMarksFacts ==
  ASSUME NEW x, NEW y, SameMarks(x, y)
  PROVE  /\ UpLevel(y) = UpLevel(x) /\ DownLevel(y) = DownLevel(x) /\ Lag(y) = Lag(x)
         /\ Early(x) => Early(y)
<1>1. \A l \in LinkNames, e \in Ends : Stands(y, l, e) = Stands(x, l, e)
  BY DEF SameMarks, Stands
<1>2. UpLevel(y) = UpLevel(x)
  BY <1>1, Names2 DEF UpLevel
<1>3. DownLevel(y) = DownLevel(x)
  <2>1. y.links["cd"]["far"].reset = x.links["cd"]["far"].reset
    BY Names2 DEF SameMarks
  <2>. QED  BY <1>1, <2>1, Names2 DEF DownLevel
<1>4. Lag(y) = Lag(x) /\ (Early(x) => Early(y))
  BY Names2 DEF SameMarks, Lag, Early
<1>. QED  BY <1>2, <1>3, <1>4

\* So does Fresh, when what is not there stays empty.
LEMMA SameMarksFresh ==
  ASSUME NEW x, NEW y, SameMarks(x, y), Fresh(x),
         \A s \in Sticks : x.sticks[s].life = "none" => Kept(y, s) = Kept(x, s),
         \A l \in LinkNames, e \in Ends : x.links[l][e].state = "none" => Waiting(y, l, e) = Waiting(x, l, e)
  PROVE  Fresh(y)
<1>1. \A s \in Sticks : y.sticks[s].life = "none" => Kept(y, s) = <<>> /\ ~ y.sticks[s].parsed
  BY DEF SameMarks, Fresh
<1>2. \A l \in LinkNames : Joined(y.links[l])
  BY Names2 DEF SameMarks, Fresh, Joined
<1>3. \A l \in LinkNames, e \in Ends :
        y.links[l][e].state = "none" => Waiting(y, l, e) = <<>> /\ ~ y.links[l][e].reset
  BY DEF SameMarks, Fresh
<1>4. y.links["ab"]["far"].state # "none"
  BY Names2 DEF SameMarks, Fresh
<1>. QED  BY <1>1, <1>2, <1>3, <1>4 DEF Fresh

\* Where the buffers of a stick are in the rows.
LEMMA SlotCells ==
  ASSUME NEW x, NEW s \in Sticks
  PROVE  /\ Slot(s) \in Places /\ Slot(s) + 1 \in Places /\ Slot(s) + 2 \in Places /\ Slot(s) \in {1, 3}
         /\ RowOf(x, s)[Slot(s)] = Waiting(x, Link(s), Peer(EndOf(s)))
         /\ RowOf(x, s)[Slot(s) + 1] = Kept(x, s)
         /\ RowOf(x, s)[Slot(s) + 2] = Waiting(x, Link(Mate(s)), EndOf(Mate(s)))
         /\ Up(Mate(s)) <=> ~ Up(s)
<1>1. Peer("near") = "far" /\ Peer("far") = "near"
  BY DEF Peer
<1>2. \A a, b, c, d, e : LET q == Row(a, b, c, d, e)
                         IN  q[1] = a /\ q[2] = b /\ q[3] = c /\ q[4] = d /\ q[5] = e
  BY RowCells
<1>3. 1 \in Places /\ 2 \in Places /\ 3 \in Places /\ 4 \in Places /\ 5 \in Places
  BY RowCells
<1>4. CASE s = "BL"
  <2>1. Slot(s) = 1 /\ RowOf(x, s) = Downward(x) /\ Mate(s) = "BR" /\ Up(Mate(s)) /\ ~ Up(s)
    BY <1>4, Names DEF Slot, RowOf, Up
  <2>. QED  BY <1>1, <1>2, <1>3, <1>4, <2>1, Names DEF Downward
<1>5. CASE s = "BR"
  <2>1. Slot(s) = 3 /\ RowOf(x, s) = Upward(x) /\ Mate(s) = "BL" /\ Up(s) /\ ~ Up(Mate(s))
    BY <1>5, Names DEF Slot, RowOf, Up
  <2>. QED  BY <1>1, <1>2, <1>3, <1>5, <2>1, Names DEF Upward
<1>6. CASE s = "CL"
  <2>1. Slot(s) = 3 /\ RowOf(x, s) = Downward(x) /\ Mate(s) = "CR" /\ Up(Mate(s)) /\ ~ Up(s)
    BY <1>6, Names DEF Slot, RowOf, Up
  <2>. QED  BY <1>1, <1>2, <1>3, <1>6, <2>1, Names DEF Downward
<1>7. CASE s = "CR"
  <2>1. Slot(s) = 1 /\ RowOf(x, s) = Upward(x) /\ Mate(s) = "CL" /\ Up(s) /\ ~ Up(Mate(s))
    BY <1>7, Names DEF Slot, RowOf, Up
  <2>. QED  BY <1>1, <1>2, <1>3, <1>7, <2>1, Names DEF Upward
<1>. QED  BY <1>4, <1>5, <1>6, <1>7 DEF Sticks

\* How far the rows hold at the places of a stick.
LEMMA SlotLevels ==
  ASSUME NEW x, NEW s \in Sticks
  PROVE  /\ Stands(x, Link(s), EndOf(s)) /\ Stands(x, Link(s), Peer(EndOf(s))) => LevelOf(x, s) # Slot(s) - 1
         /\ ~ Stands(x, Link(s), Peer(EndOf(s))) => LevelOf(x, s) <= Slot(s) - 1
         /\ Stands(x, Link(Mate(s)), EndOf(Mate(s))) => LevelOf(x, s) # Slot(s)
<1>1. Peer("near") = "far" /\ Peer("far") = "near"
  BY DEF Peer
<1>4. CASE s = "BL"
  BY <1>1, <1>4, Names DEF Slot, LevelOf, Up, DownLevel, Level
<1>5. CASE s = "BR"
  BY <1>1, <1>5, Names DEF Slot, LevelOf, Up, UpLevel, Level
<1>6. CASE s = "CL"
  BY <1>1, <1>6, Names DEF Slot, LevelOf, Up, DownLevel, Level
<1>7. CASE s = "CR"
  BY <1>1, <1>7, Names DEF Slot, LevelOf, Up, UpLevel, Level
<1>. QED  BY <1>4, <1>5, <1>6, <1>7 DEF Sticks

\* Only what s keeps differs, and what waits at the other end of one of the connections of its host.
Local(x, y, l, e, s) ==
  /\ \A n \in LinkNames, f \in Ends : n # l \/ f # e => Waiting(y, n, f) = Waiting(x, n, f)
  /\ \A t \in Sticks : t # s => Kept(y, t) = Kept(x, t)

\* A flush of a stick changes two places of one row only: its own and the queue it sends to.
LEMMA FlushCells ==
  ASSUME NEW x, NEW y, NEW s \in Sticks, Local(x, y, Link(s), Peer(EndOf(s)), s)
  PROVE  /\ RowOf(y, Mate(s)) = RowOf(x, Mate(s))
         /\ \A k \in Places : k # Slot(s) /\ k # Slot(s) + 1 => RowOf(y, s)[k] = RowOf(x, s)[k]
<1>1. Peer("near") = "far" /\ Peer("far") = "near"
  BY DEF Peer
<1>2. \A a, b, c, d, e : LET q == Row(a, b, c, d, e)
                         IN  q[1] = a /\ q[2] = b /\ q[3] = c /\ q[4] = d /\ q[5] = e
  BY RowCells
<1>3. \A k \in Places : k = 1 \/ k = 2 \/ k = 3 \/ k = 4 \/ k = 5
  BY RowCells
<1>4. CASE s = "BL"
  <2>1. /\ Slot(s) = 1 /\ RowOf(x, s) = Downward(x) /\ RowOf(x, Mate(s)) = Upward(x)
        /\ RowOf(y, s) = Downward(y) /\ RowOf(y, Mate(s)) = Upward(y)
        /\ Link(s) = "ab" /\ EndOf(s) = "far"
    BY <1>4, Names DEF Slot, RowOf, Up
  <2>2. Upward(y) = Upward(x)
    BY <1>1, <1>4, <2>1, Names2 DEF Local, Upward
  <2>3. \A k \in {3, 4, 5} : Downward(y)[k] = Downward(x)[k]
    BY <1>1, <1>2, <1>4, <2>1, Names2 DEF Local, Downward
  <2>. QED  BY <1>3, <2>1, <2>2, <2>3
<1>5. CASE s = "BR"
  <2>1. /\ Slot(s) = 3 /\ RowOf(x, s) = Upward(x) /\ RowOf(x, Mate(s)) = Downward(x)
        /\ RowOf(y, s) = Upward(y) /\ RowOf(y, Mate(s)) = Downward(y)
        /\ Link(s) = "bc" /\ EndOf(s) = "near"
    BY <1>5, Names DEF Slot, RowOf, Up
  <2>2. Downward(y) = Downward(x)
    BY <1>1, <1>5, <2>1, Names2 DEF Local, Downward
  <2>3. \A k \in {1, 2, 5} : Upward(y)[k] = Upward(x)[k]
    BY <1>1, <1>2, <1>5, <2>1, Names2 DEF Local, Upward
  <2>. QED  BY <1>3, <2>1, <2>2, <2>3
<1>6. CASE s = "CL"
  <2>1. /\ Slot(s) = 3 /\ RowOf(x, s) = Downward(x) /\ RowOf(x, Mate(s)) = Upward(x)
        /\ RowOf(y, s) = Downward(y) /\ RowOf(y, Mate(s)) = Upward(y)
        /\ Link(s) = "bc" /\ EndOf(s) = "far"
    BY <1>6, Names DEF Slot, RowOf, Up
  <2>2. Upward(y) = Upward(x)
    BY <1>1, <1>6, <2>1, Names2 DEF Local, Upward
  <2>3. \A k \in {1, 2, 5} : Downward(y)[k] = Downward(x)[k]
    BY <1>1, <1>2, <1>6, <2>1, Names2 DEF Local, Downward
  <2>. QED  BY <1>3, <2>1, <2>2, <2>3
<1>7. CASE s = "CR"
  <2>1. /\ Slot(s) = 1 /\ RowOf(x, s) = Upward(x) /\ RowOf(x, Mate(s)) = Downward(x)
        /\ RowOf(y, s) = Upward(y) /\ RowOf(y, Mate(s)) = Downward(y)
        /\ Link(s) = "cd" /\ EndOf(s) = "near"
    BY <1>7, Names DEF Slot, RowOf, Up
  <2>2. Downward(y) = Downward(x)
    BY <1>1, <1>7, <2>1, Names2 DEF Local, Downward
  <2>3. \A k \in {3, 4, 5} : Upward(y)[k] = Upward(x)[k]
    BY <1>1, <1>2, <1>7, <2>1, Names2 DEF Local, Upward
  <2>. QED  BY <1>3, <2>1, <2>2, <2>3
<1>. QED  BY <1>4, <1>5, <1>6, <1>7 DEF Sticks

\* A read for a stick changes two places of one row only: its own and the queue its mate reads.
LEMMA ReadCells ==
  ASSUME NEW x, NEW y, NEW s \in Sticks, Local(x, y, Link(Mate(s)), EndOf(Mate(s)), s)
  PROVE  /\ RowOf(y, Mate(s)) = RowOf(x, Mate(s))
         /\ \A k \in Places : k # Slot(s) + 1 /\ k # Slot(s) + 2 => RowOf(y, s)[k] = RowOf(x, s)[k]
<1>2. \A a, b, c, d, e : LET q == Row(a, b, c, d, e)
                         IN  q[1] = a /\ q[2] = b /\ q[3] = c /\ q[4] = d /\ q[5] = e
  BY RowCells
<1>3. \A k \in Places : k = 1 \/ k = 2 \/ k = 3 \/ k = 4 \/ k = 5
  BY RowCells
<1>4. CASE s = "BL"
  <2>1. /\ Slot(s) = 1 /\ RowOf(x, s) = Downward(x) /\ RowOf(x, Mate(s)) = Upward(x)
        /\ RowOf(y, s) = Downward(y) /\ RowOf(y, Mate(s)) = Upward(y)
        /\ Link(Mate(s)) = "bc" /\ EndOf(Mate(s)) = "near"
    BY <1>4, Names DEF Slot, RowOf, Up
  <2>2. Upward(y) = Upward(x)
    BY <1>4, <2>1, Names2 DEF Local, Upward
  <2>3. \A k \in {1, 4, 5} : Downward(y)[k] = Downward(x)[k]
    BY <1>2, <1>4, <2>1, Names2 DEF Local, Downward
  <2>. QED  BY <1>3, <2>1, <2>2, <2>3
<1>5. CASE s = "BR"
  <2>1. /\ Slot(s) = 3 /\ RowOf(x, s) = Upward(x) /\ RowOf(x, Mate(s)) = Downward(x)
        /\ RowOf(y, s) = Upward(y) /\ RowOf(y, Mate(s)) = Downward(y)
        /\ Link(Mate(s)) = "ab" /\ EndOf(Mate(s)) = "far"
    BY <1>5, Names DEF Slot, RowOf, Up
  <2>2. Downward(y) = Downward(x)
    BY <1>5, <2>1, Names2 DEF Local, Downward
  <2>3. \A k \in {1, 2, 3} : Upward(y)[k] = Upward(x)[k]
    BY <1>2, <1>5, <2>1, Names2 DEF Local, Upward
  <2>. QED  BY <1>3, <2>1, <2>2, <2>3
<1>6. CASE s = "CL"
  <2>1. /\ Slot(s) = 3 /\ RowOf(x, s) = Downward(x) /\ RowOf(x, Mate(s)) = Upward(x)
        /\ RowOf(y, s) = Downward(y) /\ RowOf(y, Mate(s)) = Upward(y)
        /\ Link(Mate(s)) = "cd" /\ EndOf(Mate(s)) = "near"
    BY <1>6, Names DEF Slot, RowOf, Up
  <2>2. Upward(y) = Upward(x)
    BY <1>6, <2>1, Names2 DEF Local, Upward
  <2>3. \A k \in {1, 2, 3} : Downward(y)[k] = Downward(x)[k]
    BY <1>2, <1>6, <2>1, Names2 DEF Local, Downward
  <2>. QED  BY <1>3, <2>1, <2>2, <2>3
<1>7. CASE s = "CR"
  <2>1. /\ Slot(s) = 1 /\ RowOf(x, s) = Upward(x) /\ RowOf(x, Mate(s)) = Downward(x)
        /\ RowOf(y, s) = Upward(y) /\ RowOf(y, Mate(s)) = Downward(y)
        /\ Link(Mate(s)) = "bc" /\ EndOf(Mate(s)) = "far"
    BY <1>7, Names DEF Slot, RowOf, Up
  <2>2. Downward(y) = Downward(x)
    BY <1>7, <2>1, Names2 DEF Local, Downward
  <2>3. \A k \in {1, 4, 5} : Upward(y)[k] = Upward(x)[k]
    BY <1>2, <1>7, <2>1, Names2 DEF Local, Upward
  <2>. QED  BY <1>3, <2>1, <2>2, <2>3
<1>. QED  BY <1>4, <1>5, <1>6, <1>7 DEF Sticks

-------------------------------------------------------------------------------
(* Data that go on. *)

FlowOf(x, s) ==
  IF Up(s) THEN Flow(Len(echoed), Upward(x), Lag(x), UpLevel(x), client.sent)
           ELSE Flow(Len(client.got), Downward(x), 0, DownLevel(x), Len(echoed))
StartOf(s) == IF Up(s) THEN Len(echoed) ELSE Len(client.got)
TotalOf(s) == IF Up(s) THEN client.sent ELSE Len(echoed)

\* Both rows together.
LEMMA BothFlows ==
  ASSUME NEW x, NEW s \in Sticks
  PROVE  /\ Flows(x) <=> Fresh(x) /\ Early(x) /\ FlowOf(x, s) /\ FlowOf(x, Mate(s))
         /\ FlowOf(x, s) <=> Flow(StartOf(s), RowOf(x, s), LagOf(x, s), LevelOf(x, s), TotalOf(s))
<1>1. Up(Mate(s)) <=> ~ Up(s)
  BY SlotCells
<1>2. CASE Up(s)
  BY <1>1, <1>2 DEF Flows, FlowOf, StartOf, TotalOf, RowOf, LagOf, LevelOf
<1>3. CASE ~ Up(s)
  BY <1>1, <1>3 DEF Flows, FlowOf, StartOf, TotalOf, RowOf, LagOf, LevelOf
<1>. QED  BY <1>2, <1>3

\* The types of both rows.
LEMMA RowTypes ==
  ASSUME Counted, NEW x \in Relay, NEW s \in Sticks
  PROVE  /\ StartOf(s) \in Nat /\ TotalOf(s) \in Nat /\ RowOf(x, s) \in Rows
         /\ LagOf(x, s) \in Nat /\ LevelOf(x, s) \in Nat /\ LevelOf(x, s) <= 5
<1>1. /\ Upward(x) \in Rows /\ Downward(x) \in Rows
      /\ UpLevel(x) \in Nat /\ UpLevel(x) <= 5 /\ DownLevel(x) \in Nat /\ DownLevel(x) <= 5
      /\ Lag(x) \in Nat
  BY RelayCells
<1>2. Len(echoed) \in Nat /\ Len(client.got) \in Nat /\ client.sent \in Nat
  BY DEF Counted, Client
<1>. QED  BY <1>1, <1>2 DEF StartOf, TotalOf, RowOf, LagOf, LevelOf

\* The direction that does not move.
LEMMA OtherStays ==
  ASSUME NEW x, NEW y, NEW s \in Sticks, SameMarks(x, y), RowOf(y, s) = RowOf(x, s), FlowOf(x, s)
  PROVE  FlowOf(y, s)
<1>1. UpLevel(y) = UpLevel(x) /\ DownLevel(y) = DownLevel(x) /\ Lag(y) = Lag(x)
  BY SameMarksFacts
<1>. QED  BY <1>1 DEF FlowOf, RowOf

\* A part moves on in one row while the other stays.
LEMMA StickMoves ==
  ASSUME Counted, NEW x \in Relay, NEW y \in Relay, Flows(x), Fresh(y), SameMarks(x, y), NEW s \in Sticks,
         RowOf(y, Mate(s)) = RowOf(x, Mate(s)),
         NEW m \in Places, m + 1 \in Places, LevelOf(x, s) # m - 1, m = 2 => LagOf(x, s) = 0,
         NEW j \in 0 .. Len(RowOf(x, s)[m + 1]), Moves(RowOf(x, s), RowOf(y, s), m, j)
  PROVE  Flows(y)
<1>1. Mate(s) \in Sticks
  BY Mates
<1>2. FlowOf(x, s) /\ FlowOf(x, Mate(s)) /\ Early(x)
  BY BothFlows
<1>3. FlowOf(y, Mate(s))
  BY <1>1, <1>2, OtherStays
<1>4. LevelOf(y, s) = LevelOf(x, s) /\ LagOf(y, s) = LagOf(x, s) /\ Early(y)
  BY <1>2, SameMarksFacts DEF LevelOf, LagOf
<1>5. Flow(StartOf(s), RowOf(x, s), LagOf(x, s), LevelOf(x, s), TotalOf(s))
  BY <1>2, BothFlows
<1>6. /\ StartOf(s) \in Nat /\ TotalOf(s) \in Nat /\ RowOf(x, s) \in Rows
      /\ LagOf(x, s) \in Nat /\ LevelOf(x, s) \in Nat
  BY RowTypes
<1>7. Flow(StartOf(s), RowOf(y, s), LagOf(x, s), LevelOf(x, s), TotalOf(s))
  BY <1>5, <1>6, FlowMoves
<1>8. FlowOf(y, s)
  BY <1>4, <1>7, BothFlows
<1>. QED  BY <1>3, <1>4, <1>8, BothFlows

\* What a stick keeps does not matter any more once it cannot be sent.
LEMMA StickDrops ==
  ASSUME Counted, NEW x \in Relay, NEW y \in Relay, Flows(x), Fresh(y), SameMarks(x, y), NEW s \in Sticks,
         ~ Stands(x, Link(s), Peer(EndOf(s))),
         \A l \in LinkNames, e \in Ends : Waiting(y, l, e) = Waiting(x, l, e),
         \A t \in Sticks : t # s => Kept(y, t) = Kept(x, t)
  PROVE  Flows(y)
<1>1. Mate(s) \in Sticks /\ Link(s) \in LinkNames /\ EndOf(s) \in Ends /\ Peer(EndOf(s)) \in Ends
  BY Mates DEF Peer, Ends
<1>2. FlowOf(x, s) /\ FlowOf(x, Mate(s)) /\ Early(x)
  BY BothFlows
<1>3. /\ RowOf(y, Mate(s)) = RowOf(x, Mate(s))
      /\ \A k \in Places : k # Slot(s) + 1 => RowOf(y, s)[k] = RowOf(x, s)[k]
  <2>1. /\ RowOf(y, Mate(s)) = RowOf(x, Mate(s))
        /\ \A k \in Places : k # Slot(s) /\ k # Slot(s) + 1 => RowOf(y, s)[k] = RowOf(x, s)[k]
    BY FlushCells DEF Local
  <2>2. RowOf(y, s)[Slot(s)] = RowOf(x, s)[Slot(s)]
    BY <1>1, SlotCells
  <2>. QED  BY <2>1, <2>2
<1>4. FlowOf(y, Mate(s))
  BY <1>1, <1>2, <1>3, OtherStays
<1>5. LevelOf(y, s) = LevelOf(x, s) /\ LagOf(y, s) = LagOf(x, s) /\ Early(y)
  BY <1>2, SameMarksFacts DEF LevelOf, LagOf
<1>6. /\ StartOf(s) \in Nat /\ TotalOf(s) \in Nat /\ RowOf(x, s) \in Rows
      /\ LagOf(x, s) \in Nat /\ LevelOf(x, s) \in Nat /\ LevelOf(x, s) <= 5
  BY RowTypes
<1>7. LevelOf(x, s) <= Slot(s) - 1 /\ Slot(s) \in {1, 3} /\ 1 \in Places
  BY SlotLevels, SlotCells, RowCells
<1>. DEFINE w == LevelOf(x, s)
<1>. HIDE DEF w
<1>8. Follows(RowOf(x, s), RowOf(y, s), w)
  <2>1. w \in Nat /\ w <= Slot(s) - 1 /\ Slot(s) \in Nat /\ 1 # Slot(s) + 1
    BY <1>6, <1>7 DEF w
  <2>2. ASSUME NEW k \in Places, k <= w + 1
        PROVE  RowOf(y, s)[k] = RowOf(x, s)[k]
    <3>1. k \in Nat
      BY PlacesAre
    <3>2. k # Slot(s) + 1
      BY <2>1, <2>2, <3>1
    <3>. QED  BY <1>3, <3>2
  <2>3. RowOf(y, s)[1] = RowOf(x, s)[1]
    BY <1>3, <1>7, <2>1
  <2>. QED  BY <2>2, <2>3 DEF Follows
<1>9. Flow(StartOf(s), RowOf(x, s), LagOf(x, s), w, TotalOf(s))
  BY <1>2, BothFlows DEF w
<1>10. Flow(StartOf(s), RowOf(y, s), LagOf(x, s), w, TotalOf(s))
  <2>1. w \in Nat /\ w <= w /\ w # 5 /\ TotalOf(s) <= TotalOf(s)
    BY <1>6, <1>7 DEF w
  <2>. QED  BY <1>6, <1>8, <1>9, <2>1, FlowBreaks
<1>11. FlowOf(y, s)
  BY <1>5, <1>10, BothFlows DEF w
<1>. QED  BY <1>4, <1>5, <1>11, BothFlows

\* All of a queue, and what is left of it then.
LEMMA WholeQueue ==
  ASSUME NEW u \in Seq(Nat)
  PROVE  /\ SubSeq(u, 1, Len(u)) = u /\ SubSeq(u, Len(u) + 1, Len(u)) = <<>>
         /\ u # <<>> => Len(u) > 0
<1>1. SubSeq(u, 1, Len(u)) = u
  <2>1. Len(SubSeq(u, 1, Len(u))) = Len(u) /\ SubSeq(u, 1, Len(u)) \in Seq(Nat) /\ Len(u) \in Nat
    BY Split
  <2>2. \A i \in 1 .. Len(u) : SubSeq(u, 1, Len(u))[i] = u[i]
    OBVIOUS
  <2>. DEFINE v == SubSeq(u, 1, Len(u))
  <2>. HIDE DEF v
  <2>3. v = u
    BY <2>1, <2>2, SeqEqual DEF v
  <2>. QED  BY <2>3 DEF v
<1>2. SubSeq(u, Len(u) + 1, Len(u)) = <<>>
  <2>1. Len(SubSeq(u, Len(u) + 1, Len(u))) = 0 /\ SubSeq(u, Len(u) + 1, Len(u)) \in Seq(Nat)
    BY Split
  <2>. QED  BY <2>1, EmptySeq
<1>3. u # <<>> => Len(u) > 0
  BY EmptySeq
<1>. QED  BY <1>1, <1>2, <1>3

\* What a call of send does to both ends.
LEMMA SendDoes ==
  ASSUME NEW l \in Wire, NEW e \in Ends, NEW data \in Seq(Nat)
  PROVE  LET p == Peer(e)
             n == Taken(l, e, Len(data))
             k == Send(l, e, data)
         IN  /\ n \in 0 .. Len(data) /\ k \in Wire
             /\ n = 0 => k = ErrorRead(l, e)
             /\ n # 0 => l[e].state = "open" /\ ~ l[e].reset
             /\ n # 0 /\ l[p].state = "closed" =>
                  k[p] = l[p] /\ k[e].in = l[e].in /\ k[e].state = l[e].state
             /\ n # 0 /\ l[p].state # "closed" =>
                  /\ k[e] = l[e] /\ k[p].in = l[p].in \o SubSeq(data, 1, n)
                  /\ k[p].state = l[p].state /\ k[p].reset = l[p].reset
<1>. DEFINE p == Peer(e)
            n == Taken(l, e, Len(data))
            k == Send(l, e, data)
            u == l[p].in \o SubSeq(data, 1, n)
<1>1. /\ p \in Ends /\ p # e /\ Peer(p) = e /\ l[e] \in WireEnd /\ l[p] \in WireEnd /\ Len(data) \in Nat
      /\ l[p].in \in Seq(Nat)
  BY WireFields
<1>2. n \in 0 .. Len(data) /\ k \in Wire
  BY <1>1, LinkData, SendKeepsStates DEF SameStates
<1>3. n # 0 => l[e].state = "open" /\ ~ l[e].reset
  BY DEF Taken
<1>4. k = IF n = 0 THEN ErrorRead(l, e)
          ELSE IF l[p].state = "closed" THEN [l EXCEPT ![e] = ResetEnd(l[e])]
          ELSE [l EXCEPT ![p] = [l[p] EXCEPT !.in = u]]
  BY DEF Send, ErrorRead
<1>. HIDE DEF n, k, u
<1>5. ResetEnd(l[e]).in = l[e].in /\ ResetEnd(l[e]).state = l[e].state
  BY <1>1 DEF ResetEnd, WireEnd, End
<1>6. LET i == [l[p] EXCEPT !.in = u] IN i.in = u /\ i.state = l[p].state /\ i.reset = l[p].reset
  BY <1>1 DEF WireEnd, End
<1>7. CASE n # 0 /\ l[p].state = "closed"
  <2>1. k[e] = ResetEnd(l[e]) /\ k[p] = l[p]
    BY <1>1, <1>4, <1>7 DEF Wire
  <2>. QED  BY <1>2, <1>3, <1>5, <1>7, <2>1 DEF n, k
<1>8. CASE n # 0 /\ l[p].state # "closed"
  <2>. DEFINE i == [l[p] EXCEPT !.in = u]
  <2>. HIDE DEF i
  <2>1. k[p] = i /\ k[e] = l[e]
    BY <1>1, <1>4, <1>8 DEF Wire, i
  <2>. QED  BY <1>2, <1>3, <1>6, <1>8, <2>1 DEF n, k, i, u
<1>. QED  BY <1>2, <1>4, <1>7, <1>8 DEF n, k

\* FlushBuffer keeps the rows.
LEMMA FlushFlows ==
  ASSUME Counted, NEW x, Sound(x), Flows(x), NEW s \in Sticks
  PROVE  Flows(FlushBuffer(x, s))
<1>. DEFINE e == EndOf(s)
            p == Peer(e)
            wb == x.sticks[s].wb
            link == x.links[Link(s)]
            n == Taken(link, e, Len(wb))
            l == Send(link, e, wb)
            u == SubSeq(wb, n + 1, Len(wb))
            k == [x.sticks[s] EXCEPT !.wb = u]
            x1 == SetLink(x, Link(s), l)
            y == SetStick(x1, s, k)
<1>1. /\ x \in Relay /\ Link(s) \in LinkNames /\ e \in Ends /\ Host(s) \in Hosts /\ Fresh(x) /\ Shaped(link)
      /\ x.sticks[s] \in Stick /\ wb \in Seq(Nat) /\ link \in Wire /\ Len(wb) \in Nat
      /\ p \in Ends /\ p # e /\ ~ (Link(s) = "cd" /\ e = "far") /\ \A f \in Ends : f = e \/ f = p
  BY Mates, StickFields, WireFields, TheOutside DEF Sound, Flows, Outside, Ends, Peer
<1>2. [x EXCEPT !.links[Link(s)] = Send(@, EndOf(s), wb), !.sticks[s].wb = SubSeq(@, n + 1, Len(@))] = y
  BY <1>1 DEF SetLink, SetStick, Relay
<1>3. /\ n \in 0 .. Len(wb) /\ l \in Wire
      /\ n = 0 => l = ErrorRead(link, e)
      /\ n # 0 => link[e].state = "open" /\ ~ link[e].reset
      /\ n # 0 /\ link[p].state = "closed" =>
           l[p] = link[p] /\ l[e].in = link[e].in /\ l[e].state = link[e].state
      /\ n # 0 /\ link[p].state # "closed" =>
           /\ l[e] = link[e] /\ l[p].in = link[p].in \o SubSeq(wb, 1, n)
           /\ l[p].state = link[p].state /\ l[p].reset = link[p].reset
  BY <1>1, SendDoes
<1>. HIDE DEF l, n
<1>4. u \in Seq(Nat)
  BY <1>1, <1>3, Split
<1>5. n = 0 => u = wb
  BY <1>1, WholeQueue
<1>. HIDE DEF u
<1>6. k \in Stick /\ k.wb = u /\ k.parsed = x.sticks[s].parsed /\ k.life = x.sticks[s].life
  BY <1>1, <1>4 DEF Stick
<1>. HIDE DEF k
<1>7. x1 \in Relay /\ x1.links = [x.links EXCEPT ![Link(s)] = l] /\ x1.sticks = x.sticks
  BY <1>1, <1>3, SetFacts
<1>. HIDE DEF x1
<1>8. y \in Relay /\ y.links = x1.links /\ y.sticks = [x.sticks EXCEPT ![s] = k]
  BY <1>6, <1>7, SetFacts
<1>9. /\ y.links = [x.links EXCEPT ![Link(s)] = l]
      /\ y.links[Link(s)] = l /\ \A m \in LinkNames : m # Link(s) => y.links[m] = x.links[m]
      /\ y.sticks[s] = k /\ \A t \in Sticks : t # s => y.sticks[t] = x.sticks[t]
  BY <1>1, <1>7, <1>8, RelayFields
<1>10. \/ FlushBuffer(x, s) = x \/ FlushBuffer(x, s) = End_(x, Host(s))
       \/ FlushBuffer(x, s) = y
  BY <1>2 DEF FlushBuffer, n
<1>. HIDE DEF y
<1>11. Flows(End_(x, Host(s)))
  BY <1>1, EndFading, FadingFlows
<1>12. CASE n = 0
  <2>1. Fades(link, l)
    BY <1>1, <1>3, <1>12, CallsFade
  <2>2. \A t \in Sticks : /\ y.sticks[t].wb = x.sticks[t].wb /\ y.sticks[t].parsed = x.sticks[t].parsed
                          /\ y.sticks[t].life = "none" <=> x.sticks[t].life = "none"
    BY <1>5, <1>6, <1>9, <1>12
  <2>3. Fading(x, y)
    BY <1>1, <1>8, <1>9, <2>1, <2>2, OneFading
  <2>. QED  BY <1>1, <1>10, <1>11, <2>3, FadingFlows
<1>13. CASE n # 0
  <2>1. SameMarks(x, y)
    <3>1. \A f \in Ends : /\ l[f].state = link[f].state
                          /\ link[f].state = "none" \/ f = p => l[f].reset = link[f].reset
      BY <1>1, <1>3, <1>13
    <3>2. ASSUME NEW m \in LinkNames, NEW f \in Ends
          PROVE  /\ y.links[m][f].state = x.links[m][f].state
                 /\ x.links[m][f].state = "none" \/ (m = "cd" /\ f = "far") =>
                      y.links[m][f].reset = x.links[m][f].reset
      BY <1>1, <1>9, <3>1
    <3>3. \A t \in Sticks : y.sticks[t].life = x.sticks[t].life /\ y.sticks[t].parsed = x.sticks[t].parsed
      BY <1>6, <1>9
    <3>. QED  BY <3>2, <3>3 DEF SameMarks
  <2>2. x.sticks[s].life # "none"
    <3>1. link[e].state = "open"
      BY <1>3, <1>13
    <3>. QED  BY <3>1 DEF Sound, Agrees, StateOf
  <2>3. \A t \in Sticks : t # s => Kept(y, t) = Kept(x, t)
    BY <1>9 DEF Kept
  <2>4. \A m \in LinkNames : m # Link(s) => \A f \in Ends : Waiting(y, m, f) = Waiting(x, m, f)
    BY <1>9 DEF Waiting
  <2>5. CASE link[p].state = "closed"
    <3>1. \A m \in LinkNames, f \in Ends : Waiting(y, m, f) = Waiting(x, m, f)
      <4>1. \A f \in Ends : l[f].in = link[f].in
        BY <1>1, <1>3, <1>13, <2>5
      <4>. QED  BY <1>9, <2>4, <4>1 DEF Waiting
    <3>2. Fresh(y)
      BY <1>1, <2>1, <2>2, <2>3, <3>1, SameMarksFresh
    <3>3. ~ Stands(x, Link(s), p)
      BY <2>5 DEF Stands
    <3>4. Flows(y)
      BY <1>1, <1>8, <2>1, <2>3, <3>1, <3>2, <3>3, StickDrops
    <3>. QED  BY <1>10, <1>11, <3>4
  <2>6. CASE link[p].state # "closed"
    <3>1. link[p].state # "none"
      <4>1. Joined(link) /\ link[e].state = "open"
        BY <1>1, <1>3, <1>13 DEF Fresh
      <4>2. CASE e = "near"
        BY <4>1, <4>2 DEF Joined, Peer
      <4>3. CASE e = "far"
        BY <1>1, <4>1, <4>3 DEF Shaped, Peer
      <4>. QED  BY <1>1, <4>2, <4>3 DEF Ends
    <3>2. /\ Waiting(y, Link(s), e) = Waiting(x, Link(s), e)
          /\ Waiting(y, Link(s), p) = Waiting(x, Link(s), p) \o SubSeq(Kept(x, s), 1, n)
          /\ Kept(y, s) = SubSeq(Kept(x, s), n + 1, Len(Kept(x, s)))
      BY <1>3, <1>6, <1>9, <1>13, <2>6 DEF Waiting, Kept, u
    <3>3. Local(x, y, Link(s), p, s)
      BY <1>1, <2>3, <2>4, <3>2 DEF Local
    <3>4. Fresh(y)
      <4>1. \A t \in Sticks : x.sticks[t].life = "none" => Kept(y, t) = Kept(x, t)
        BY <2>2, <2>3
      <4>2. ASSUME NEW m \in LinkNames, NEW f \in Ends, x.links[m][f].state = "none"
            PROVE  Waiting(y, m, f) = Waiting(x, m, f)
        BY <1>1, <2>4, <3>1, <3>2, <4>2
      <4>. QED  BY <1>1, <2>1, <4>1, <4>2, SameMarksFresh
    <3>. DEFINE m == Slot(s)
                q == RowOf(x, s)
                r == RowOf(y, s)
    <3>5. /\ m \in Places /\ m + 1 \in Places /\ m \in {1, 3}
          /\ q[m] = Waiting(x, Link(s), p) /\ q[m + 1] = Kept(x, s)
          /\ r[m] = Waiting(y, Link(s), p) /\ r[m + 1] = Kept(y, s)
      BY SlotCells
    <3>6. RowOf(y, Mate(s)) = RowOf(x, Mate(s)) /\ \A i \in Places : i # m /\ i # m + 1 => r[i] = q[i]
      BY <3>3, FlushCells
    <3>7. LevelOf(x, s) # m - 1
      <4>1. Stands(x, Link(s), e) /\ Stands(x, Link(s), p)
        BY <1>3, <1>13, <2>6 DEF Stands
      <4>. QED  BY <4>1, SlotLevels
    <3>8. Moves(q, r, m, n)
      BY <3>2, <3>5, <3>6 DEF Moves
    <3>9. n \in 0 .. Len(q[m + 1])
      BY <1>3, <3>5 DEF Kept
    <3>10. m # 2
      BY <3>5
    <3>. HIDE DEF m
    <3>11. Flows(y)
      BY <1>1, <1>8, <2>1, <3>4, <3>5, <3>6, <3>7, <3>8, <3>9, <3>10, StickMoves
    <3>. QED  BY <1>10, <1>11, <3>11
  <2>. QED  BY <2>5, <2>6
<1>. QED  BY <1>12, <1>13

\* What a stick reads its mate keeps.
LEMMA ReadFlows ==
  ASSUME Counted, NEW x, Sound(x), Flows(x), NEW r \in Sticks, HasSocket(x, r), x.sticks[r].mate
  PROVE  Flows(Sink(ReadUnits(x, r, Len(Unread(x, r))), Mate(r), Unread(x, r)))
<1>. DEFINE s == Mate(r)
            e == EndOf(r)
            link == x.links[Link(r)]
            data == Unread(x, r)
            l == Consume(link, e, Len(data))
            i == [link[e] EXCEPT !.in = SubSeq(data, Len(data) + 1, Len(data))]
            u == x.sticks[s].wb \o data
            k == [x.sticks[s] EXCEPT !.wb = u]
            x1 == SetLink(x, Link(r), l)
            y == SetStick(x1, s, k)
            m == Slot(s) + 1
<1>1. /\ x \in Relay /\ Link(r) \in LinkNames /\ e \in Ends /\ Fresh(x) /\ InTurn(x)
      /\ s \in Sticks /\ s # r /\ Mate(s) = r /\ x.sticks[s] \in Stick /\ Kept(x, s) \in Seq(Nat)
      /\ data \in Seq(Nat) /\ Len(data) \in 0 .. Len(data) /\ link \in Wire
  <2>1. data \in Seq(Nat)
    BY StickFields
  <2>. QED  BY <2>1, Mates, StickFields DEF Sound, Flows, Kept
<1>2. x.sticks[s].life = "live" /\ HasSocket(x, s)
  BY <1>1, HasSocketLive DEF Sound, Agrees
<1>3. u \in Seq(Nat) /\ k \in Stick /\ k.wb = u /\ k.parsed = x.sticks[s].parsed /\ k.life = x.sticks[s].life
  <2>1. u \in Seq(Nat)
    BY <1>1, ConcatProperties DEF Kept
  <2>. HIDE DEF u
  <2>. QED  BY <1>1, <2>1 DEF Stick
<1>4. SameStates(link, l)
  BY <1>1, LinkData DEF Unread
<1>5. /\ l[e].in = SubSeq(data, Len(data) + 1, Len(data)) /\ l[e].reset = link[e].reset
      /\ \A f \in Ends : f # e => l[f] = link[f]
  <2>1. l = [link EXCEPT ![e] = i]
    BY DEF Consume, Unread
  <2>2. i.in = SubSeq(data, Len(data) + 1, Len(data)) /\ i.reset = link[e].reset
    BY <1>1 DEF Wire, End
  <2>. HIDE DEF i, l
  <2>. QED  BY <1>1, <2>1, <2>2 DEF Wire
<1>6. l \in Wire /\ \A f \in Ends : l[f].state = link[f].state
  BY <1>4 DEF SameStates
<1>7. ReadUnits(x, r, Len(data)) = x1
  BY DEF ReadUnits, SetLink
<1>. HIDE DEF l, k, u, i, data
<1>8. x1 \in Relay /\ x1.links = [x.links EXCEPT ![Link(r)] = l] /\ x1.sticks = x.sticks
  BY <1>1, <1>6, SetFacts
<1>9. HasSocket(x1, s)
  <2>1. Sound(x1)
    BY <1>1, <1>4, LinkSound
  <2>2. x1.sticks[s].life = "live"
    BY <1>2, <1>8
  <2>. QED  BY <1>1, <2>1, <2>2, HasSocketLive
<1>10. Sink(x1, s, data) = y
  <2>1. Sink(x1, s, data) = SetStick(x1, s, [x1.sticks[s] EXCEPT !.wb = @ \o data])
    BY <1>9 DEF Sink, SetStick
  <2>. QED  BY <1>8, <2>1 DEF k, u
<1>. HIDE DEF x1
<1>11. y \in Relay /\ y.links = x1.links /\ y.sticks = [x.sticks EXCEPT ![s] = k]
  BY <1>1, <1>3, <1>8, SetFacts
<1>. HIDE DEF y
<1>12. /\ y.links[Link(r)] = l /\ \A n \in LinkNames : n # Link(r) => y.links[n] = x.links[n]
       /\ y.sticks[s] = k /\ \A t \in Sticks : t # s => y.sticks[t] = x.sticks[t]
  BY <1>1, <1>8, <1>11, RelayFields
<1>13. SameMarks(x, y)
  <2>1. \A f \in Ends : l[f].state = link[f].state /\ l[f].reset = link[f].reset
    BY <1>5, <1>6
  <2>2. \A n \in LinkNames, f \in Ends :
          y.links[n][f].state = x.links[n][f].state /\ y.links[n][f].reset = x.links[n][f].reset
    BY <1>12, <2>1
  <2>3. \A t \in Sticks : y.sticks[t].life = x.sticks[t].life /\ y.sticks[t].parsed = x.sticks[t].parsed
    BY <1>3, <1>12
  <2>. QED  BY <2>2, <2>3 DEF SameMarks
<1>14. /\ Waiting(y, Link(r), e) = SubSeq(data, Len(data) + 1, Len(data)) /\ Waiting(x, Link(r), e) = data
       /\ Kept(y, s) = Kept(x, s) \o data
  BY <1>3, <1>5, <1>12 DEF Waiting, Kept, u, data, Unread
<1>15. Local(x, y, Link(r), e, s)
  <2>1. \A t \in Sticks : t # s => Kept(y, t) = Kept(x, t)
    BY <1>12 DEF Kept
  <2>2. ASSUME NEW n \in LinkNames, NEW f \in Ends, n # Link(r) \/ f # e
        PROVE  Waiting(y, n, f) = Waiting(x, n, f)
    BY <1>5, <1>12, <2>2 DEF Waiting
  <2>. QED  BY <2>1, <2>2 DEF Local
<1>16. StateOf(x, r) \in {"connecting", "open"}
  BY HasSocketLive
<1>17. Fresh(y)
  <2>1. \A t \in Sticks : x.sticks[t].life = "none" => Kept(y, t) = Kept(x, t)
    BY <1>2, <1>15 DEF Local
  <2>2. ASSUME NEW n \in LinkNames, NEW f \in Ends, x.links[n][f].state = "none"
        PROVE  Waiting(y, n, f) = Waiting(x, n, f)
    BY <1>15, <1>16, <2>2 DEF Local, StateOf
  <2>. QED  BY <1>1, <1>13, <2>1, <2>2, SameMarksFresh
<1>. DEFINE q == RowOf(x, s)
            v == RowOf(y, s)
<1>18. /\ m \in Places /\ m + 1 \in Places /\ m - 1 = Slot(s) /\ m \in {2, 4}
       /\ q[m + 1] = data /\ q[m] = Kept(x, s)
       /\ v[m + 1] = SubSeq(data, Len(data) + 1, Len(data)) /\ v[m] = Kept(x, s) \o data
  <2>1. /\ Slot(s) \in {1, 3} /\ Slot(s) + 1 \in Places /\ Slot(s) + 2 \in Places
        /\ q[Slot(s) + 1] = Kept(x, s) /\ q[Slot(s) + 2] = Waiting(x, Link(r), e)
        /\ v[Slot(s) + 1] = Kept(y, s) /\ v[Slot(s) + 2] = Waiting(y, Link(r), e)
    BY <1>1, SlotCells
  <2>2. m + 1 = Slot(s) + 2 /\ m - 1 = Slot(s) /\ m \in {2, 4}
    BY <2>1
  <2>. QED  BY <1>14, <2>1, <2>2
<1>19. RowOf(y, Mate(s)) = RowOf(x, Mate(s)) /\ \A n \in Places : n # m /\ n # m + 1 => v[n] = q[n]
  <2>1. RowOf(y, Mate(s)) = RowOf(x, Mate(s)) /\ \A n \in Places : n # Slot(s) + 1 /\ n # Slot(s) + 2 => v[n] = q[n]
    BY <1>1, <1>15, ReadCells
  <2>2. m + 1 = Slot(s) + 2
    BY <1>18
  <2>. QED  BY <2>1, <2>2
<1>20. Moves(q, v, m, Len(data))
  <2>1. SubSeq(data, 1, Len(data)) = data
    BY <1>1, WholeQueue
  <2>. QED  BY <1>18, <1>19, <2>1 DEF Moves
<1>21. LevelOf(x, s) # m - 1
  <2>1. Stands(x, Link(r), e)
    BY <1>16 DEF Stands, StateOf
  <2>. QED  BY <1>1, <1>18, <2>1, SlotLevels
<1>22. m = 2 => LagOf(x, s) = 0
  <2>1. CASE s = "CR"
    <3>1. x.sticks["CR"].life = "live"
      BY <1>2, <2>1
    <3>2. x.sticks["CL"].parsed
      BY <1>1, <3>1 DEF InTurn
    <3>. QED  BY <3>2 DEF LagOf, Lag
  <2>2. CASE s \in {"BL", "CL"}
    BY <2>2 DEF LagOf, Up
  <2>3. CASE s = "BR"
    BY <2>3 DEF Slot
  <2>. QED  BY <1>1, <2>1, <2>2, <2>3 DEF Sticks
<1>23. Len(data) \in 0 .. Len(q[m + 1])
  BY <1>1, <1>18
<1>. HIDE DEF m, s
<1>24. Flows(y)
  BY <1>1, <1>11, <1>13, <1>17, <1>18, <1>19, <1>20, <1>21, <1>22, <1>23, StickMoves
<1>. QED  BY <1>7, <1>10, <1>24 DEF s, data

\* OnReadEvent keeps the rows.
LEMMA OnReadEventFlows ==
  ASSUME Counted, NEW x, Sound(x), Flows(x), NEW s \in Sticks
  PROVE  Flows(OnReadEvent(x, s))
<1>. DEFINE data == Unread(x, s)
            y == ReadUnits(x, s, Len(data))
            z == Sink(y, Mate(s), data)
            w == CloseFd(ReadUnits(x, s, 1), s)
<1>1. data \in Seq(Nat) /\ Len(data) \in 0 .. Len(data) /\ Mate(s) \in Sticks /\ x \in Relay
  BY StickFields, Mates DEF Sound
<1>2. OnReadEvent(x, s) =
        IF ~ HasSocket(x, s) THEN x
        ELSE IF data = <<>> THEN ReadOn(x, s)
        ELSE IF x.sticks[s].mate THEN ReadOn(z, s) ELSE w
  BY DEF OnReadEvent, Then
<1>3. Flows(ReadOn(x, s))
  BY <1>1, ReadOnFading, FadingFlows
<1>4. ASSUME HasSocket(x, s), x.sticks[s].mate
      PROVE  Flows(ReadOn(z, s))
  <2>1. Flows(z)
    BY <1>4, ReadFlows
  <2>2. Sound(y)
    BY <1>1, ReadUnitsSound
  <2>. HIDE DEF y
  <2>3. Sound(z)
    BY <1>1, <2>2, SinkSound
  <2>. HIDE DEF z
  <2>4. z \in Relay
    BY <2>3 DEF Sound
  <2>. QED  BY <2>1, <2>4, ReadOnFading, FadingFlows
<1>5. ASSUME HasSocket(x, s), data # <<>>
      PROVE  Flows(w)
  <2>1. 1 \in 0 .. Len(data)
    BY <1>1, <1>5, WholeQueue
  <2>2. Fading(x, w)
    BY <1>5, <2>1, ReadAndCloseFading
  <2>. HIDE DEF w
  <2>. QED  BY <1>1, <2>2, FadingFlows
<1>. HIDE DEF data, z, w
<1>. QED  BY <1>2, <1>3, <1>4, <1>5

\* OnWriteEvent keeps the rows.
LEMMA OnWriteEventFlows ==
  ASSUME Counted, NEW x, Sound(x), Flows(x), NEW s \in Sticks
  PROVE  Flows(OnWriteEvent(x, s))
<1>. DEFINE y == FlushBuffer(x, s)
<1>1. Sound(y) /\ Flows(y)
  BY FlushBufferSound, FlushFlows
<1>2. OnWriteEvent(x, s) = IF Gone(y, s) THEN y ELSE CheckCloseFd(y, s)
  BY DEF OnWriteEvent, Then
<1>. HIDE DEF y
<1>3. CheckCloseFd(y, s) \in {y, CloseFd(y, s)}
  BY DEF CheckCloseFd
<1>4. Flows(CloseFd(y, s))
  <2>1. y \in Relay
    BY <1>1 DEF Sound
  <2>. QED  BY <1>1, <2>1, CloseFading, FadingFlows
<1>. QED  BY <1>1, <1>2, <1>3, <1>4

-------------------------------------------------------------------------------
(* The same with the four numbers in between by name. *)

Numbers(n, a, b, c, d, q, lag, w, t) ==
  /\ Run(q[1], n) /\ n + Len(q[1]) <= t
  /\ w >= 1 => a = n + Len(q[1]) /\ Run(q[2], a) /\ a + Len(q[2]) <= t
  /\ w >= 2 => b = a + Len(q[2]) - lag /\ Run(q[3], b) /\ b + Len(q[3]) <= t
  /\ w >= 3 => c = b + Len(q[3]) /\ Run(q[4], c) /\ c + Len(q[4]) <= t
  /\ w >= 4 => d = c + Len(q[4]) /\ Run(q[5], d) /\ d + Len(q[5]) <= t
  /\ w = 5 => d + Len(q[5]) = t

\* One place of a row.
LiesAt(p, q, lag, w, t, k, j) ==
  /\ k <= w + 1 => Run(q[k], p[k]) /\ p[k] + Len(q[k]) <= t
  /\ k <= w => p[j] = p[k] + Len(q[k]) - Behind(k, lag)

\* Lies, place by place.
LEMMA PlaceByPlace ==
  ASSUME NEW p, NEW n, NEW q, NEW lag, NEW w, NEW t
  PROVE  Lies(p, n, q, lag, w, t) <=>
           /\ p[1] = n /\ (w = 5 => p[6] = t)
           /\ LiesAt(p, q, lag, w, t, 1, 2) /\ LiesAt(p, q, lag, w, t, 2, 3) /\ LiesAt(p, q, lag, w, t, 3, 4)
           /\ LiesAt(p, q, lag, w, t, 4, 5) /\ LiesAt(p, q, lag, w, t, 5, 6)
<1>1. Lies(p, n, q, lag, w, t) <=>
        /\ p[1] = n /\ (w = 5 => p[6] = t)
        /\ \A k \in Places : LiesAt(p, q, lag, w, t, k, k + 1)
  BY DEF Lies, LiesAt
<1>2. 1 + 1 = 2 /\ 2 + 1 = 3 /\ 3 + 1 = 4 /\ 4 + 1 = 5 /\ 5 + 1 = 6
  OBVIOUS
<1>3. /\ 1 \in Places /\ 2 \in Places /\ 3 \in Places /\ 4 \in Places /\ 5 \in Places
      /\ \A k \in Places : k = 1 \/ k = 2 \/ k = 3 \/ k = 4 \/ k = 5
  BY RowCells
<1>4. ASSUME \A k \in Places : LiesAt(p, q, lag, w, t, k, k + 1)
      PROVE  /\ LiesAt(p, q, lag, w, t, 1, 2) /\ LiesAt(p, q, lag, w, t, 2, 3) /\ LiesAt(p, q, lag, w, t, 3, 4)
             /\ LiesAt(p, q, lag, w, t, 4, 5) /\ LiesAt(p, q, lag, w, t, 5, 6)
  <2>1. /\ LiesAt(p, q, lag, w, t, 1, 1 + 1) /\ LiesAt(p, q, lag, w, t, 2, 2 + 1)
        /\ LiesAt(p, q, lag, w, t, 3, 3 + 1)
        /\ LiesAt(p, q, lag, w, t, 4, 4 + 1) /\ LiesAt(p, q, lag, w, t, 5, 5 + 1)
    BY <1>3, <1>4, Zenon
  <2>. QED  BY <1>2, <2>1
<1>5. ASSUME /\ LiesAt(p, q, lag, w, t, 1, 2) /\ LiesAt(p, q, lag, w, t, 2, 3)
             /\ LiesAt(p, q, lag, w, t, 3, 4)
             /\ LiesAt(p, q, lag, w, t, 4, 5) /\ LiesAt(p, q, lag, w, t, 5, 6),
             NEW k \in Places
      PROVE  LiesAt(p, q, lag, w, t, k, k + 1)
  <2>1. CASE k = 1
    BY <1>2, <1>5, <2>1
  <2>2. CASE k = 2
    BY <1>2, <1>5, <2>2
  <2>3. CASE k = 3
    BY <1>2, <1>5, <2>3
  <2>4. CASE k = 4
    BY <1>2, <1>5, <2>4
  <2>5. CASE k = 5
    BY <1>2, <1>5, <2>5
  <2>. QED  BY <1>3, <2>1, <2>2, <2>3, <2>4, <2>5
<1>. QED  BY <1>1, <1>4, <1>5

\* Lies, with the numbers between the places by name.
LEMMA NumbersLie ==
  ASSUME NEW p \in [Nat -> Int], NEW n \in Nat, NEW q \in Rows, NEW lag \in Nat, NEW w \in Nat, w <= 5,
         NEW t \in Nat
  PROVE  Lies(p, n, q, lag, w, t) <=>
           p[1] = n /\ Numbers(n, p[2], p[3], p[4], p[5], q, lag, w, t) /\ (w = 5 => p[6] = t)
<1>. DEFINE m(k) == Len(q[k])
<1>1. m(1) \in Nat /\ m(2) \in Nat /\ m(3) \in Nat /\ m(4) \in Nat /\ m(5) \in Nat
  <2>1. \A k \in Places : m(k) \in Nat
    BY RowFields
  <2>. QED  BY <2>1, RowCells
<1>2. /\ Behind(1, lag) = 0 /\ Behind(2, lag) = lag /\ Behind(3, lag) = 0 /\ Behind(4, lag) = 0
      /\ Behind(5, lag) = 0
  BY DEF Behind
<1>3. p[1] \in Int /\ p[2] \in Int /\ p[3] \in Int /\ p[4] \in Int /\ p[5] \in Int /\ p[6] \in Int
  OBVIOUS
<1>. DEFINE p1 == p[1]
            p2 == p[2]
            p3 == p[3]
            p4 == p[4]
            p5 == p[5]
            p6 == p[6]
            q1 == q[1]
            q2 == q[2]
            q3 == q[3]
            q4 == q[4]
            q5 == q[5]
<1>4. Lies(p, n, q, lag, w, t) <=>
        /\ p1 = n /\ (w = 5 => p6 = t)
        /\ (1 <= w + 1 => Run(q1, p1) /\ p1 + m(1) <= t) /\ (1 <= w => p2 = p1 + m(1) - 0)
        /\ (2 <= w + 1 => Run(q2, p2) /\ p2 + m(2) <= t) /\ (2 <= w => p3 = p2 + m(2) - lag)
        /\ (3 <= w + 1 => Run(q3, p3) /\ p3 + m(3) <= t) /\ (3 <= w => p4 = p3 + m(3) - 0)
        /\ (4 <= w + 1 => Run(q4, p4) /\ p4 + m(4) <= t) /\ (4 <= w => p5 = p4 + m(4) - 0)
        /\ (5 <= w + 1 => Run(q5, p5) /\ p5 + m(5) <= t) /\ (5 <= w => p6 = p5 + m(5) - 0)
  BY <1>2, PlaceByPlace, Zenon DEF LiesAt
<1>5. Numbers(n, p2, p3, p4, p5, q, lag, w, t) <=>
        /\ Run(q1, n) /\ n + m(1) <= t
        /\ w >= 1 => p2 = n + m(1) /\ Run(q2, p2) /\ p2 + m(2) <= t
        /\ w >= 2 => p3 = p2 + m(2) - lag /\ Run(q3, p3) /\ p3 + m(3) <= t
        /\ w >= 3 => p4 = p3 + m(3) /\ Run(q4, p4) /\ p4 + m(4) <= t
        /\ w >= 4 => p5 = p4 + m(4) /\ Run(q5, p5) /\ p5 + m(5) <= t
        /\ w = 5 => p5 + m(5) = t
  BY Zenon DEF Numbers
<1>. HIDE DEF p1, p2, p3, p4, p5, p6, q1, q2, q3, q4, q5, m
<1>. QED  BY <1>1, <1>3, <1>4, <1>5 DEF p1, p2, p3, p4, p5, p6

\* Flow, with the numbers between the places by name.
LEMMA FlowNumbers ==
  ASSUME NEW n \in Nat, NEW q \in Rows, NEW lag \in Nat, NEW w \in Nat, w <= 5, NEW t \in Nat
  PROVE  Flow(n, q, lag, w, t) <=> \E a, b, c, d \in Int : Numbers(n, a, b, c, d, q, lag, w, t)
<1>1. ASSUME Flow(n, q, lag, w, t)
      PROVE  \E a, b, c, d \in Int : Numbers(n, a, b, c, d, q, lag, w, t)
  <2>1. PICK p \in [Nat -> Int] : Lies(p, n, q, lag, w, t)
    BY <1>1 DEF Flow
  <2>2. Numbers(n, p[2], p[3], p[4], p[5], q, lag, w, t)
    BY <2>1, NumbersLie
  <2>3. p[2] \in Int /\ p[3] \in Int /\ p[4] \in Int /\ p[5] \in Int
    OBVIOUS
  <2>. QED  BY <2>2, <2>3
<1>2. ASSUME NEW a \in Int, NEW b \in Int, NEW c \in Int, NEW d \in Int,
             Numbers(n, a, b, c, d, q, lag, w, t)
      PROVE  Flow(n, q, lag, w, t)
  <2>. DEFINE p == [k \in Nat |-> IF k = 1 THEN n ELSE IF k = 2 THEN a ELSE IF k = 3 THEN b
                                  ELSE IF k = 4 THEN c ELSE IF k = 5 THEN d ELSE t]
  <2>1. /\ p \in [Nat -> Int]
        /\ p[1] = n /\ p[2] = a /\ p[3] = b /\ p[4] = c /\ p[5] = d /\ p[6] = t
    OBVIOUS
  <2>. HIDE DEF p
  <2>2. Lies(p, n, q, lag, w, t)
    BY <1>2, <2>1, NumbersLie, SMTT(20)
  <2>. QED  BY <2>1, <2>2 DEF Flow
<1>. QED  BY <1>1, <1>2

-------------------------------------------------------------------------------
(* The address.  BR sends it ahead of the data, and CL takes it out. *)

\* The address goes into a row of which the first part is empty.
LEMMA FlowAddress ==
  ASSUME NEW q \in Rows, q[1] = <<>>, q[2] = <<>>, q[3] = <<>>, q[4] = <<>>,
         NEW w \in Nat, w >= 3, w <= 5, NEW t \in Nat, Flow(0, q, 0, w, t),
         NEW y \in Rows, y[4] = <<Meta>>, \A k \in Places : k # 4 => y[k] = q[k]
  PROVE  Flow(0, y, 1, w, t)
<1>1. PICK a \in Int, b \in Int, c \in Int, d \in Int : Numbers(0, a, b, c, d, q, 0, w, t)
  BY FlowNumbers
<1>2. y[1] = <<>> /\ y[2] = <<>> /\ y[3] = <<>> /\ y[5] = q[5]
  BY RowCells
<1>3. Len(<<>>) = 0 /\ Len(<<Meta>>) = 1 /\ Len(q[5]) \in Nat
  BY RowCells, RowFields
<1>4. \A i \in Int : Run(<<>>, i)
  BY <1>3 DEF Run
<1>5. Run(<<Meta>>, -1)
  BY <1>3 DEF Run, Meta
<1>. DEFINE u == q[5]
<1>6. /\ a = 0 /\ b = 0 /\ c = 0
      /\ w >= 4 => d = 0 /\ Run(u, d) /\ d + Len(u) <= t
      /\ w = 5 => d + Len(u) = t
  BY <1>1, <1>3 DEF Numbers
<1>. HIDE DEF u
<1>7. Numbers(0, 0, -1, -1, d, y, 1, w, t)
  BY <1>2, <1>3, <1>4, <1>5, <1>6 DEF Numbers, u
<1>. QED  BY <1>7, FlowNumbers

\* What waits at CL goes to CR but for the address, which is the first unit.
LEMMA FlowUnwraps ==
  ASSUME NEW n \in Nat, NEW q \in Rows, q[2] = <<>>, q[3] # <<>>, NEW w \in Nat, w >= 2, w <= 5,
         NEW t \in Nat, Flow(n, q, 1, w, t),
         NEW y \in Rows, y[2] = Tail(q[3]), y[3] = <<>>, \A k \in Places : k # 2 /\ k # 3 => y[k] = q[k]
  PROVE  Flow(n, y, 0, w, t)
<1>1. PICK a \in Int, b \in Int, c \in Int, d \in Int : Numbers(n, a, b, c, d, q, 1, w, t)
  BY FlowNumbers
<1>. DEFINE u == q[3]
            v == Tail(u)
            j == Len(u)
<1>2. y[1] = q[1] /\ y[4] = q[4] /\ y[5] = q[5] /\ y[2] = v
  BY RowCells
<1>3. Len(<<>>) = 0 /\ Len(q[1]) \in Nat /\ Len(q[4]) \in Nat /\ Len(q[5]) \in Nat /\ u \in Seq(Nat)
  BY RowCells, RowFields
<1>4. /\ j \in Nat /\ j > 0 /\ Len(v) = j - 1
      /\ \A i \in 1 .. j - 1 : v[i] = u[i + 1]
  <2>1. j > 0
    BY <1>3, WholeQueue
  <2>. QED  BY <1>3, <2>1
<1>. HIDE DEF u, v, j
<1>5. \A i \in Int : Run(<<>>, i)
  BY <1>3 DEF Run
<1>6. /\ Run(q[1], n) /\ n + Len(q[1]) <= t /\ a = n + Len(q[1]) /\ b = a - 1
      /\ Run(u, b) /\ b + j <= t
  BY <1>1, <1>3 DEF Numbers, u, j
<1>7. /\ w >= 3 => c = b + j /\ Run(q[4], c) /\ c + Len(q[4]) <= t
      /\ w >= 4 => d = c + Len(q[4]) /\ Run(q[5], d) /\ d + Len(q[5]) <= t
      /\ w = 5 => d + Len(q[5]) = t
  BY <1>1 DEF Numbers, u, j
<1>8. Run(v, a) /\ a + Len(v) = b + j
  <2>1. a + Len(v) = b + j
    BY <1>4, <1>6
  <2>2. \A i \in 1 .. j : u[i] = b + i
    BY <1>6 DEF Run, j
  <2>3. ASSUME NEW i \in 1 .. j - 1  PROVE v[i] = a + i
    <3>1. i + 1 \in 1 .. j
      BY <1>4
    <3>2. u[i + 1] = b + (i + 1)
      BY <2>2, <3>1
    <3>3. v[i] = b + (i + 1)
      BY <1>4, <3>2
    <3>4. b = a - 1
      BY <1>6
    <3>5. i \in Int
      BY <1>4
    <3>. HIDE DEF v
    <3>. QED  BY <3>3, <3>4, <3>5
  <2>. QED  BY <1>4, <2>1, <2>3 DEF Run
<1>9. Numbers(n, a, b + j, c, d, y, 0, w, t)
  <2>. DEFINE e == b + j
  <2>1. e \in Int /\ a + Len(v) = e /\ e <= t /\ a \in Int /\ Len(v) \in Nat /\ Len(q[1]) \in Nat
    BY <1>3, <1>4, <1>6, <1>8, SMTT(20)
  <2>2. a + Len(v) - 0 = e /\ a + Len(v) <= t /\ e + 0 = e
    BY <2>1
  <2>3. Run(v, a) /\ Run(<<>>, e)
    BY <1>5, <1>8, <2>1
  <2>4. /\ w >= 3 => c = e /\ Run(q[4], c) /\ c + Len(q[4]) <= t
        /\ w >= 4 => d = c + Len(q[4]) /\ Run(q[5], d) /\ d + Len(q[5]) <= t
        /\ w = 5 => d + Len(q[5]) = t
    BY <1>7
  <2>5. /\ Run(q[1], n) /\ n + Len(q[1]) <= t /\ a = n + Len(q[1])
    BY <1>6
  <2>. HIDE DEF e
  <2>6. /\ w >= 1 => a = n + Len(q[1]) /\ Run(v, a) /\ a + Len(v) <= t
        /\ w >= 2 => e = a + Len(v) - 0 /\ Run(<<>>, e) /\ e + Len(<<>>) <= t
        /\ w >= 3 => c = e + Len(<<>>)
    BY <1>3, <2>1, <2>2, <2>3, <2>4, <2>5
  <2>7. Numbers(n, a, e, c, d, y, 0, w, t)
    BY <1>2, <2>4, <2>5, <2>6, Zenon DEF Numbers
  <2>. QED  BY <2>7 DEF e
<1>10. b + j \in Int /\ 0 \in Nat
  BY <1>4
<1>. QED  BY <1>9, <1>10, FlowNumbers

\* What differs between a relay and the same with a new right stick.
Gains(x, y, r, l, k, first) ==
  /\ y.links[l] = k /\ \A n \in LinkNames : n # l => y.links[n] = x.links[n]
  /\ Kept(y, r) = first /\ y.sticks[r].parsed = FALSE /\ y.sticks[r].life # "none"
  /\ \A t \in Sticks : t # r => /\ Kept(y, t) = Kept(x, t) /\ y.sticks[t].parsed = x.sticks[t].parsed
                                /\ y.sticks[t].life = "none" <=> x.sticks[t].life = "none"

\* A new right stick adds a buffer and a connection to the rows.
LEMMA RightGains ==
  ASSUME NEW x, Sound(x), NEW r \in {"BR", "CR"}, ReadyFor(x, r), NEW y, NEW k, NEW first,
         NewRight(x, y, r, k, first)
  PROVE  Gains(x, y, r, Link(r), k, first)
<1>1. /\ r \in Sticks /\ Mate(r) \in Sticks /\ Link(r) \in LinkNames /\ x \in Relay
      /\ \A t \in Sticks : t = r \/ t = Mate(r) \/ Host(t) # Host(r)
  BY Names DEF Sticks, LinkNames, Sound
<1>2. y.links = [x.links EXCEPT ![Link(r)] = k]
  BY DEF NewRight
<1>3. y.links[Link(r)] = k /\ \A l \in LinkNames : l # Link(r) => y.links[l] = x.links[l]
  BY <1>1, <1>2, RelayFields
<1>4. Kept(y, r) = first /\ y.sticks[r].parsed = FALSE /\ y.sticks[r].life # "none"
  BY DEF NewRight, Kept
<1>5. ASSUME NEW t \in Sticks, t # r
      PROVE  /\ Kept(y, t) = Kept(x, t) /\ y.sticks[t].parsed = x.sticks[t].parsed
             /\ y.sticks[t].life = "none" <=> x.sticks[t].life = "none"
  <2>1. CASE t = Mate(r)
    BY <2>1 DEF NewRight, Kept, ReadyFor
  <2>2. CASE Host(t) # Host(r)
    BY <2>2 DEF NewRight, Kept
  <2>. QED  BY <1>1, <1>5, <2>1, <2>2
<1>. QED  BY <1>3, <1>4, <1>5 DEF Gains

\* Before BR exists there is nothing on the way to D but what the client sent to B.
LEMMA NothingBehind ==
  ASSUME Counted, NEW x, Sound(x), Flows(x), ReadyFor(x, "BR")
  PROVE  /\ x.links["bc"]["near"].state = "none" /\ x.links["bc"]["far"].state = "none"
         /\ echoed = <<>> /\ ~ x.sticks["CL"].parsed
         /\ \A e \in Ends : Waiting(x, "bc", e) = <<>>
         /\ Upward(x)[1] = <<>> /\ Upward(x)[2] = <<>> /\ Upward(x)[3] = <<>> /\ Upward(x)[4] = <<>>
         /\ Lag(x) = 0 /\ UpLevel(x) >= 3
<1>1. /\ "BR" \in {"BR", "CR"} /\ Link("BR") = "bc" /\ Link("CL") = "bc" /\ EndOf("CL") = "far"
      /\ Link("CR") = "cd" /\ EndOf("CR") = "near"
  BY Names
<1>2. x.links["bc"]["near"].state = "none" /\ x.links["bc"]["far"].state = "none"
  BY <1>1, Unused
<1>3. x.sticks["BR"].life = "none" /\ x.sticks["CL"].life = "none"
  BY <1>1, <1>2, Names2 DEF ReadyFor, Sound, Agrees, StateOf
<1>4. Fresh(x) /\ Early(x)
  BY DEF Flows
<1>5. ~ x.sticks["CL"].parsed /\ echoed = <<>>
  BY <1>3, <1>4, Names2 DEF Fresh, Early
<1>6. x.sticks["CR"].life = "none" /\ x.links["cd"]["near"].state = "none" /\ x.links["cd"]["far"].state = "none"
  BY <1>1, <1>3, Names2 DEF Sound, InTurn, StateOf, Shaped
<1>7. /\ \A e \in Ends : Waiting(x, "bc", e) = <<>> /\ x.links["bc"][e].state = "none"
      /\ Waiting(x, "cd", "far") = <<>> /\ Kept(x, "BR") = <<>> /\ Kept(x, "CR") = <<>>
  <2>1. \A e \in Ends : x.links["bc"][e].state = "none"
    BY <1>2 DEF Ends
  <2>. QED  BY <1>3, <1>4, <1>6, <2>1, Names2 DEF Fresh
<1>8. Upward(x)[1] = <<>> /\ Upward(x)[2] = <<>> /\ Upward(x)[3] = <<>> /\ Upward(x)[4] = <<>>
  BY <1>7, Names2, RowCells DEF Upward
<1>9. Lag(x) = 0
  BY <1>3 DEF Lag
<1>10. Stands(x, "cd", "near") /\ Stands(x, "cd", "far") /\ Stands(x, "bc", "far") /\ Stands(x, "bc", "near")
  BY <1>2, <1>6 DEF Stands
<1>11. UpLevel(x) >= 3
  BY <1>10 DEF UpLevel, Level
<1>. QED  BY <1>2, <1>5, <1>7, <1>8, <1>9, <1>11

\* BR begins with the address, whether its connection is under way or has failed.
LEMMA AddressFlows ==
  ASSUME Counted, NEW x, Sound(x), Flows(x), ReadyFor(x, "BR"), NEW y, NEW k,
         NewRight(x, y, "BR", k, <<Meta>>), \A e \in Ends : k[e].in = <<>>, k["far"].reset = FALSE
  PROVE  Flows(y)
<1>1. /\ y.links["bc"] = k /\ \A l \in LinkNames : l # "bc" => y.links[l] = x.links[l]
      /\ Kept(y, "BR") = <<Meta>> /\ y.sticks["BR"].parsed = FALSE /\ y.sticks["BR"].life # "none"
      /\ \A t \in Sticks : t # "BR" => /\ Kept(y, t) = Kept(x, t) /\ y.sticks[t].parsed = x.sticks[t].parsed
                                       /\ y.sticks[t].life = "none" <=> x.sticks[t].life = "none"
  <2>1. "BR" \in {"BR", "CR"} /\ Link("BR") = "bc"
    BY Names
  <2>2. Gains(x, y, "BR", "bc", k, <<Meta>>)
    BY <2>1, RightGains
  <2>. QED  BY <2>2 DEF Gains
<1>2. /\ x \in Relay /\ y \in Relay /\ k["near"].state \in {"connecting", "closed"} /\ k["far"].state = "none"
  BY DEF Sound, NewRight
<1>3. /\ x.links["bc"]["near"].state = "none" /\ x.links["bc"]["far"].state = "none"
      /\ echoed = <<>> /\ ~ x.sticks["CL"].parsed
      /\ \A e \in Ends : Waiting(x, "bc", e) = <<>>
      /\ Upward(x)[1] = <<>> /\ Upward(x)[2] = <<>> /\ Upward(x)[3] = <<>> /\ Upward(x)[4] = <<>>
      /\ Lag(x) = 0 /\ UpLevel(x) >= 3
  BY NothingBehind
<1>4. Fresh(x) /\ Early(x)
  BY DEF Flows
<1>5. Lag(y) = 1 /\ Early(y)
  BY <1>1, <1>3, Names2 DEF Lag, Early
<1>6. \A l \in LinkNames, e \in Ends : Waiting(y, l, e) = Waiting(x, l, e)
  BY <1>1, <1>3 DEF Waiting
<1>7. /\ UpLevel(y) <= UpLevel(x) /\ (UpLevel(y) = 5 => UpLevel(x) = 5)
      /\ DownLevel(y) <= DownLevel(x) /\ (DownLevel(y) = 5 => DownLevel(x) = 5)
  <2>1. /\ \A l \in LinkNames, e \in Ends : l # "bc" => Stands(y, l, e) = Stands(x, l, e)
        /\ Stands(x, "bc", "near") /\ Stands(x, "bc", "far") /\ Stands(y, "bc", "far")
        /\ y.links["cd"] = x.links["cd"]
    BY <1>1, <1>2, <1>3, Names2 DEF Stands
  <2>2. \A a, b, c, d, e : /\ Level(a, b, FALSE, d, e) <= Level(a, b, TRUE, d, e)
                           /\ Level(a, FALSE, c, d, e) <= Level(a, TRUE, c, d, e)
                           /\ Level(a, b, FALSE, d, e) # 5 /\ Level(a, FALSE, c, d, e) # 5
                           /\ Level(a, b, c, d, e) <= Level(a, b, c, d, e)
    BY DEF Level
  <2>3. CASE Stands(y, "bc", "near")
    <3>1. UpLevel(y) = UpLevel(x) /\ DownLevel(y) = DownLevel(x)
      BY <2>1, <2>3, Names2 DEF UpLevel, DownLevel
    <3>. QED  BY <2>2, <3>1 DEF UpLevel, DownLevel
  <2>4. CASE ~ Stands(y, "bc", "near")
    <3>. DEFINE a == Stands(x, "cd", "near") /\ Stands(x, "cd", "far")
                f == Stands(x, "cd", "far") /\ ~ x.links["cd"]["far"].reset
                d == Stands(x, "ab", "near") /\ Stands(x, "ab", "far")
    <3>1. /\ UpLevel(y) = Level(a, TRUE, FALSE, Stands(x, "ab", "far"), Stands(x, "ab", "near"))
          /\ UpLevel(x) = Level(a, TRUE, TRUE, Stands(x, "ab", "far"), Stands(x, "ab", "near"))
          /\ DownLevel(y) = Level(d, FALSE, TRUE, Stands(x, "cd", "near"), f)
          /\ DownLevel(x) = Level(d, TRUE, TRUE, Stands(x, "cd", "near"), f)
      BY <2>1, <2>4, Names2 DEF UpLevel, DownLevel, Stands
    <3>. HIDE DEF a, f, d
    <3>. QED  BY <2>2, <3>1
  <2>. QED  BY <2>3, <2>4
<1>8. /\ Upward(y) \in Rows /\ Upward(y)[4] = <<Meta>> /\ \A m \in Places : m # 4 => Upward(y)[m] = Upward(x)[m]
      /\ Downward(y) = Downward(x)
  <2>1. /\ Kept(y, "BL") = Kept(x, "BL") /\ Kept(y, "CL") = Kept(x, "CL") /\ Kept(y, "CR") = Kept(x, "CR")
    BY <1>1, Names2
  <2>2. /\ Waiting(y, "ab", "near") = Waiting(x, "ab", "near") /\ Waiting(y, "ab", "far") = Waiting(x, "ab", "far")
        /\ Waiting(y, "bc", "near") = Waiting(x, "bc", "near") /\ Waiting(y, "bc", "far") = Waiting(x, "bc", "far")
        /\ Waiting(y, "cd", "near") = Waiting(x, "cd", "near") /\ Waiting(y, "cd", "far") = Waiting(x, "cd", "far")
    BY <1>6, Names2
  <2>3. Downward(y) = Downward(x)
    BY <2>1, <2>2 DEF Downward
  <2>4. Upward(y)[4] = <<Meta>> /\ \A m \in Places : m # 4 => Upward(y)[m] = Upward(x)[m]
    BY <1>1, <2>1, <2>2, RowCells DEF Upward
  <2>. QED  BY <1>2, <2>3, <2>4, RelayCells
<1>9. /\ Len(echoed) = 0 /\ Len(client.got) \in Nat /\ client.sent \in Nat
      /\ UpLevel(x) \in Nat /\ UpLevel(x) <= 5 /\ UpLevel(y) \in Nat
      /\ DownLevel(x) \in Nat /\ DownLevel(x) <= 5 /\ DownLevel(y) \in Nat
      /\ Upward(x) \in Rows /\ Downward(x) \in Rows
  BY <1>2, <1>3, RelayCells DEF Counted, Client
<1>10. Flow(0, Upward(y), 1, UpLevel(x), client.sent)
  <2>1. Flow(0, Upward(x), 0, UpLevel(x), client.sent)
    BY <1>3, <1>9 DEF Flows
  <2>. QED  BY <1>3, <1>8, <1>9, <2>1, FlowAddress
<1>11. Flow(Len(echoed), Upward(y), Lag(y), UpLevel(y), client.sent)
  <2>1. Follows(Upward(y), Upward(y), UpLevel(y)) /\ client.sent <= client.sent
    BY <1>9 DEF Follows
  <2>2. 0 \in Nat /\ 1 \in Nat
    OBVIOUS
  <2>. QED  BY <1>5, <1>7, <1>8, <1>9, <1>10, <2>1, <2>2, FlowBreaks
<1>12. Flow(Len(client.got), Downward(y), 0, DownLevel(y), Len(echoed))
  <2>1. Follows(Downward(x), Downward(y), DownLevel(y)) /\ Len(echoed) <= Len(echoed)
    BY <1>8, <1>9 DEF Follows
  <2>2. 0 \in Nat /\ Len(echoed) \in Nat
    BY <1>9
  <2>3. Flow(Len(client.got), Downward(x), 0, DownLevel(x), Len(echoed))
    BY DEF Flows
  <2>. QED  BY <1>7, <1>9, <2>1, <2>2, <2>3, FlowBreaks
<1>13. Fresh(y)
  <2>1. \A s \in Sticks : y.sticks[s].life = "none" => Kept(y, s) = <<>> /\ ~ y.sticks[s].parsed
    BY <1>1, <1>4 DEF Fresh
  <2>2. \A l \in LinkNames : Joined(y.links[l])
    BY <1>1, <1>2, <1>4 DEF Fresh, Joined
  <2>3. ASSUME NEW l \in LinkNames, NEW e \in Ends, y.links[l][e].state = "none"
        PROVE  Waiting(y, l, e) = <<>> /\ ~ y.links[l][e].reset
    <3>1. CASE l = "bc"
      <4>1. e = "far"
        BY <1>1, <1>2, <2>3, <3>1 DEF Ends
      <4>. QED  BY <1>1, <3>1, <4>1 DEF Waiting
    <3>2. CASE l # "bc"
      BY <1>1, <1>4, <2>3, <3>2 DEF Fresh, Waiting
    <3>. QED  BY <3>1, <3>2
  <2>4. y.links["ab"]["far"].state # "none"
    BY <1>1, <1>4, Names2 DEF Fresh
  <2>. QED  BY <2>1, <2>2, <2>3, <2>4 DEF Fresh
<1>. QED  BY <1>5, <1>11, <1>12, <1>13 DEF Flows

\* The right stick of B, with the address in its buffer.
LEMMA FirstRightFlows ==
  ASSUME Counted, NEW x, Sound(x), Flows(x), ReadyFor(x, "BR")
  PROVE  Flows(Connect(x, "BL", "BR", <<Meta>>)) /\ Flows(FailToConnect(x, "BR", <<Meta>>))
<1>1. "BR" \in {"BR", "CR"} /\ Mate("BR") = "BL" /\ Link("BR") = "bc" /\ <<Meta>> \in Seq(Nat) /\ x \in Relay
  BY Names DEF Meta, Sound
<1>2. Flows(Connect(x, "BL", "BR", <<Meta>>))
  <2>1. NewRight(x, Connect(x, Mate("BR"), "BR", <<Meta>>), "BR", Connecting, <<Meta>>)
    BY <1>1, ConnectDoes
  <2>2. (\A e \in Ends : Connecting[e].in = <<>>) /\ Connecting["far"].reset = FALSE
    BY DEF Connecting, NoLink, NoEnd, Ends
  <2>. QED  BY <1>1, <2>1, <2>2, AddressFlows
<1>3. Flows(FailToConnect(x, "BR", <<Meta>>))
  <2>. DEFINE k == SetState(x.links["bc"], "near", "closed")
  <2>1. NewRight(x, FailToConnect(x, "BR", <<Meta>>), "BR", k, <<Meta>>)
    BY <1>1, FailToConnectDoes
  <2>2. /\ x.links["bc"]["far"].state = "none" /\ (\A e \in Ends : x.links["bc"][e].in = <<>>)
        /\ x.links["bc"] \in Wire /\ ~ x.links["bc"]["far"].reset
    <3>1. x.links["bc"]["far"].state = "none" /\ (\A e \in Ends : Waiting(x, "bc", e) = <<>>)
      BY NothingBehind
    <3>. QED  BY <1>1, <3>1, Names2, RelayFields DEF Flows, Fresh, Waiting
  <2>3. (\A e \in Ends : k[e].in = <<>>) /\ k["far"].reset = FALSE
    <3>. DEFINE l == x.links["bc"]
    <3>1. l \in Wire /\ l["far"].reset = FALSE /\ \A e \in Ends : l[e].in = <<>>
      BY <2>2, WireFields
    <3>2. l["near"] \in WireEnd /\ k = [l EXCEPT !["near"].state = "closed"]
      <4>1. k = [l EXCEPT !["near"].state = "closed"]
        BY Zenon DEF SetState
      <4>2. "near" \in Ends
        BY DEF Ends
      <4>. HIDE DEF l, k
      <4>. QED  BY <3>1, <4>1, <4>2, WireFields
    <3>. HIDE DEF l, k
    <3>3. k["near"].in = l["near"].in /\ k["far"] = l["far"]
      BY <3>1, <3>2 DEF Wire, WireEnd, End, Ends
    <3>. QED  BY <3>1, <3>3 DEF Ends
  <2>. HIDE DEF k
  <2>. QED  BY <2>1, <2>3, AddressFlows
<1>. QED  BY <1>2, <1>3

\* CR begins without data.
LEMMA SecondRightFading ==
  ASSUME NEW x, Sound(x), Fresh(x), ReadyFor(x, "CR")
  PROVE  Fading(x, Connect(x, "CL", "CR", <<>>))
<1>. DEFINE y == Connect(x, "CL", "CR", <<>>)
<1>1. /\ "CR" \in {"BR", "CR"} /\ Mate("CR") = "CL" /\ Link("CR") = "cd" /\ <<>> \in Seq(Nat) /\ x \in Relay
      /\ "CR" # "BR"
  BY Names DEF Sound
<1>2. NewRight(x, y, "CR", Connecting, <<>>)
  BY <1>1, ConnectDoes
<1>. HIDE DEF y
<1>3. /\ y.links["cd"] = Connecting /\ \A l \in LinkNames : l # "cd" => y.links[l] = x.links[l]
      /\ Kept(y, "CR") = <<>> /\ y.sticks["CR"].parsed = FALSE /\ y.sticks["CR"].life # "none"
      /\ \A t \in Sticks : t # "CR" => /\ Kept(y, t) = Kept(x, t) /\ y.sticks[t].parsed = x.sticks[t].parsed
                                       /\ y.sticks[t].life = "none" <=> x.sticks[t].life = "none"
  <2>1. Gains(x, y, "CR", "cd", Connecting, <<>>)
    BY <1>1, <1>2, RightGains
  <2>. QED  BY <2>1 DEF Gains
<1>4. x.links["cd"]["near"].state = "none" /\ x.links["cd"]["far"].state = "none"
  BY <1>1, Unused
<1>5. x.sticks["CR"].life = "none" /\ Kept(x, "CR") = <<>> /\ ~ x.sticks["CR"].parsed
  BY Names2 DEF ReadyFor, Fresh
<1>6. \A e \in Ends : x.links["cd"][e].state = "none" /\ x.links["cd"][e].in = <<>> /\ ~ x.links["cd"][e].reset
  <2>1. \A e \in Ends : x.links["cd"][e].state = "none"
    BY <1>4 DEF Ends
  <2>. QED  BY <2>1, Names2 DEF Fresh, Waiting
<1>7. /\ Connecting \in Wire /\ Connecting["near"].state = "connecting" /\ Connecting["far"].state = "none"
      /\ \A e \in Ends : Connecting[e].in = <<>> /\ Connecting[e].reset = FALSE
  <2>1. \A e \in Ends : Connecting[e].in = <<>> /\ Connecting[e].reset = FALSE
    BY DEF Connecting, NoLink, NoEnd, Ends
  <2>. QED  BY <2>1, NewLinks
<1>8. Fades(x.links["cd"], Connecting)
  <2>1. \A e \in Ends : EndFades(x.links["cd"][e], Connecting[e])
    <3>. TAKE e \in Ends
    <3>1. x.links["cd"][e].reset = FALSE
      BY <1>1, <1>6, Names2, RelayFields, WireFields
    <3>. QED  BY <1>6, <1>7, <3>1 DEF EndFades
  <2>. QED  BY <1>7, <2>1 DEF Fades, Joined
<1>9. \A l \in LinkNames : Fades(x.links[l], y.links[l])
  BY <1>1, <1>3, <1>8, CallsFade, RelayFields
<1>10. x.sticks["CR"].parsed = FALSE
  BY <1>1, <1>5, Names2, RelayFields DEF Stick
<1>11. y \in Relay
  BY <1>2 DEF NewRight
<1>12. \A t \in Sticks : /\ Kept(y, t) = Kept(x, t) /\ y.sticks[t].parsed = x.sticks[t].parsed
                         /\ y.sticks[t].life = "none" => x.sticks[t].life = "none"
  BY <1>3, <1>5, <1>10
<1>13. y.sticks["BR"].life = "none" <=> x.sticks["BR"].life = "none"
  BY <1>3, Names2
<1>14. Fading(x, y)
  BY <1>9, <1>11, <1>12, <1>13 DEF Fading
<1>. QED  BY <1>14 DEF y

\* CL has read all that waited for it.
Took(x, w) ==
  /\ Fresh(w) /\ UpLevel(w) = UpLevel(x) /\ DownLevel(w) = DownLevel(x) /\ Downward(w) = Downward(x)
  /\ Upward(w)[3] = <<>> /\ \A k \in Places : k # 3 => Upward(w)[k] = Upward(x)[k]

\* What Parsed does to the rows: the queue of CL is empty.
LEMMA ParsedTook ==
  ASSUME NEW x, Sound(x), Fresh(x), x.sticks["CL"].life = "live", x.sticks["CL"].parsed = FALSE
  PROVE  Took(x, Parsed(x))
<1>. DEFINE w == Parsed(x)
            l == x.links["bc"]
            k == Consume(l, "far", Len(l["far"].in))
<1>1. x \in Relay /\ "bc" \in LinkNames /\ "far" \in Ends /\ l \in Wire /\ Link("CL") = "bc" /\ EndOf("CL") = "far"
  BY Names2, RelayFields, Names DEF Sound
<1>2. /\ w.links = [x.links EXCEPT !["bc"] = k]
      /\ \A t \in Sticks : t # "CL" => w.sticks[t] = x.sticks[t]
      /\ w.sticks["CL"].life = "live" /\ w.sticks["CL"].wb = x.sticks["CL"].wb
  BY ParsedDoes
<1>. HIDE DEF w
<1>3. /\ k["far"].in = <<>> /\ k["far"].reset = l["far"].reset /\ k["near"] = l["near"]
      /\ k["far"].state = l["far"].state
  <2>. DEFINE j == l["far"]
              u == SubSeq(j.in, Len(j.in) + 1, Len(j.in))
              i == [j EXCEPT !.in = u]
  <2>1. k = [l EXCEPT !["far"] = i]
    BY DEF Consume
  <2>2. j \in WireEnd /\ j.in \in Seq(Nat)
    BY <1>1, WireFields
  <2>3. u = <<>>
    BY <2>2, WholeQueue
  <2>4. i.in = u /\ i.reset = j.reset /\ i.state = j.state
    BY <2>2 DEF WireEnd, End
  <2>5. "near" # "far" /\ "near" \in Ends
    BY DEF Ends
  <2>6. k["far"] = i /\ k["near"] = l["near"]
    <3>. HIDE DEF i, k, l
    <3>. QED  BY <1>1, <2>1, <2>5 DEF Wire
  <2>. QED  BY <2>3, <2>4, <2>6
<1>. HIDE DEF k
<1>4. w.links["bc"] = k /\ \A n \in LinkNames : n # "bc" => w.links[n] = x.links[n]
  BY <1>1, <1>2, RelayFields
<1>5. /\ \A n \in LinkNames, e \in Ends : /\ w.links[n][e].state = x.links[n][e].state
                                          /\ w.links[n][e].reset = x.links[n][e].reset
                                          /\ n # "bc" \/ e # "far" => Waiting(w, n, e) = Waiting(x, n, e)
      /\ Waiting(w, "bc", "far") = <<>>
  <2>1. \A e \in Ends : e = "near" \/ e = "far"
    BY DEF Ends
  <2>. QED  BY <1>3, <1>4, <2>1 DEF Waiting
<1>6. \A t \in Sticks : Kept(w, t) = Kept(x, t)
  BY <1>2 DEF Kept
<1>7. Fresh(w)
  <2>1. \A s \in Sticks : w.sticks[s].life = "none" => Kept(w, s) = <<>> /\ ~ w.sticks[s].parsed
    BY <1>2, <1>6 DEF Fresh
  <2>2. \A n \in LinkNames : Joined(w.links[n])
    BY <1>5, Names2 DEF Fresh, Joined
  <2>3. \A n \in LinkNames, e \in Ends :
          w.links[n][e].state = "none" => Waiting(w, n, e) = <<>> /\ ~ w.links[n][e].reset
    BY <1>5 DEF Fresh
  <2>4. w.links["ab"]["far"].state # "none"
    BY <1>5, Names2 DEF Fresh
  <2>. QED  BY <2>1, <2>2, <2>3, <2>4 DEF Fresh
<1>8. UpLevel(w) = UpLevel(x) /\ DownLevel(w) = DownLevel(x)
  <2>1. \A n \in LinkNames, e \in Ends : Stands(w, n, e) = Stands(x, n, e)
    BY <1>5 DEF Stands
  <2>2. w.links["cd"]["far"].reset = x.links["cd"]["far"].reset
    BY <1>5, Names2
  <2>3. UpLevel(w) = UpLevel(x)
    BY <2>1, Names2 DEF UpLevel
  <2>4. DownLevel(w) = DownLevel(x)
    BY <2>1, <2>2, Names2 DEF DownLevel
  <2>. QED  BY <2>3, <2>4
<1>9. "near" # "far" /\ "ab" # "bc" /\ "cd" # "bc"
  OBVIOUS
<1>10. Downward(w) = Downward(x)
  BY <1>5, <1>6, <1>9, Names2 DEF Downward
<1>11. Upward(w)[3] = <<>> /\ \A p \in Places : p # 3 => Upward(w)[p] = Upward(x)[p]
  BY <1>5, <1>6, <1>9, Names2, RowCells DEF Upward
<1>12. Took(x, w)
  BY <1>7, <1>8, <1>10, <1>11 DEF Took
<1>. QED  BY <1>12 DEF w

\* CR brings nothing along.
LEMMA SecondRightCells ==
  ASSUME NEW x, Sound(x), Fresh(x), ReadyFor(x, "CR"), NEW y, y = Connect(x, "CL", "CR", <<>>)
  PROVE  /\ Sound(y) /\ Fresh(y) /\ UpLevel(y) = UpLevel(x) /\ DownLevel(y) = DownLevel(x)
         /\ Upward(y) = Upward(x) /\ Downward(y) = Downward(x) /\ UpLevel(x) # 0
         /\ y.sticks["CR"].life # "none" /\ y.sticks["CL"].parsed /\ HasSocket(y, "CR") /\ y.hosts = x.hosts
<1>1. /\ "CR" \in {"BR", "CR"} /\ Mate("CR") = "CL" /\ Link("CR") = "cd" /\ <<>> \in Seq(Nat) /\ x \in Relay
      /\ "CL" # "CR" /\ EndOf("CR") = "near"
  BY Names DEF Sound
<1>2. NewRight(x, y, "CR", Connecting, <<>>) /\ Sound(y)
  BY <1>1, ConnectDoes, NewRightsSound
<1>3. Gains(x, y, "CR", "cd", Connecting, <<>>)
  BY <1>1, <1>2, RightGains
<1>4. y.hosts = x.hosts
  BY <1>1 DEF Connect, Relay
<1>5. Fading(x, y)
  BY SecondRightFading
<1>6. Fresh(y)
  BY <1>5, FadingFresh
<1>7. x.links["cd"]["near"].state = "none" /\ x.links["cd"]["far"].state = "none"
  BY <1>1, Unused
<1>8. /\ Waiting(x, "cd", "near") = <<>> /\ Waiting(x, "cd", "far") = <<>> /\ ~ x.links["cd"]["far"].reset
      /\ Kept(x, "CR") = <<>>
  BY <1>7, Names2 DEF Fresh, ReadyFor
<1>9. /\ y.links["cd"] = Connecting
      /\ Connecting["near"].state = "connecting" /\ Connecting["far"].state = "none"
      /\ \A e \in Ends : Connecting[e].in = <<>> /\ Connecting[e].reset = FALSE
  <2>1. \A e \in Ends : Connecting[e].in = <<>> /\ Connecting[e].reset = FALSE
    BY DEF Connecting, NoLink, NoEnd, Ends
  <2>. QED  BY <1>3, <2>1, NewLinks DEF Gains
<1>10. \A n \in LinkNames, e \in Ends : Waiting(y, n, e) = Waiting(x, n, e) /\ Stands(y, n, e) = Stands(x, n, e)
  <2>. TAKE n \in LinkNames, e \in Ends
  <2>1. CASE n # "cd"
    BY <1>3, <2>1 DEF Gains, Waiting, Stands
  <2>2. CASE n = "cd"
    BY <1>7, <1>8, <1>9, <2>2 DEF Ends, Waiting, Stands
  <2>. QED  BY <2>1, <2>2
<1>11. \A t \in Sticks : Kept(y, t) = Kept(x, t)
  BY <1>3, <1>8 DEF Gains
<1>12. Upward(y) = Upward(x) /\ Downward(y) = Downward(x)
  <2>1. Upward(y) = Upward(x)
    BY <1>10, <1>11, Names2 DEF Upward
  <2>2. Downward(y) = Downward(x)
    BY <1>10, <1>11, Names2 DEF Downward
  <2>. QED  BY <2>1, <2>2
<1>13. ~ y.links["cd"]["far"].reset
  BY <1>9, Names2
<1>14. UpLevel(y) = UpLevel(x) /\ DownLevel(y) = DownLevel(x)
  <2>1. UpLevel(y) = UpLevel(x)
    BY <1>10, Names2 DEF UpLevel
  <2>2. DownLevel(y) = DownLevel(x)
    BY <1>8, <1>10, <1>13, Names2 DEF DownLevel
  <2>. QED  BY <2>1, <2>2
<1>15. UpLevel(x) # 0
  <2>1. Stands(x, "cd", "near") /\ Stands(x, "cd", "far")
    BY <1>7 DEF Stands
  <2>. QED  BY <2>1 DEF UpLevel, Level
<1>16. y.sticks["CR"].life # "none" /\ HasSocket(y, "CR")
  BY <1>1, <1>3, <1>9 DEF Gains, HasSocket, HasFd
<1>17. y.sticks["CL"].parsed
  <2>1. y.sticks["CL"].parsed = x.sticks["CL"].parsed
    BY <1>1, <1>3, Names2 DEF Gains
  <2>2. x.sticks["CL"].parsed
    BY DEF ReadyFor
  <2>. QED  BY <2>1, <2>2
<1>. QED  BY <1>2, <1>4, <1>6, <1>12, <1>14, <1>15, <1>16, <1>17

\* CL takes the address and gives the rest to CR.
LEMMA UnwrapFlows ==
  ASSUME Counted, NEW x, Sound(x), Flows(x), x.sticks["CL"].life = "live", x.sticks["CL"].parsed = FALSE,
         Unread(x, "CL") # <<>>,
         NEW v, v = Connect(Parsed(x), "CL", "CR", <<>>)
  PROVE  Flows(Sink(v, "CR", Tail(Unread(x, "CL")))) /\ v.hosts = x.hosts
<1>. DEFINE w == Parsed(x)
            data == Unread(x, "CL")
            rest == Tail(data)
            k == [v.sticks["CR"] EXCEPT !.wb = rest]
            z == SetStick(v, "CR", k)
<1>1. /\ x \in Relay /\ data \in Seq(Nat) /\ data = Waiting(x, "bc", "far") /\ Fresh(x) /\ "CR" \in Sticks
      /\ rest \in Seq(Nat)
  <2>1. data \in Seq(Nat) /\ "CR" \in Sticks
    BY StickFields, Names2
  <2>2. data = Waiting(x, "bc", "far")
    BY Names DEF Unread, Waiting
  <2>. QED  BY <2>1, <2>2 DEF Sound, Flows
<1>2. Sound(w) /\ ReadyFor(w, "CR") /\ w.hosts = x.hosts /\ Took(x, w)
  BY <1>1, ParsedDoes, ParsedTook
<1>. HIDE DEF w
<1>3. /\ Sound(v) /\ Fresh(v) /\ UpLevel(v) = UpLevel(x) /\ DownLevel(v) = DownLevel(x)
      /\ Upward(v) = Upward(w) /\ Downward(v) = Downward(x) /\ UpLevel(x) # 0
      /\ v.sticks["CR"].life # "none" /\ v.sticks["CL"].parsed /\ HasSocket(v, "CR") /\ v.hosts = x.hosts
      /\ UpLevel(w) = UpLevel(x) /\ Kept(v, "CR") = <<>>
  <2>1. Fresh(w) /\ v = Connect(w, "CL", "CR", <<>>)
    BY <1>2 DEF Took, w
  <2>2. /\ Sound(v) /\ Fresh(v) /\ UpLevel(v) = UpLevel(w) /\ DownLevel(v) = DownLevel(w)
        /\ Upward(v) = Upward(w) /\ Downward(v) = Downward(w) /\ UpLevel(w) # 0
        /\ v.sticks["CR"].life # "none" /\ v.sticks["CL"].parsed /\ HasSocket(v, "CR") /\ v.hosts = w.hosts
    BY <1>2, <2>1, SecondRightCells
  <2>3. Kept(w, "CR") = <<>>
    BY <1>2, <2>1, Names2 DEF Fresh, ReadyFor
  <2>4. Upward(v)[2] = Kept(v, "CR") /\ Upward(w)[2] = Kept(w, "CR")
    BY RowCells DEF Upward
  <2>. QED  BY <1>2, <2>2, <2>3, <2>4 DEF Took
<1>4. v \in Relay /\ v.sticks["CR"] \in Stick
  BY <1>1, <1>3, RelayFields DEF Sound
<1>. HIDE DEF data, rest
<1>5. k \in Stick /\ k.wb = rest /\ k.parsed = v.sticks["CR"].parsed /\ k.life = v.sticks["CR"].life
  BY <1>1, <1>4 DEF Stick
<1>6. Sink(v, "CR", rest) = z
  <2>1. v.sticks["CR"].wb = <<>>
    BY <1>3 DEF Kept
  <2>2. Sink(v, "CR", rest) = SetStick(v, "CR", [v.sticks["CR"] EXCEPT !.wb = <<>> \o rest])
    BY <1>3, <2>1 DEF Sink, SetStick
  <2>3. <<>> \o rest = rest
    BY <1>1
  <2>. QED  BY <2>2, <2>3
<1>. HIDE DEF k, z
<1>7. z \in Relay /\ z.links = v.links /\ z.sticks = [v.sticks EXCEPT !["CR"] = k]
  BY <1>1, <1>4, <1>5, SetFacts DEF z
<1>8. z.sticks["CR"] = k /\ \A t \in Sticks : t # "CR" => z.sticks[t] = v.sticks[t]
  BY <1>1, <1>4, <1>7, RelayFields
<1>9. SameMarks(v, z)
  BY <1>5, <1>7, <1>8 DEF SameMarks
<1>10. /\ \A l \in LinkNames, e \in Ends : Waiting(z, l, e) = Waiting(v, l, e)
       /\ Kept(z, "CR") = rest /\ \A t \in Sticks : t # "CR" => Kept(z, t) = Kept(v, t)
  BY <1>5, <1>7, <1>8 DEF Waiting, Kept
<1>11. Fresh(z)
  BY <1>3, <1>9, <1>10, SameMarksFresh
<1>12. UpLevel(z) = UpLevel(x) /\ DownLevel(z) = DownLevel(x) /\ Lag(z) = 0 /\ Early(z)
  <2>1. z.sticks["CL"].parsed
    BY <1>3, <1>8, Names2
  <2>. QED  BY <1>3, <1>9, <2>1, SameMarksFacts DEF Lag, Early
<1>13. /\ Upward(z)[2] = rest /\ \A p \in Places : p # 2 => Upward(z)[p] = Upward(v)[p]
       /\ Downward(z) = Downward(v)
  <2>1. Upward(z)[2] = rest /\ \A p \in Places : p # 2 => Upward(z)[p] = Upward(v)[p]
    BY <1>10, Names2, RowCells DEF Upward
  <2>2. Downward(z) = Downward(v)
    BY <1>10, Names2 DEF Downward
  <2>. QED  BY <2>1, <2>2
<1>14. /\ Upward(z)[3] = <<>> /\ \A p \in Places : p # 2 /\ p # 3 => Upward(z)[p] = Upward(x)[p]
       /\ Upward(x)[3] = data /\ Upward(x)[2] = <<>>
  <2>1. Upward(x)[3] = data /\ Upward(v)[2] = <<>>
    BY <1>1, <1>3, RowCells DEF Upward
  <2>. QED  BY <1>2, <1>3, <1>13, <2>1, RowCells DEF Took
<1>15. Lag(x) = 1
  <2>1. x.sticks["BR"].life # "none"
    <3>1. Link("BR") = "bc" /\ EndOf("BR") = "near" /\ Link("CL") = "bc" /\ EndOf("CL") = "far"
      BY Names
    <3>2. x.links["bc"]["far"].state # "none"
      BY <3>1, Names2 DEF Sound, Agrees, StateOf
    <3>3. x.links["bc"]["near"].state # "none"
      BY <3>2, Names2 DEF Sound, Shaped
    <3>. QED  BY <3>1, <3>3 DEF Sound, InTurn, StateOf
  <2>. QED  BY <2>1 DEF Lag
<1>16. UpLevel(x) \in Nat /\ UpLevel(x) >= 2 /\ UpLevel(x) <= 5
  <2>1. UpLevel(x) \in Nat /\ UpLevel(x) <= 5
    BY <1>1, RelayCells
  <2>2. Stands(x, "bc", "far")
    <3>1. Link("CL") = "bc" /\ EndOf("CL") = "far"
      BY Names
    <3>. QED  BY <3>1, Names2 DEF Sound, Agrees, StateOf, Stands
  <2>3. UpLevel(x) # 1
    BY <2>2 DEF UpLevel, Level
  <2>. QED  BY <1>3, <2>1, <2>3
<1>17. /\ Len(echoed) \in Nat /\ client.sent \in Nat /\ Upward(x) \in Rows /\ Upward(z) \in Rows
  BY <1>1, <1>7, RelayCells DEF Counted, Client
<1>18. Flow(Len(echoed), Upward(z), Lag(z), UpLevel(z), client.sent)
  <2>1. Flow(Len(echoed), Upward(x), 1, UpLevel(x), client.sent)
    BY <1>15 DEF Flows
  <2>2. Upward(z)[2] = Tail(Upward(x)[3]) /\ Upward(x)[3] # <<>>
    BY <1>13, <1>14 DEF rest, data
  <2>3. Flow(Len(echoed), Upward(z), 0, UpLevel(x), client.sent)
    BY <1>14, <1>16, <1>17, <2>1, <2>2, FlowUnwraps
  <2>. QED  BY <1>12, <2>3
<1>19. Flow(Len(client.got), Downward(z), 0, DownLevel(z), Len(echoed))
  BY <1>3, <1>12, <1>13 DEF Flows
<1>20. Flows(z)
  BY <1>11, <1>12, <1>18, <1>19 DEF Flows
<1>. QED  BY <1>3, <1>6, <1>20 DEF rest, data

\* C ends when CL cannot make CR: what CL has read is lost.
LEMMA EndParsedFlows ==
  ASSUME Counted, NEW x, Sound(x), Flows(x), x.sticks["CL"].life = "live", x.sticks["CL"].parsed = FALSE
  PROVE  Flows(End_(Parsed(x), "C"))
<1>. DEFINE w == Parsed(x)
            y == End_(w, "C")
<1>1. x \in Relay /\ Fresh(x) /\ "C" \in Hosts
  BY DEF Sound, Flows, Hosts
<1>2. Sound(w) /\ Took(x, w) /\ w.sticks["CL"].life = "live" /\ w.sticks["CL"].parsed = TRUE
  BY <1>1, ParsedDoes, ParsedTook
<1>. HIDE DEF w
<1>3. Fading(w, y) /\ Sound(y)
  BY <1>1, <1>2, EndFading, EndSound
<1>4. ~ Stands(y, "bc", "far")
  <2>1. w.links \in [LinkNames -> Wire] /\ \A l \in LinkNames : Shaped(w.links[l])
    BY <1>2, RelayFields DEF Sound
  <2>2. Link("CL") = "bc" /\ EndOf("CL") = "far" /\ Host("CL") = "C" /\ "CL" \in Sticks
    BY Names, Names2
  <2>3. StateIn(w.links, "CL") # "none"
    BY <1>2, <2>2 DEF Sound, Agrees, StateOf, StateIn
  <2>4. StateIn(CloseSocketsOf(w.links, "C"), "CL") = "closed"
    BY <1>1, <2>1, <2>2, <2>3, CloseSocketsFacts
  <2>5. y.links = CloseSocketsOf(w.links, "C")
    BY <1>2 DEF End_, Sound, Relay
  <2>. QED  BY <2>2, <2>4, <2>5 DEF StateIn, Stands
<1>. HIDE DEF y
<1>5. UpLevel(y) <= 1
  BY <1>4 DEF UpLevel, Level
<1>6. Lag(y) \in Nat /\ Early(y) /\ Fresh(y) /\ y \in Relay
  <2>1. y.sticks["CL"].parsed
    BY <1>2, <1>3, Names2 DEF Fading
  <2>2. Fresh(y)
    BY <1>2, <1>3, FadingFresh DEF Took
  <2>. QED  BY <1>3, <2>1, <2>2 DEF Early, Lag, Sound
<1>7. /\ UpLevel(y) <= UpLevel(w) /\ Follows(Upward(w), Upward(y), UpLevel(y))
      /\ DownLevel(y) <= DownLevel(w) /\ Follows(Downward(w), Downward(y), DownLevel(y))
  BY <1>3, FadingLevels
<1>8. /\ Len(echoed) \in Nat /\ Len(client.got) \in Nat /\ client.sent \in Nat
      /\ Upward(x) \in Rows /\ Downward(x) \in Rows /\ Lag(x) \in Nat
      /\ UpLevel(x) \in Nat /\ UpLevel(x) <= 5 /\ DownLevel(x) \in Nat /\ DownLevel(x) <= 5
      /\ UpLevel(y) \in Nat /\ DownLevel(y) \in Nat
  BY <1>1, <1>6, RelayCells DEF Counted, Client
<1>9. Follows(Upward(x), Upward(y), UpLevel(y))
  <2>1. \A k \in Places : k <= UpLevel(y) + 1 => k # 3
    BY <1>5, <1>8
  <2>2. Upward(w)[1] = Upward(x)[1]
    BY <1>2, RowCells DEF Took
  <2>. QED  BY <1>2, <1>7, <2>1, <2>2 DEF Follows, Took
<1>10. Flow(Len(echoed), Upward(y), Lag(y), UpLevel(y), client.sent)
  <2>1. Flow(Len(echoed), Upward(x), Lag(x), UpLevel(x), client.sent)
    BY DEF Flows
  <2>2. ~ UpLevel(y) >= 2 /\ UpLevel(y) # 5 /\ client.sent <= client.sent
    BY <1>5, <1>8
  <2>3. UpLevel(y) <= UpLevel(x)
    BY <1>2, <1>7 DEF Took
  <2>. QED  BY <1>6, <1>8, <1>9, <2>1, <2>2, <2>3, FlowBreaks
<1>11. Flow(Len(client.got), Downward(y), 0, DownLevel(y), Len(echoed))
  <2>1. Flow(Len(client.got), Downward(x), 0, DownLevel(x), Len(echoed))
    BY DEF Flows
  <2>2. DownLevel(y) <= DownLevel(x) /\ Follows(Downward(x), Downward(y), DownLevel(y))
    BY <1>2, <1>7 DEF Took
  <2>3. (DownLevel(y) = 5 => DownLevel(x) = 5) /\ Len(echoed) <= Len(echoed) /\ 0 \in Nat
    BY <1>8, <2>2
  <2>. QED  BY <1>8, <2>1, <2>2, <2>3, FlowBreaks
<1>12. Flows(y)
  BY <1>6, <1>10, <1>11 DEF Flows
<1>. QED  BY <1>12 DEF y, w

\* CL takes the address and hands on what came with it.
LEMMA ReadMetaFlows ==
  ASSUME Counted, NEW x, Sound(x), Flows(x), x.sticks["CL"].life = "live", x.sticks["CL"].parsed = FALSE,
         Unread(x, "CL") # <<>>, ~ Gone(x, "CL"), NEW y \in ReadMeta(x)
  PROVE  Flows(y)
<1>. DEFINE rest == Tail(Unread(x, "CL"))
<1>1. PICK v \in CreateRightStick(Parsed(x)) :
        y = IF Gone(v, "CL") THEN v ELSE ReadOn(Sink(v, "CR", rest), "CL")
  BY DEF ReadMeta, Parsed
<1>2. CASE v = Connect(Parsed(x), "CL", "CR", <<>>)
  <2>1. Flows(Sink(v, "CR", rest)) /\ v.hosts = x.hosts
    BY <1>2, UnwrapFlows
  <2>2. Sound(v)
    <3>1. Sound(Parsed(x)) /\ ReadyFor(Parsed(x), "CR")
      BY ParsedDoes
    <3>2. <<>> \in Seq(Nat)
      OBVIOUS
    <3>. QED  BY <1>2, <3>1, <3>2, Names, NewRightsSound
  <2>3. "CR" \in Sticks /\ "CL" \in Sticks /\ rest \in Seq(Nat)
    BY StickFields, Names2
  <2>. HIDE DEF rest
  <2>4. Sound(Sink(v, "CR", rest))
    BY <2>2, <2>3, SinkSound
  <2>5. Fading(Sink(v, "CR", rest), ReadOn(Sink(v, "CR", rest), "CL")) /\ Sink(v, "CR", rest) \in Relay
    BY <2>3, <2>4, ReadOnFading DEF Sound
  <2>6. y = ReadOn(Sink(v, "CR", rest), "CL")
    BY <1>1, <2>1 DEF Gone
  <2>. QED  BY <2>1, <2>5, <2>6, FadingFlows
<1>3. CASE v = End_(Parsed(x), "C")
  <2>1. Sound(Parsed(x))
    BY ParsedDoes
  <2>2. Gone(v, "CL")
    <3>1. Host("CL") = "C" /\ Parsed(x) \in Relay /\ "C" \in Hosts
      BY <2>1, Names DEF Sound, Hosts
    <3>2. v.hosts["C"] = Destroy(Parsed(x).hosts["C"]) /\ Parsed(x).hosts["C"] \in Context(Sticks)
      BY <1>3, <3>1 DEF End_, Relay
    <3>. QED  BY <3>1, <3>2 DEF Gone, Destroy, Context
  <2>. QED  BY <1>1, <1>3, <2>2, EndParsedFlows
<1>. QED  BY <1>1, <1>2, <1>3 DEF CreateRightStick

-------------------------------------------------------------------------------
(* What the steps of the hosts do to the data. *)

\* B accepts the client.
LEMMA AcceptBFlows ==
  ASSUME Counted, Sound(hx), Flows(hx), AcceptB  PROVE Flows(hx')
<1>. DEFINE x == NewLeft(hx, "BL")
<1>1. hx.links["ab"]["far"].state = "queued" /\ \E y \in BHenLeftStick(hx) : hx' = y
  BY DEF AcceptB, HostDoes
<1>2. /\ hx \in Relay /\ "BL" \in Sticks /\ "BL" \in {"BL", "CL"} /\ "ab" \in LinkNames /\ Link("BL") = "ab"
      /\ Mate("BR") = "BL" /\ Mate("BL") = "BR" /\ Fresh(hx) /\ "BR" \in {"BR", "CR"} /\ "BR" # "CR"
  BY Names DEF Sound, Sticks, LinkNames, Flows
<1>3. Sound(x) /\ x.sticks["BL"].life = "live" /\ x.sticks["BR"].life = "none"
  BY <1>1, <1>2, NewLeftSound
<1>4. Fading(hx, x)
  BY <1>1, <1>2, NewLeftFading
<1>5. [hx EXCEPT !.links["ab"] = Accept(@), !.sticks["BL"] = [NewStick EXCEPT !.own = "connected"]] = x
  BY <1>2 DEF NewLeft, LeftStick, SetLink, SetStick, Relay
<1>. HIDE DEF x
<1>6. Flows(x)
  BY <1>2, <1>4, FadingFlows
<1>7. ReadyFor(x, "BR")
  BY <1>2, <1>3 DEF ReadyFor
<1>8. <<Meta>> \in Seq(Nat)
  BY DEF Meta
<1>9. ASSUME NEW z, Sound(z), Flows(z)
      PROVE  Flows(CloseFd(z, "BL"))
  <2>1. z \in Relay
    BY <1>9 DEF Sound
  <2>2. Fading(z, CloseFd(z, "BL"))
    BY <1>2, <2>1, CloseFading
  <2>. QED  BY <1>9, <2>1, <2>2, FadingFlows
<1>10. Flows(CloseFd(x, "BL"))
  BY <1>3, <1>6, <1>9
<1>11. Flows(CloseFd(FailToConnect(x, "BR", <<Meta>>), "BL")) /\ Flows(Connect(x, "BL", "BR", <<Meta>>))
  <2>1. Sound(FailToConnect(x, "BR", <<Meta>>))
    BY <1>2, <1>3, <1>7, <1>8, NewRightsSound
  <2>2. Flows(FailToConnect(x, "BR", <<Meta>>)) /\ Flows(Connect(x, "BL", "BR", <<Meta>>))
    BY <1>3, <1>6, <1>7, FirstRightFlows
  <2>. QED  BY <1>9, <2>1, <2>2
<1>12. BHenLeftStick(hx) = { CloseFd(x, "BL"), CloseFd(FailToConnect(x, "BR", <<Meta>>), "BL"),
                             Connect(x, "BL", "BR", <<Meta>>) }
  BY <1>5 DEF BHenLeftStick
<1>. QED  BY <1>1, <1>10, <1>11, <1>12

\* C accepts B.
LEMMA AcceptCFlows ==
  ASSUME Counted, Sound(hx), Flows(hx), AcceptC  PROVE Flows(hx')
<1>1. hx.links["bc"]["far"].state = "queued" /\ hx' = CHenLeftStick(hx)
  BY DEF AcceptC, HostDoes
<1>2. hx \in Relay /\ "CL" \in {"BL", "CL"} /\ Link("CL") = "bc" /\ Fresh(hx) /\ "bc" \in LinkNames /\ "CL" \in Sticks
  BY Names, Names2 DEF Sound, Flows
<1>3. CHenLeftStick(hx) = NewLeft(hx, "CL")
  BY <1>2 DEF CHenLeftStick, NewLeft, LeftStick, SetLink, SetStick, Relay
<1>4. Fading(hx, NewLeft(hx, "CL"))
  BY <1>1, <1>2, NewLeftFading
<1>. QED  BY <1>1, <1>2, <1>3, <1>4, FadingFlows

\* A left stick is called.
LEMMA LeftOnEventFlows ==
  ASSUME Counted, Sound(hx), Flows(hx), NEW s \in Sticks, LeftOnEvent(s)  PROVE Flows(hx')
<1>1. s \in {"BL", "CL"} /\ hx.sticks[s].life = "live"
  BY DEF LeftOnEvent, Registered
<1>2. PICK y \in IF "IN" \in EventsOf(s) THEN LeftOnReadEvent(hx, s) ELSE {hx} :
        /\ hx' = IF "OUT" \in EventsOf(s) /\ ~ Gone(y, s) THEN OnWriteEvent(y, s) ELSE y
        /\ ~ Gone(hx, s)
  BY DEF LeftOnEvent, HostDoes, InLoop, Gone
<1>3. Sound(y) /\ Flows(y)
  <2>1. CASE y = hx
    BY <2>1
  <2>2. CASE y \in LeftOnReadEvent(hx, s)
    <3>1. CASE s = "CL" /\ ~ hx.sticks[s].parsed /\ Unread(hx, s) # <<>>
      <4>1. y \in ReadMeta(hx)
        BY <2>2, <3>1 DEF LeftOnReadEvent
      <4>2. hx.sticks["CL"].parsed = FALSE
        BY <3>1, StickFields DEF Stick
      <4>. QED  BY <1>1, <1>2, <3>1, <4>1, <4>2, ReadMetaSound, ReadMetaFlows
    <3>2. CASE ~ (s = "CL" /\ ~ hx.sticks[s].parsed /\ Unread(hx, s) # <<>>)
      <4>1. y = OnReadEvent(hx, s)
        BY <2>2, <3>2 DEF LeftOnReadEvent
      <4>. QED  BY <4>1, OnReadEventSound, OnReadEventFlows
    <3>. QED  BY <3>1, <3>2
  <2>. QED  BY <1>2, <2>1, <2>2
<1>. QED  BY <1>2, <1>3, OnWriteEventFlows

\* A right stick is called.
LEMMA RightOnEventFlows ==
  ASSUME Counted, Sound(hx), Flows(hx), NEW s \in Sticks, RightOnEvent(s)  PROVE Flows(hx')
<1>. DEFINE closed == IF EventsOf(s) \cap {"RDHUP", "HUP"} # {} THEN CloseFd(hx, s) ELSE hx
            read == IF "IN" \in EventsOf(s) THEN OnReadEvent(closed, s) ELSE closed
<1>1. hx' = IF "OUT" \in EventsOf(s) THEN OnWriteEvent(RightConnected(read, s), s) ELSE read
  BY DEF RightOnEvent, HostDoes
<1>2. Sound(closed) /\ Flows(closed)
  <2>1. hx \in Relay
    BY DEF Sound
  <2>2. Fading(hx, CloseFd(hx, s))
    BY <2>1, CloseFading
  <2>. QED  BY <2>1, <2>2, CloseFdSound, FadingFlows
<1>. HIDE DEF closed
<1>3. Sound(read) /\ Flows(read)
  BY <1>2, OnReadEventSound, OnReadEventFlows
<1>. HIDE DEF read
<1>4. Sound(RightConnected(read, s)) /\ Flows(RightConnected(read, s))
  <2>1. read \in Relay
    BY <1>3 DEF Sound
  <2>2. Fading(read, RightConnected(read, s))
    BY <2>1, RightConnectedFading
  <2>. QED  BY <1>3, <2>1, <2>2, RightConnectedSound, FadingFlows
<1>. QED  BY <1>1, <1>3, <1>4, OnWriteEventFlows

\* Every step of a host.
LEMMA HostServesFlows ==
  ASSUME Counted, Sound(hx), Flows(hx), NEW h \in Hosts, HostServes(h) \/ SignalHost(h)
  PROVE  Flows(hx')
<1>1. hx \in Relay /\ \A s \in SticksOf(h) : s \in Sticks
  BY DEF Sound, SticksOf
<1>2. CASE (h = "B" /\ AcceptB) \/ (h = "C" /\ AcceptC)
  BY <1>2, AcceptBFlows, AcceptCFlows
<1>3. CASE \E s \in SticksOf(h) : LeftOnEvent(s) \/ RightOnEvent(s)
  BY <1>1, <1>3, LeftOnEventFlows, RightOnEventFlows
<1>4. CASE RunTasks(h)
  BY <1>1, <1>4, RunTasksFading, FadingFlows
<1>5. CASE HostExits(h)
  <2>1. hx' = End_(hx, h)
    BY <1>5 DEF HostExits, HostDoes
  <2>. QED  BY <1>1, <2>1, EndFading, FadingFlows
<1>6. CASE SignalHost(h)
  BY <1>1, <1>6, SignalHostFading, FadingFlows
<1>. QED  BY <1>2, <1>3, <1>4, <1>5, <1>6 DEF HostServes

-------------------------------------------------------------------------------
(* The two ends of the way. *)

\* The reader takes what waits for it.
LEMMA FlowTakes ==
  ASSUME NEW n \in Nat, NEW q \in Rows, NEW lag \in Nat, NEW w \in Nat, w <= 5, NEW t \in Nat,
         Flow(n, q, lag, w, t), NEW y \in Rows, y[1] = <<>>, \A k \in Places : k # 1 => y[k] = q[k]
  PROVE  /\ Run(q[1], n) /\ n + Len(q[1]) <= t
         /\ Flow(n + Len(q[1]), y, lag, w, t)
<1>1. PICK a \in Int, b \in Int, c \in Int, d \in Int : Numbers(n, a, b, c, d, q, lag, w, t)
  BY FlowNumbers
<1>2. y[2] = q[2] /\ y[3] = q[3] /\ y[4] = q[4] /\ y[5] = q[5]
  BY RowCells
<1>. DEFINE m == n + Len(q[1])
<1>3. Len(q[1]) \in Nat /\ m \in Nat /\ m + 0 = m
  <2>1. Len(q[1]) \in Nat
    BY RowCells, RowFields
  <2>. QED  BY <2>1
<1>4. Run(q[1], n) /\ m <= t /\ (w >= 1 => a = m)
  BY <1>1 DEF Numbers
<1>5. Len(<<>>) = 0 /\ Run(<<>>, m)
  BY DEF Run
<1>. HIDE DEF m
<1>6. Numbers(m, a, b, c, d, y, lag, w, t)
  <2>1. /\ Run(y[1], m) /\ m + Len(y[1]) <= t /\ (w >= 1 => a = m + Len(y[1]))
    BY <1>3, <1>4, <1>5
  <2>. QED  BY <1>1, <1>2, <2>1, Zenon DEF Numbers
<1>7. Flow(m, y, lag, w, t)
  BY <1>3, <1>6, FlowNumbers
<1>. QED  BY <1>4, <1>7 DEF m

\* The writer adds what comes next; it does not matter when the row is broken.
LEMMA FlowAdds ==
  ASSUME NEW n \in Nat, NEW q \in Rows, NEW lag \in Nat, NEW w \in Nat, w <= 5, w # 4, NEW t \in Nat,
         Flow(n, q, lag, w, t), NEW u \in Seq(Nat), Run(u, t),
         NEW y \in Rows, w = 5 => y[5] = q[5] \o u, \A k \in Places : k # 5 => y[k] = q[k]
  PROVE  Flow(n, y, lag, w, t + Len(u))
<1>. DEFINE s == t + Len(u)
<1>1. s \in Nat /\ t <= s /\ Len(u) \in Nat
  OBVIOUS
<1>2. CASE w # 5
  <2>1. \A k \in Places : k <= w + 1 => k # 5
    BY <1>2, PlacesAre
  <2>2. y[1] = q[1]
    BY RowCells
  <2>3. Follows(q, y, w)
    BY <2>1, <2>2 DEF Follows
  <2>. HIDE DEF s
  <2>4. Flow(n, y, lag, w, s)
    BY <1>1, <1>2, <2>3, FlowBreaks
  <2>. QED  BY <2>4 DEF s
<1>3. CASE w = 5
  <2>1. PICK a \in Int, b \in Int, c \in Int, d \in Int : Numbers(n, a, b, c, d, q, lag, 5, t)
    BY <1>3, FlowNumbers
  <2>2. y[1] = q[1] /\ y[2] = q[2] /\ y[3] = q[3] /\ y[4] = q[4] /\ y[5] = q[5] \o u
    <3>1. 1 # 5 /\ 2 # 5 /\ 3 # 5 /\ 4 # 5
      OBVIOUS
    <3>2. 1 \in Places /\ 2 \in Places /\ 3 \in Places /\ 4 \in Places
      BY RowCells
    <3>. QED  BY <1>3, <3>1, <3>2
  <2>. DEFINE l1 == Len(q[1])
              l2 == Len(q[2])
              l3 == Len(q[3])
              l4 == Len(q[4])
              l5 == Len(q[5])
  <2>3. q[5] \in Seq(Nat) /\ l1 \in Nat /\ l2 \in Nat /\ l3 \in Nat /\ l4 \in Nat /\ l5 \in Nat
    BY RowCells, RowFields
  <2>4. Len(y[5]) = l5 + Len(u)
    BY <2>2, <2>3, ConcatProperties
  <2>5. /\ Run(q[1], n) /\ n + l1 <= t /\ a = n + l1 /\ Run(q[2], a) /\ a + l2 <= t
        /\ b = a + l2 - lag /\ Run(q[3], b) /\ b + l3 <= t
        /\ c = b + l3 /\ Run(q[4], c) /\ c + l4 <= t
        /\ d = c + l4 /\ Run(q[5], d) /\ d + l5 = t
    BY <2>1 DEF Numbers
  <2>6. Run(y[5], d)
    BY <2>2, <2>3, <2>5, RunConcat
  <2>7. n + l1 <= s /\ a + l2 <= s /\ b + l3 <= s /\ c + l4 <= s /\ d + (l5 + Len(u)) = s /\ s <= s
    <3>. DEFINE e == Len(u)
    <3>1. e \in Nat /\ s = t + e
      BY <1>1
    <3>2. n + l1 <= t /\ a + l2 <= t /\ b + l3 <= t /\ c + l4 <= t /\ d + l5 = t
      BY <2>5
    <3>. HIDE DEF e, s, l1, l2, l3, l4, l5
    <3>. QED  BY <2>3, <3>1, <3>2 DEF e
  <2>. HIDE DEF s
  <2>8. Numbers(n, a, b, c, d, y, lag, 5, s)
    BY <2>2, <2>4, <2>5, <2>6, <2>7 DEF Numbers
  <2>9. 5 \in Nat /\ 5 <= 5
    OBVIOUS
  <2>10. Flow(n, y, lag, 5, s)
    BY <1>1, <2>8, <2>9, FlowNumbers
  <2>. QED  BY <1>3, <2>10 DEF s
<1>. QED  BY <1>2, <1>3

\* What is in a row that holds is among what was sent and has not arrived.
LEMMA FlowBounds ==
  ASSUME NEW n \in Nat, NEW q \in Rows, NEW t \in Nat, Flow(n, q, 0, 5, t)
  PROVE  n + Len(q[5]) <= t
<1>1. 5 \in Nat /\ 5 <= 5 /\ 0 \in Nat
  OBVIOUS
<1>2. PICK a \in Int, b \in Int, c \in Int, d \in Int : Numbers(n, a, b, c, d, q, 0, 5, t)
  BY <1>1, FlowNumbers
<1>. DEFINE l1 == Len(q[1])
            l2 == Len(q[2])
            l3 == Len(q[3])
            l4 == Len(q[4])
            l5 == Len(q[5])
<1>3. l1 \in Nat /\ l2 \in Nat /\ l3 \in Nat /\ l4 \in Nat /\ l5 \in Nat
  BY RowCells, RowFields
<1>4. a = n + l1 /\ b = a + l2 - 0 /\ c = b + l3 /\ d = c + l4 /\ d + l5 = t
  BY <1>2 DEF Numbers
<1>. HIDE DEF l1, l2, l3, l4, l5
<1>5. n + l5 <= t
  BY <1>3, <1>4
<1>. QED  BY <1>5 DEF l5

\* The data or the marks of one link change.
LEMMA OneLink ==
  ASSUME NEW x \in Relay, NEW l \in LinkNames, NEW k, SameStates(x.links[l], k),
         \A e \in Ends : k[e].reset = x.links[l][e].reset
  PROVE  LET y == SetLink(x, l, k)
         IN  /\ y \in Relay /\ SameMarks(x, y) /\ y.sticks = x.sticks
             /\ y.links[l] = k /\ \A n \in LinkNames : n # l => y.links[n] = x.links[n]
<1>. DEFINE y == SetLink(x, l, k)
<1>1. k \in Wire /\ \A e \in Ends : k[e].state = x.links[l][e].state
  BY DEF SameStates
<1>2. y \in Relay /\ y.sticks = x.sticks /\ y.links = [x.links EXCEPT ![l] = k]
  BY <1>1, SetFacts
<1>. HIDE DEF y
<1>3. y.links[l] = k /\ \A n \in LinkNames : n # l => y.links[n] = x.links[n]
  BY <1>2, RelayFields
<1>4. SameMarks(x, y)
  BY <1>1, <1>2, <1>3 DEF SameMarks
<1>. QED  BY <1>2, <1>3, <1>4 DEF y

\* Of two assignments to a link the second counts.
LEMMA SetLinkTwice ==
  ASSUME NEW x \in Relay, NEW l \in LinkNames, NEW j \in Wire, NEW k
  PROVE  SetLink(SetLink(x, l, j), l, k) = SetLink(x, l, k)
BY DEF SetLink, Relay

\* A queue is emptied.
LEMMA ConsumeDoes ==
  ASSUME NEW l \in Wire, NEW e \in Ends
  PROVE  LET k == Consume(l, e, Len(l[e].in))
         IN  /\ SameStates(l, k) /\ k[e].in = <<>> /\ k[e].reset = l[e].reset /\ k[Peer(e)] = l[Peer(e)]
             /\ \A f \in Ends : k[f].reset = l[f].reset
<1>. DEFINE j == l[e]
            u == SubSeq(j.in, Len(j.in) + 1, Len(j.in))
            i == [j EXCEPT !.in = u]
            k == Consume(l, e, Len(l[e].in))
<1>1. j \in WireEnd /\ j.in \in Seq(Nat) /\ Len(j.in) \in 0 .. Len(j.in) /\ Peer(e) \in Ends /\ Peer(e) # e
  <2>1. j \in WireEnd /\ j.in \in Seq(Nat) /\ Peer(e) \in Ends /\ Peer(e) # e
    BY WireFields
  <2>. QED  BY <2>1
<1>2. k = [l EXCEPT ![e] = i] /\ SameStates(l, k)
  BY <1>1, LinkData DEF Consume
<1>3. u = <<>>
  BY <1>1, WholeQueue
<1>4. i.in = u /\ i.reset = j.reset
  BY <1>1 DEF WireEnd, End
<1>5. k[e] = i /\ k[Peer(e)] = l[Peer(e)]
  <2>. HIDE DEF i, k
  <2>. QED  BY <1>1, <1>2 DEF Wire
<1>6. \A f \in Ends : f = e \/ f = Peer(e)
  BY DEF Ends, Peer
<1>. HIDE DEF i, k, u
<1>7. SameStates(l, k) /\ k[e].in = <<>> /\ k[e].reset = l[e].reset /\ k[Peer(e)] = l[Peer(e)]
  BY <1>2, <1>3, <1>4, <1>5
<1>8. \A f \in Ends : k[f].reset = l[f].reset
  BY <1>6, <1>7
<1>. QED  BY <1>7, <1>8 DEF k

\* The levels that are reached while the writer's connection stands.
LEMMA FullLevels ==
  ASSUME NEW x
  PROVE  /\ Stands(x, "ab", "near") => UpLevel(x) # 4
         /\ UpLevel(x) = 5 => Stands(x, "ab", "far")
         /\ Stands(x, "cd", "far") /\ ~ x.links["cd"]["far"].reset => DownLevel(x) # 4
         /\ DownLevel(x) = 5 => Stands(x, "cd", "near") /\ ~ x.links["cd"]["far"].reset
BY DEF UpLevel, DownLevel, Level

-------------------------------------------------------------------------------
(* What the client and the server do to the data. *)

\* What the two programs at the ends know is in order, and the client waits for answers.
FlowInv ==
  /\ HenInv /\ Flows(hx)
  /\ Run(echoed, 0) /\ Run(client.got, 0) /\ client.sent <= Len(client.got) + Outstanding

\* Steps that the client and the server take no part in.
LEMMA QuietKeeps ==
  ASSUME FlowInv, HenInv', Flows(hx'), UNCHANGED <<client, echoed>>
  PROVE  FlowInv'
<1>1. client' = client /\ echoed' = echoed
  OBVIOUS
<1>2. Flows(hx)'
  BY <1>1 DEF Flows, Early
<1>. QED  BY <1>1, <1>2 DEF FlowInv

\* Steps that only lose data.
LEMMA FadingKeeps ==
  ASSUME FlowInv, HenInv', Fading(hx, hx'), UNCHANGED <<client, echoed>>
  PROVE  FlowInv'
<1>1. Counted /\ hx \in Relay /\ Flows(hx)
  BY DEF FlowInv, HenInv, Counted, Sound
<1>2. Flows(hx')
  BY <1>1, FadingFlows
<1>. QED  BY <1>2, QuietKeeps

\* An end is closed.
LEMMA CloseKeeps ==
  ASSUME FlowInv, HenInv', NEW l \in LinkNames, NEW e \in Ends,
         hx' = SetLink(hx, l, Close(hx.links[l], e)), UNCHANGED <<client, echoed>>
  PROVE  FlowInv'
<1>1. hx \in Relay
  BY DEF FlowInv, HenInv, Sound
<1>2. Fades(hx.links[l], Close(hx.links[l], e))
  BY <1>1, RelayFields, CloseFades
<1>3. Fading(hx, hx')
  BY <1>1, <1>2, LinkFading
<1>. QED  BY <1>3, FadingKeeps

\* Only one queue of a link differs.
LEMMA UpwardEnd ==
  ASSUME NEW x, NEW y, y.sticks = x.sticks,
         \A l \in LinkNames : l # "ab" => y.links[l] = x.links[l], y.links["ab"]["near"].in = x.links["ab"]["near"].in
  PROVE  Downward(y) = Downward(x) /\ \A k \in Places : k # 5 => Upward(y)[k] = Upward(x)[k]
<1>1. /\ Waiting(y, "ab", "near") = Waiting(x, "ab", "near")
      /\ Waiting(y, "bc", "near") = Waiting(x, "bc", "near") /\ Waiting(y, "bc", "far") = Waiting(x, "bc", "far")
      /\ Waiting(y, "cd", "near") = Waiting(x, "cd", "near") /\ Waiting(y, "cd", "far") = Waiting(x, "cd", "far")
      /\ \A s \in Sticks : Kept(y, s) = Kept(x, s)
  BY Names2 DEF Waiting, Kept
<1>. QED  BY <1>1, Names2, RowCells DEF Upward, Downward

\* The same of the queue the client reads.
LEMMA DownwardStart ==
  ASSUME NEW x, NEW y, y.sticks = x.sticks,
         \A l \in LinkNames : l # "ab" => y.links[l] = x.links[l], y.links["ab"]["far"].in = x.links["ab"]["far"].in
  PROVE  Upward(y) = Upward(x) /\ \A k \in Places : k # 1 => Downward(y)[k] = Downward(x)[k]
<1>1. /\ Waiting(y, "ab", "far") = Waiting(x, "ab", "far")
      /\ Waiting(y, "bc", "near") = Waiting(x, "bc", "near") /\ Waiting(y, "bc", "far") = Waiting(x, "bc", "far")
      /\ Waiting(y, "cd", "near") = Waiting(x, "cd", "near") /\ Waiting(y, "cd", "far") = Waiting(x, "cd", "far")
      /\ \A s \in Sticks : Kept(y, s) = Kept(x, s)
  BY Names2 DEF Waiting, Kept
<1>. QED  BY <1>1, Names2, RowCells DEF Upward, Downward

\* The same of the queue the server reads.
LEMMA UpwardStart ==
  ASSUME NEW x, NEW y, y.sticks = x.sticks,
         \A l \in LinkNames : l # "cd" => y.links[l] = x.links[l], y.links["cd"]["near"].in = x.links["cd"]["near"].in
  PROVE  Downward(y) = Downward(x) /\ \A k \in Places : k # 1 => Upward(y)[k] = Upward(x)[k]
<1>1. /\ Waiting(y, "cd", "near") = Waiting(x, "cd", "near")
      /\ Waiting(y, "bc", "near") = Waiting(x, "bc", "near") /\ Waiting(y, "bc", "far") = Waiting(x, "bc", "far")
      /\ Waiting(y, "ab", "near") = Waiting(x, "ab", "near") /\ Waiting(y, "ab", "far") = Waiting(x, "ab", "far")
      /\ \A s \in Sticks : Kept(y, s) = Kept(x, s)
  BY Names2 DEF Waiting, Kept
<1>. QED  BY <1>1, Names2, RowCells DEF Upward, Downward

\* The same of the queue the server sends to.
LEMMA DownwardEnd ==
  ASSUME NEW x, NEW y, y.sticks = x.sticks,
         \A l \in LinkNames : l # "cd" => y.links[l] = x.links[l], y.links["cd"]["far"].in = x.links["cd"]["far"].in
  PROVE  Upward(y) = Upward(x) /\ \A k \in Places : k # 5 => Downward(y)[k] = Downward(x)[k]
<1>1. /\ Waiting(y, "cd", "far") = Waiting(x, "cd", "far")
      /\ Waiting(y, "bc", "near") = Waiting(x, "bc", "near") /\ Waiting(y, "bc", "far") = Waiting(x, "bc", "far")
      /\ Waiting(y, "ab", "near") = Waiting(x, "ab", "near") /\ Waiting(y, "ab", "far") = Waiting(x, "ab", "far")
      /\ \A s \in Sticks : Kept(y, s) = Kept(x, s)
  BY Names2 DEF Waiting, Kept
<1>. QED  BY <1>1, Names2, RowCells DEF Upward, Downward

\* A message is sent: it is the next after those on the way, if B is still there.
LEMMA SendMessageKeeps ==
  ASSUME FlowInv, HenInv', SendMessage  PROVE FlowInv'
<1>. DEFINE ab == hx.links["ab"]
            next == client.sent + 1
            u == <<next>>
            k == Send(ab, "near", u)
            n == Taken(ab, "near", Len(u))
<1>1. /\ Counted /\ hx \in Relay /\ Sound(hx) /\ Flows(hx) /\ Fresh(hx) /\ Early(hx)
      /\ Run(echoed, 0) /\ Run(client.got, 0)
      /\ client.sent \in Nat /\ client.got \in Seq(Nat) /\ echoed \in Seq(Nat)
  BY DEF FlowInv, HenInv, Counted, Sound, Flows, Client
<1>2. ab \in Wire /\ "ab" \in LinkNames /\ "near" \in Ends /\ "far" \in Ends /\ Peer("near") = "far"
  <2>1. ab \in Wire
    BY <1>1, RelayFields, Names2
  <2>. QED  BY <2>1, Names2, WireFields
<1>3. CASE hx' = SetLink(hx, "ab", Close(ab, "near")) /\ client' = client /\ echoed' = echoed
  BY <1>2, <1>3, CloseKeeps
<1>4. CASE /\ hx' = SetLink(hx, "ab", k) /\ client' = [client EXCEPT !.sent = next] /\ echoed' = echoed
           /\ next - Len(client.got) <= Outstanding /\ HasFd(ab, "near") /\ ~ ab["near"].reset
           /\ RoomFor(ab, "near") > 0
  <2>1. client'.sent = next /\ client'.got = client.got /\ next \in Nat /\ next <= Len(client.got) + Outstanding
    <3>1. client'.sent = next /\ client'.got = client.got
      BY <1>1, <1>4 DEF Counted, Client
    <3>2. next \in Nat /\ next <= Len(client.got) + Outstanding
      BY <1>1, <1>4, HenAssumption
    <3>. QED  BY <3>1, <3>2
  <2>2. u \in Seq(Nat) /\ Len(u) = 1 /\ Run(u, client.sent) /\ SubSeq(u, 1, Len(u)) = u /\ client.sent + Len(u) = next
    <3>1. u \in Seq(Nat) /\ Len(u) = 1
      BY <2>1
    <3>2. Run(u, client.sent)
      BY <3>1 DEF Run
    <3>. HIDE DEF u
    <3>. QED  BY <3>1, <3>2, WholeQueue
  <2>3. /\ ab["far"].state # "none" /\ ab["near"].state = "open"
    <3>1. ab["far"].state # "none" /\ Shaped(ab)
      BY <1>1, <1>2 DEF Fresh, Sound
    <3>. QED  BY <1>4, <3>1 DEF Shaped, HasFd
  <2>. HIDE DEF u, next
  <2>4. n = 1
    <3>1. RoomFor(ab, "near") \in Int
      <4>1. Len(ab["far"].in) \in 0 .. Room
        BY <1>2, WireFields
      <4>. QED  BY <1>2, <4>1, RoomAssumption DEF RoomFor
    <3>2. Min({1, RoomFor(ab, "near")}) = 1
      <4>. DEFINE r == RoomFor(ab, "near")
      <4>1. r \in Int /\ r > 0 /\ 1 \in Int
        BY <1>4, <3>1
      <4>. HIDE DEF r
      <4>2. Min({1, r}) = IF 1 <= r THEN 1 ELSE r
        BY <4>1, MinOfTwo
      <4>3. Min({1, r}) = 1
        BY <4>1, <4>2
      <4>. QED  BY <4>3 DEF r
    <3>. QED  BY <1>4, <2>2, <2>3, <3>2 DEF Taken
  <2>5. /\ k \in Wire /\ SameStates(ab, k)
        /\ ab["far"].state = "closed" => k = [ab EXCEPT !["near"] = ResetEnd(@)]
        /\ ab["far"].state # "closed" => /\ k["near"] = ab["near"] /\ k["far"].in = ab["far"].in \o u
                                         /\ k["far"].reset = ab["far"].reset
    <3>1. k \in Wire /\ SameStates(ab, k)
      BY <1>2, <2>2, SendKeepsStates DEF SameStates
    <3>2. ab["far"].state = "closed" => k = [ab EXCEPT !["near"] = ResetEnd(@)]
      BY <1>2, <2>4 DEF Send
    <3>3. ab["far"].state # "closed" => /\ k["near"] = ab["near"] /\ k["far"].in = ab["far"].in \o u
                                        /\ k["far"].reset = ab["far"].reset
      <4>. DEFINE p == Peer("near")
      <4>1. n # 0 /\ ab[p].state # "closed" =>
              /\ k["near"] = ab["near"] /\ k[p].in = ab[p].in \o SubSeq(u, 1, n)
              /\ k[p].state = ab[p].state /\ k[p].reset = ab[p].reset
        BY <1>2, <2>2, SendDoes
      <4>2. n # 0 /\ SubSeq(u, 1, n) = u /\ p = "far"
        BY <1>2, <2>2, <2>4
      <4>. HIDE DEF n, u, p, k
      <4>3. ab[p].state # "closed" => /\ k["near"] = ab["near"] /\ k[p].in = ab[p].in \o u
                                      /\ k[p].reset = ab[p].reset
        BY <4>1, <4>2
      <4>. QED  BY <4>2, <4>3
    <3>. QED  BY <3>1, <3>2, <3>3
  <2>. HIDE DEF k, n
  <2>6. /\ Len(echoed) \in Nat /\ Len(client.got) \in Nat
        /\ Upward(hx) \in Rows /\ Lag(hx) \in Nat /\ UpLevel(hx) \in Nat /\ UpLevel(hx) <= 5
        /\ Flow(Len(echoed), Upward(hx), Lag(hx), UpLevel(hx), client.sent)
        /\ Flow(Len(client.got), Downward(hx), 0, DownLevel(hx), Len(echoed))
    BY <1>1, RelayCells DEF Flows
  <2>7. CASE ab["far"].state = "closed"
    <3>1. Fades(ab, k)
      <4>1. ab["near"] \in WireEnd /\ ResetEnd(ab["near"]) \in WireEnd /\ EndFades(ab["near"], ResetEnd(ab["near"]))
            /\ ResetEnd(ab["near"]).state = ab["near"].state
        BY <1>2, <2>3, WireFields, EndsFade, ResetEndFacts
      <4>2. k = [ab EXCEPT !["near"] = ResetEnd(ab["near"])]
        BY <2>5, <2>7
      <4>. QED  BY <1>2, <4>1, <4>2, OneEndFades
    <3>2. Fading(hx, hx')
      BY <1>1, <1>2, <1>4, <3>1, LinkFading
    <3>3. Flows(hx') /\ hx' \in Relay
      BY <1>1, <3>2, FadingFlows DEF Fading
    <3>4. UpLevel(hx') # 5 /\ UpLevel(hx') \in Nat
      <4>1. hx'.links = [hx.links EXCEPT !["ab"] = k]
        BY <1>1, <1>2, <1>4, <2>5, SetFacts
      <4>2. hx'.links["ab"] = k
        BY <1>1, <1>2, <4>1, RelayFields
      <4>3. ~ Stands(hx', "ab", "far")
        BY <1>2, <2>5, <2>7, <4>2 DEF Stands, SameStates
      <4>. QED  BY <3>3, <4>3, FullLevels, RelayCells
    <3>5. Flow(Len(echoed), Upward(hx'), Lag(hx'), UpLevel(hx'), next)
      <4>1. Upward(hx') \in Rows /\ Lag(hx') \in Nat /\ UpLevel(hx') <= UpLevel(hx')
        BY <3>3, <3>4, RelayCells
      <4>2. Follows(Upward(hx'), Upward(hx'), UpLevel(hx')) /\ client.sent <= next
        BY <1>1 DEF Follows, next
      <4>3. Flow(Len(echoed), Upward(hx'), Lag(hx'), UpLevel(hx'), client.sent)
        BY <3>3 DEF Flows
      <4>. QED  BY <1>1, <2>1, <2>6, <3>4, <4>1, <4>2, <4>3, FlowBreaks
    <3>6. Flows(hx)'
      BY <1>4, <2>1, <3>3, <3>5 DEF Flows, Early
    <3>. QED  BY <1>1, <1>4, <2>1, <3>6 DEF FlowInv
  <2>8. CASE ab["far"].state # "closed"
    <3>. DEFINE y == SetLink(hx, "ab", k)
    <3>1. \A e \in Ends : k[e].reset = ab[e].reset
      BY <2>5, <2>8 DEF Ends
    <3>2. /\ y \in Relay /\ SameMarks(hx, y) /\ y.sticks = hx.sticks
          /\ y.links["ab"] = k /\ \A l \in LinkNames : l # "ab" => y.links[l] = hx.links[l]
      BY <1>1, <1>2, <2>5, <3>1, OneLink
    <3>. HIDE DEF y
    <3>3. Downward(y) = Downward(hx) /\ \A p \in Places : p # 5 => Upward(y)[p] = Upward(hx)[p]
      BY <2>5, <2>8, <3>2, UpwardEnd
    <3>4. Upward(y)[5] = Upward(hx)[5] \o u
      <4>1. Upward(y)[5] = Waiting(y, "ab", "far") /\ Upward(hx)[5] = Waiting(hx, "ab", "far")
        BY RowCells DEF Upward
      <4>. QED  BY <2>5, <2>8, <3>2, <4>1 DEF Waiting
    <3>5. UpLevel(y) = UpLevel(hx) /\ DownLevel(y) = DownLevel(hx) /\ Lag(y) = Lag(hx) /\ Early(y)
      BY <1>1, <3>2, SameMarksFacts
    <3>6. Fresh(y)
      <4>1. \A s \in Sticks : hx.sticks[s].life = "none" => Kept(y, s) = Kept(hx, s)
        BY <3>2 DEF Kept
      <4>2. \A l \in LinkNames, e \in Ends : hx.links[l][e].state = "none" => Waiting(y, l, e) = Waiting(hx, l, e)
        BY <2>3, <3>2 DEF Waiting, Ends
      <4>. QED  BY <1>1, <3>2, <4>1, <4>2, SameMarksFresh
    <3>7. UpLevel(hx) # 4
      BY <2>3, FullLevels DEF Stands
    <3>8. Flow(Len(echoed), Upward(y), Lag(y), UpLevel(y), next)
      <4>1. Upward(y) \in Rows
        BY <3>2, RelayCells
      <4>2. Flow(Len(echoed), Upward(y), Lag(hx), UpLevel(hx), client.sent + Len(u))
        BY <1>1, <2>2, <2>6, <3>3, <3>4, <3>7, <4>1, FlowAdds
      <4>. QED  BY <2>2, <3>5, <4>2
    <3>9. Flows(hx)'
      BY <1>4, <2>1, <2>6, <3>3, <3>5, <3>6, <3>8 DEF Flows, Early, y
    <3>. QED  BY <1>1, <1>4, <2>1, <3>9 DEF FlowInv
  <2>. QED  BY <2>7, <2>8
<1>. QED  BY <1>3, <1>4 DEF SendMessage, ClientDoes, ClientRuns, SetLink

\* The client takes all that waits for it.
LEMMA WaitReplyKeeps ==
  ASSUME FlowInv, HenInv', WaitReply  PROVE FlowInv'
<1>. DEFINE ab == hx.links["ab"]
            in == ab["near"].in
            k == Consume(ab, "near", Len(in))
            y == SetLink(hx, "ab", k)
<1>1. /\ Counted /\ hx \in Relay /\ Flows(hx) /\ Fresh(hx) /\ Early(hx)
      /\ Run(echoed, 0) /\ Run(client.got, 0) /\ client.sent <= Len(client.got) + Outstanding
      /\ client.sent \in Nat /\ client.got \in Seq(Nat) /\ echoed \in Seq(Nat)
  BY DEF FlowInv, HenInv, Counted, Sound, Flows, Client
<1>2. /\ ab \in Wire /\ "ab" \in LinkNames /\ "near" \in Ends /\ "far" \in Ends /\ Peer("near") = "far"
      /\ in \in Seq(Nat)
  <2>1. ab \in Wire
    BY <1>1, RelayFields, Names2
  <2>. QED  BY <2>1, Names2, WireFields
<1>3. CASE hx' = SetLink(hx, "ab", Close(ab, "near")) /\ client' = client /\ echoed' = echoed
  BY <1>2, <1>3, CloseKeeps
<1>4. CASE /\ hx' = y /\ client' = [client EXCEPT !.got = @ \o in] /\ echoed' = echoed /\ HasFd(ab, "near")
  <2>. DEFINE got == client.got \o in
  <2>1. got \in Seq(Nat) /\ Len(got) = Len(client.got) + Len(in)
    BY <1>1, <1>2, ConcatProperties
  <2>2. client'.sent = client.sent /\ client'.got = got
    <3>1. client' = [client EXCEPT !.got = got]
      BY <1>4
    <3>. HIDE DEF got
    <3>. QED  BY <1>1, <3>1 DEF Counted, Client
  <2>3. SameStates(ab, k) /\ k["near"].in = <<>> /\ k["far"] = ab["far"] /\ \A e \in Ends : k[e].reset = ab[e].reset
    <3>1. k[Peer("near")] = ab[Peer("near")]
      BY <1>2, ConsumeDoes
    <3>. QED  BY <1>2, <3>1, ConsumeDoes
  <2>. HIDE DEF k, got
  <2>4. /\ y \in Relay /\ SameMarks(hx, y) /\ y.sticks = hx.sticks
        /\ y.links["ab"] = k /\ \A l \in LinkNames : l # "ab" => y.links[l] = hx.links[l]
    BY <1>1, <1>2, <2>3, OneLink
  <2>. HIDE DEF y
  <2>5. Upward(y) = Upward(hx) /\ \A p \in Places : p # 1 => Downward(y)[p] = Downward(hx)[p]
    BY <2>3, <2>4, DownwardStart
  <2>6. Downward(hx)[1] = in /\ Downward(y)[1] = <<>>
    BY <2>3, <2>4, RowCells DEF Downward, Waiting
  <2>7. UpLevel(y) = UpLevel(hx) /\ DownLevel(y) = DownLevel(hx) /\ Lag(y) = Lag(hx) /\ Early(y)
    BY <1>1, <2>4, SameMarksFacts
  <2>8. Fresh(y)
    <3>1. \A s \in Sticks : hx.sticks[s].life = "none" => Kept(y, s) = Kept(hx, s)
      BY <2>4 DEF Kept
    <3>2. \A l \in LinkNames, e \in Ends : hx.links[l][e].state = "none" => Waiting(y, l, e) = Waiting(hx, l, e)
      <4>1. ab["near"].state # "none"
        BY <1>4 DEF HasFd
      <4>. QED  BY <2>3, <2>4, <4>1 DEF Waiting, Ends
    <3>. QED  BY <1>1, <2>4, <3>1, <3>2, SameMarksFresh
  <2>9. /\ Len(echoed) \in Nat /\ Len(client.got) \in Nat /\ Downward(hx) \in Rows /\ Downward(y) \in Rows
        /\ DownLevel(hx) \in Nat /\ DownLevel(hx) <= 5 /\ 0 \in Nat
        /\ Flow(Len(client.got), Downward(hx), 0, DownLevel(hx), Len(echoed))
    BY <1>1, <2>4, RelayCells DEF Flows
  <2>10. /\ Run(in, Len(client.got))
         /\ Flow(Len(client.got) + Len(in), Downward(y), 0, DownLevel(hx), Len(echoed))
    BY <2>5, <2>6, <2>9, FlowTakes
  <2>11. Run(got, 0)
    <3>1. Len(client.got) = 0 + Len(client.got) /\ 0 \in Int
      BY <1>1
    <3>. QED  BY <1>1, <1>2, <2>10, <3>1, RunConcat DEF got
  <2>12. client.sent <= Len(got) + Outstanding
    <3>. DEFINE a == Len(client.got)
                b == Len(in)
    <3>1. a \in Nat /\ b \in Nat /\ Outstanding \in Nat
      <4>1. a \in Nat
        BY <1>1
      <4>2. b \in Nat
        <5>. HIDE DEF in
        <5>. QED  BY <1>2
      <4>. QED  BY <4>1, <4>2, HenAssumption
    <3>2. client.sent <= a + Outstanding /\ Len(got) = a + b
      BY <1>1, <2>1
    <3>. HIDE DEF a, b
    <3>. QED  BY <1>1, <3>1, <3>2
  <2>13. Flows(hx)'
    <3>1. Flow(Len(echoed), Upward(y), Lag(y), UpLevel(y), client.sent)
      BY <1>1, <2>5, <2>7 DEF Flows
    <3>2. Flow(Len(got), Downward(y), 0, DownLevel(y), Len(echoed))
      BY <2>1, <2>7, <2>10
    <3>. QED  BY <1>4, <2>2, <2>7, <2>8, <3>1, <3>2 DEF Flows, Early
  <2>. QED  BY <1>1, <1>4, <2>2, <2>11, <2>12, <2>13 DEF FlowInv
<1>. QED  BY <1>3, <1>4 DEF WaitReply, ClientDoes, ClientRuns, SetLink

\* A part of the data has been read by the server, which has counted it.
Counts(x, e) ==
  /\ x \in Relay /\ Fresh(x) /\ x.sticks["CL"].parsed
  /\ Flow(e, Upward(x), Lag(x), UpLevel(x), client.sent)
  /\ Flow(Len(client.got), Downward(x), 0, DownLevel(x), e)

\* The relay may fade meanwhile.
LEMMA FadingCounts ==
  ASSUME Counted, NEW x, NEW y, NEW e \in Nat, Counts(x, e), Fading(x, y)
  PROVE  Counts(y, e)
<1>1. Len(client.got) \in Nat /\ client.sent \in Nat /\ x \in Relay
  BY DEF Counted, Client, Counts
<1>2. y \in Relay /\ y.sticks["CL"].parsed
  BY Names2 DEF Fading, Counts
<1>3. Fresh(y)
  BY FadingFresh DEF Counts
<1>. QED  BY <1>1, <1>2, <1>3, FadingRows DEF Counts

\* Once the server has a connection, CL has the address.
LEMMA ServerParsed ==
  ASSUME NEW x, Sound(x), x.links["cd"]["far"].state # "none"
  PROVE  x.sticks["CL"].parsed
<1>1. Link("CR") = "cd" /\ EndOf("CR") = "near"
  BY Names
<1>2. x.links["cd"]["near"].state # "none"
  BY Names2 DEF Sound, Shaped
<1>3. x.sticks["CR"].life # "none"
  BY <1>1, <1>2 DEF Sound, InTurn, StateOf
<1>. QED  BY <1>3 DEF Sound, InTurn

\* What the server reads it sends back.  While all connections stand, all of it goes: no
\* more is under way than the client may send before it waits, and that much has room.
LEMMA EchoCounts ==
  ASSUME FlowInv, HasFd(hx.links["cd"], "far"), hx.links["cd"]["far"].in # <<>>
  PROVE  LET cd == hx.links["cd"]
             in == cd["far"].in
         IN  /\ Counts(SetLink(hx, "cd", Send(Consume(cd, "far", Len(in)), "far", in)), Len(echoed) + Len(in))
             /\ Run(in, Len(echoed)) /\ in \in Seq(Nat)
<1>. DEFINE cd == hx.links["cd"]
            in == cd["far"].in
            j == Consume(cd, "far", Len(in))
            k == Send(j, "far", in)
            n == Taken(j, "far", Len(in))
            w == DownLevel(hx)
            m == Len(echoed) + Len(in)
            z == SetLink(hx, "cd", j)
            y == SetLink(hx, "cd", k)
<1>1. /\ Counted /\ Sound(hx) /\ hx \in Relay /\ Flows(hx) /\ Fresh(hx)
      /\ client.sent <= Len(client.got) + Outstanding
      /\ client.sent \in Nat /\ client.got \in Seq(Nat) /\ echoed \in Seq(Nat)
      /\ Len(client.got) \in Nat /\ Len(echoed) \in Nat
  BY DEF FlowInv, HenInv, Counted, Sound, Flows, Client
<1>2. /\ cd \in Wire /\ "cd" \in LinkNames /\ "near" \in Ends /\ "far" \in Ends /\ Peer("far") = "near"
      /\ in \in Seq(Nat)
  <2>1. cd \in Wire
    BY <1>1, RelayFields, Names2
  <2>. QED  BY <2>1, Names2, WireFields
<1>3. Len(in) \in Nat /\ Len(in) > 0 /\ m \in Nat /\ Len(echoed) <= m
  <2>1. Len(in) > 0
    BY <1>2, WholeQueue
  <2>. HIDE DEF in
  <2>. QED  BY <1>1, <1>2, <2>1
<1>4. cd["far"].state = "open" /\ hx.sticks["CL"].parsed
  <2>1. Shaped(cd)
    BY <1>1, <1>2 DEF Sound
  <2>2. cd["far"].state = "open"
    BY <2>1 DEF HasFd, Shaped
  <2>. QED  BY <1>1, <2>2, ServerParsed
<1>5. /\ SameStates(cd, j) /\ j \in Wire /\ j["far"].in = <<>> /\ j["near"] = cd["near"]
      /\ \A e \in Ends : j[e].reset = cd[e].reset
  <2>1. j[Peer("far")] = cd[Peer("far")]
    BY <1>2, ConsumeDoes
  <2>. QED  BY <1>2, <2>1, ConsumeDoes DEF SameStates
<1>6. /\ n \in 0 .. Len(in) /\ k \in Wire
      /\ n = 0 => k = ErrorRead(j, "far")
      /\ n # 0 => j["far"].state = "open" /\ ~ j["far"].reset
      /\ n # 0 /\ j["near"].state = "closed" => k = [j EXCEPT !["far"] = ResetEnd(j["far"])]
      /\ n # 0 /\ j["near"].state # "closed" =>
           /\ k["far"] = j["far"] /\ k["near"].in = j["near"].in \o SubSeq(in, 1, n)
           /\ k["near"].state = j["near"].state /\ k["near"].reset = j["near"].reset
  <2>. DEFINE p == Peer("far")
  <2>1. /\ n \in 0 .. Len(in) /\ k \in Wire
        /\ n = 0 => k = ErrorRead(j, "far")
        /\ n # 0 => j["far"].state = "open" /\ ~ j["far"].reset
        /\ n # 0 /\ j[p].state # "closed" =>
             /\ k["far"] = j["far"] /\ k[p].in = j[p].in \o SubSeq(in, 1, n)
             /\ k[p].state = j[p].state /\ k[p].reset = j[p].reset
    <3>1. j \in Wire /\ "far" \in Ends /\ in \in Seq(Nat)
      BY <1>2, <1>5
    <3>. HIDE DEF j, in
    <3>2. n \in 0 .. Len(in) /\ k \in Wire /\ (n = 0 => k = ErrorRead(j, "far"))
      BY <3>1, SendDoes
    <3>3. n # 0 => j["far"].state = "open" /\ ~ j["far"].reset
      BY <3>1, SendDoes
    <3>4. n # 0 /\ j[p].state # "closed" =>
             /\ k["far"] = j["far"] /\ k[p].in = j[p].in \o SubSeq(in, 1, n)
             /\ k[p].state = j[p].state /\ k[p].reset = j[p].reset
      BY <3>1, SendDoes
    <3>. QED  BY <3>2, <3>3, <3>4
  <2>2. n # 0 /\ j["near"].state = "closed" => k = [j EXCEPT !["far"] = ResetEnd(j["far"])]
    BY <1>2 DEF Send
  <2>. HIDE DEF k, n, j, in
  <2>. QED  BY <1>2, <2>1, <2>2
<1>. HIDE DEF k, j
<1>7. /\ z \in Relay /\ SameMarks(hx, z) /\ z.sticks = hx.sticks
      /\ z.links["cd"] = j /\ \A l \in LinkNames : l # "cd" => z.links[l] = hx.links[l]
  BY <1>1, <1>2, <1>5, OneLink
<1>8. y = SetLink(z, "cd", k)
  BY <1>1, <1>2, <1>5, SetLinkTwice
<1>. HIDE DEF z, y
<1>9. /\ Downward(z) = Downward(hx) /\ (\A p \in Places : p # 1 => Upward(z)[p] = Upward(hx)[p])
      /\ Upward(hx)[1] = in /\ Upward(z)[1] = <<>>
  <2>1. Downward(z) = Downward(hx) /\ (\A p \in Places : p # 1 => Upward(z)[p] = Upward(hx)[p])
    BY <1>5, <1>7, UpwardStart
  <2>2. Upward(hx)[1] = in /\ Upward(z)[1] = <<>>
    BY <1>5, <1>7, RowCells DEF Upward, Waiting
  <2>. QED  BY <2>1, <2>2
<1>10. UpLevel(z) = UpLevel(hx) /\ DownLevel(z) = w /\ Lag(z) = Lag(hx) /\ z.sticks["CL"].parsed
  BY <1>4, <1>7, SameMarksFacts
<1>11. Fresh(z)
  <2>1. \A s \in Sticks : hx.sticks[s].life = "none" => Kept(z, s) = Kept(hx, s)
    BY <1>7 DEF Kept
  <2>2. \A l \in LinkNames, e \in Ends : hx.links[l][e].state = "none" => Waiting(z, l, e) = Waiting(hx, l, e)
    BY <1>4, <1>5, <1>7 DEF Waiting, Ends
  <2>. QED  BY <1>1, <1>7, <2>1, <2>2, SameMarksFresh
<1>12. /\ Upward(hx) \in Rows /\ Upward(z) \in Rows /\ Downward(hx) \in Rows /\ Downward(z) \in Rows
       /\ Lag(hx) \in Nat /\ UpLevel(hx) \in Nat /\ UpLevel(hx) <= 5 /\ w \in Nat /\ w <= 5 /\ 0 \in Nat
       /\ Flow(Len(echoed), Upward(hx), Lag(hx), UpLevel(hx), client.sent)
       /\ Flow(Len(client.got), Downward(hx), 0, w, Len(echoed))
  BY <1>1, <1>7, RelayCells DEF Flows
<1>13. /\ Run(in, Len(echoed)) /\ m <= client.sent
       /\ Flow(m, Upward(z), Lag(z), UpLevel(z), client.sent)
  BY <1>1, <1>9, <1>10, <1>12, FlowTakes, ZenonT(30)
<1>14. w = 5 => n = Len(in) /\ j["near"].state # "closed"
  <2>1. HAVE w = 5
  <2>2. Stands(hx, "cd", "near") /\ ~ cd["far"].reset
    BY <2>1, FullLevels
  <2>3. j["near"].state # "closed" /\ j["far"].state = "open" /\ ~ j["far"].reset
    BY <1>2, <1>4, <1>5, <2>2 DEF Stands, SameStates
  <2>4. Len(client.got) + Len(Downward(hx)[5]) <= Len(echoed)
    BY <1>1, <1>12, <2>1, FlowBounds
  <2>5. Downward(hx)[5] = j["near"].in
    BY <1>5, RowCells DEF Downward, Waiting
  <2>. DEFINE a == Len(in)
              b == Len(j["near"].in)
              c == Len(client.got)
              d == Len(echoed)
              r == RoomFor(j, "far")
  <2>6. b \in Nat /\ r = Room - b /\ Outstanding \in Nat /\ Outstanding <= Room /\ Room \in Nat
    <3>1. Len(j["near"].in) \in 0 .. Room
      BY <1>2, <1>5, WireFields
    <3>2. Room \in Nat /\ Outstanding \in Nat /\ Outstanding <= Room
      BY RoomAssumption, HenAssumption
    <3>3. r = Room - b
      BY <1>2 DEF RoomFor
    <3>. QED  BY <3>1, <3>2, <3>3
  <2>7. a \in Nat /\ c \in Nat /\ d \in Nat /\ c + b <= d /\ d + a <= client.sent /\ client.sent <= c + Outstanding
    BY <1>1, <1>3, <1>13, <2>4, <2>5
  <2>8. n = Min({a, r})
    BY <1>2, <2>3 DEF Taken
  <2>. HIDE DEF a, b, c, d, r, n
  <2>9. a <= r /\ r \in Int
    BY <1>1, <2>6, <2>7
  <2>10. Min({a, r}) = IF a <= r THEN a ELSE r
    BY <2>7, <2>9, MinOfTwo
  <2>. QED  BY <2>3, <2>8, <2>9, <2>10 DEF a
<1>. HIDE DEF n
<1>15. CASE n = 0 \/ j["near"].state = "closed"
  <2>1. w # 5
    BY <1>3, <1>14, <1>15
  <2>2. Flow(Len(client.got), Downward(z), 0, w, m)
    <3>1. Follows(Downward(hx), Downward(z), w) /\ w <= w
      BY <1>9, <1>12 DEF Follows
    <3>. HIDE DEF w, m
    <3>. QED  BY <1>1, <1>3, <1>12, <2>1, <3>1, FlowBreaks
  <2>3. Counts(z, m)
    BY <1>7, <1>10, <1>11, <1>13, <2>2 DEF Counts
  <2>4. Fades(j, k)
    <3>1. j["far"] \in WireEnd /\ j["far"].state # "none"
      BY <1>2, <1>4, <1>5, WireFields DEF SameStates
    <3>2. CASE n = 0
      BY <1>2, <1>5, <1>6, <3>2, CallsFade
    <3>3. CASE n # 0
      <4>1. k = [j EXCEPT !["far"] = ResetEnd(j["far"])]
        BY <1>6, <1>15, <3>3
      <4>2. /\ ResetEnd(j["far"]) \in WireEnd /\ EndFades(j["far"], ResetEnd(j["far"]))
            /\ ResetEnd(j["far"]).state = j["far"].state
        BY <3>1, EndsFade, ResetEndFacts
      <4>. QED  BY <1>2, <1>5, <4>1, <4>2, OneEndFades
    <3>. QED  BY <3>2, <3>3
  <2>5. Fading(z, y)
    BY <1>2, <1>7, <1>8, <2>4, LinkFading
  <2>. HIDE DEF m, in
  <2>6. Counts(y, m)
    BY <1>1, <1>3, <2>3, <2>5, FadingCounts
  <2>. QED  BY <1>2, <1>13, <2>6 DEF y, k, j, m, in
<1>16. CASE n # 0 /\ j["near"].state # "closed"
  <2>1. /\ k["far"] = j["far"] /\ k["near"].in = j["near"].in \o SubSeq(in, 1, n)
        /\ k["near"].state = j["near"].state /\ k["near"].reset = j["near"].reset /\ k \in Wire
        /\ ~ j["far"].reset
    BY <1>6, <1>16
  <2>2. SameStates(j, k) /\ \A e \in Ends : k[e].reset = j[e].reset
    BY <2>1 DEF SameStates, Ends
  <2>3. /\ y \in Relay /\ SameMarks(z, y) /\ y.sticks = z.sticks
        /\ y.links["cd"] = k /\ \A l \in LinkNames : l # "cd" => y.links[l] = z.links[l]
    BY <1>2, <1>7, <1>8, <2>2, OneLink
  <2>4. Upward(y) = Upward(z) /\ \A p \in Places : p # 5 => Downward(y)[p] = Downward(z)[p]
    BY <1>7, <2>1, <2>3, DownwardEnd, ZenonT(30)
  <2>5. Downward(y)[5] = Downward(z)[5] \o SubSeq(in, 1, n)
    <3>1. Downward(y)[5] = Waiting(y, "cd", "near") /\ Downward(z)[5] = Waiting(z, "cd", "near")
      BY RowCells DEF Downward
    <3>. QED  BY <1>7, <2>1, <2>3, <3>1 DEF Waiting
  <2>6. UpLevel(y) = UpLevel(z) /\ DownLevel(y) = DownLevel(z) /\ Lag(y) = Lag(z) /\ y.sticks["CL"].parsed
    BY <1>10, <2>3, SameMarksFacts
  <2>7. Fresh(y)
    <3>1. \A s \in Sticks : z.sticks[s].life = "none" => Kept(y, s) = Kept(z, s)
      BY <2>3 DEF Kept
    <3>2. ASSUME NEW l \in LinkNames, NEW e \in Ends, z.links[l][e].state = "none"
          PROVE  Waiting(y, l, e) = Waiting(z, l, e)
      <4>1. CASE l # "cd"
        BY <2>3, <4>1 DEF Waiting
      <4>2. CASE l = "cd"
        <5>1. j["near"].state # "none"
          <6>1. Shaped(cd)
            BY <1>1, <1>2 DEF Sound
          <6>2. cd["near"].state # "none"
            BY <1>4, <6>1 DEF Shaped
          <6>. QED  BY <1>2, <1>5, <6>2 DEF SameStates
        <5>2. e = "far"
          BY <1>7, <3>2, <4>2, <5>1 DEF Ends
        <5>. QED  BY <1>7, <2>1, <2>3, <4>2, <5>2 DEF Waiting
      <4>. QED  BY <4>1, <4>2
    <3>. QED  BY <1>11, <2>3, <3>1, <3>2, SameMarksFresh
  <2>8. w # 4
    BY <1>2, <1>4, <1>5, <2>1, FullLevels DEF Stands
  <2>9. Flow(Len(client.got), Downward(y), 0, w, m)
    <3>1. Downward(y) \in Rows
      BY <2>3, RelayCells
    <3>2. w = 5 => Downward(y)[5] = Downward(hx)[5] \o in
      <4>1. SubSeq(in, 1, Len(in)) = in
        BY <1>2, WholeQueue
      <4>. QED  BY <1>9, <1>14, <2>5, <4>1
    <3>3. \A p \in Places : p # 5 => Downward(y)[p] = Downward(hx)[p]
      BY <1>9, <2>4
    <3>. HIDE DEF w, in
    <3>. QED  BY <1>1, <1>2, <1>12, <1>13, <2>8, <3>1, <3>2, <3>3, FlowAdds
  <2>10. Counts(y, m)
    BY <1>10, <1>13, <2>3, <2>4, <2>6, <2>7, <2>9 DEF Counts
  <2>. QED  BY <1>2, <1>13, <2>10 DEF y, k, j
<1>. QED  BY <1>15, <1>16

\* The server reads and answers.
LEMMA EchoOnEventKeeps ==
  ASSUME FlowInv, HenInv', EchoOnEvent  PROVE FlowInv'
<1>. DEFINE cd == hx.links["cd"]
            in == cd["far"].in
            k == Send(Consume(cd, "far", Len(in)), "far", in)
            y == SetLink(hx, "cd", k)
<1>1. /\ Counted /\ hx \in Relay /\ echoed \in Seq(Nat) /\ Run(echoed, 0)
      /\ "cd" \in LinkNames /\ "far" \in Ends /\ cd \in Wire
  <2>1. hx \in Relay
    BY DEF FlowInv, HenInv, Sound
  <2>. QED  BY <2>1, RelayFields, Names2 DEF FlowInv, HenInv, Counted
<1>2. CASE hx' = SetLink(hx, "cd", Close(cd, "far")) /\ client' = client /\ echoed' = echoed
  BY <1>1, <1>2, CloseKeeps
<1>3. CASE /\ hx' \in {y, SetLink(hx, "cd", Close(k, "far"))} /\ client' = client /\ echoed' = echoed \o in
           /\ HasFd(cd, "far") /\ in # <<>>
  <2>. DEFINE e == Len(echoed) + Len(in)
  <2>1. Counts(y, e) /\ Run(in, Len(echoed)) /\ in \in Seq(Nat)
    BY <1>3, EchoCounts
  <2>. HIDE DEF in
  <2>2. /\ echoed' \in Seq(Nat) /\ Len(echoed') = e /\ e \in Nat
    BY <1>1, <1>3, <2>1, ConcatProperties
  <2>3. Run(echoed', 0)
    <3>1. Len(echoed) = 0 + Len(echoed) /\ 0 \in Int
      BY <1>1
    <3>. QED  BY <1>1, <1>3, <2>1, <3>1, RunConcat
  <2>4. k \in Wire
    <3>1. Len(in) \in 0 .. Len(in)
      BY <2>1
    <3>2. Consume(cd, "far", Len(in)) \in Wire
      BY <1>1, <3>1, LinkData DEF SameStates, in
    <3>. QED  BY <1>1, <2>1, <3>2, SendKeepsStates DEF SameStates
  <2>. HIDE DEF k, e
  <2>5. Counts(hx', e)
    <3>1. CASE hx' = y
      BY <2>1, <3>1
    <3>2. CASE hx' = SetLink(hx, "cd", Close(k, "far"))
      <4>1. Fades(k, Close(k, "far"))
        BY <1>1, <2>4, CloseFades
      <4>2. y \in Relay /\ y.links["cd"] = k
        <5>1. y \in Relay /\ y.links = [hx.links EXCEPT !["cd"] = k]
          BY <1>1, <2>4, SetFacts
        <5>. QED  BY <1>1, <5>1, RelayFields
      <4>3. SetLink(y, "cd", Close(k, "far")) = hx'
        BY <1>1, <2>4, <3>2, SetLinkTwice
      <4>4. Fading(y, hx')
        <5>. HIDE DEF y
        <5>. QED  BY <1>1, <4>1, <4>2, <4>3, LinkFading
      <4>. QED  BY <1>1, <2>1, <2>2, <4>4, FadingCounts
    <3>. QED  BY <1>3, <3>1, <3>2
  <2>6. Flows(hx)'
    BY <1>3, <2>2, <2>5 DEF Flows, Early, Counts
  <2>. QED  BY <1>3, <2>3, <2>6 DEF FlowInv
<1>. QED  BY <1>2, <1>3 DEF EchoOnEvent, ServerDoes, SetLink

-------------------------------------------------------------------------------
(* At the beginning nothing is under way. *)

\* A row of empty buffers holds.
LEMMA NothingFlows ==
  ASSUME NEW q \in Rows, \A k \in Places : q[k] = <<>>, NEW w \in Nat, w <= 5
  PROVE  Flow(0, q, 0, w, 0)
<1>1. /\ q[1] = <<>> /\ q[2] = <<>> /\ q[3] = <<>> /\ q[4] = <<>> /\ q[5] = <<>>
      /\ 0 + Len(<<>>) = 0 /\ 0 + Len(<<>>) - 0 = 0 /\ Len(<<>>) = 0
  BY RowCells
<1>2. Run(<<>>, 0)
  BY DEF Run
<1>3. Numbers(0, 0, 0, 0, 0, q, 0, w, 0)
  BY <1>1, <1>2 DEF Numbers
<1>. QED  BY <1>3, FlowNumbers

\* A new link holds nothing.
LEMMA DialledFacts ==
  ASSUME NEW e \in Ends
  PROVE  Dialled[e].in = <<>> /\ Dialled[e].reset = FALSE /\ NoLink[e].in = <<>> /\ NoLink[e].reset = FALSE
<1>1. NoLink = [f \in Ends |-> NoEnd] /\ NoEnd.in = <<>> /\ NoEnd.reset = FALSE
  BY DEF NoLink, NoEnd
<1>2. NoLink[e].in = <<>> /\ NoLink[e].reset = FALSE
  BY <1>1
<1>. DEFINE i == [NoEnd EXCEPT !.state = "open"]
            j == [NoEnd EXCEPT !.state = "connecting"]
            k == [j EXCEPT !.state = "open"]
            m == [NoEnd EXCEPT !.state = "queued"]
<1>3. /\ k.in = <<>> /\ k.reset = FALSE /\ m.in = <<>> /\ m.reset = FALSE
  BY DEF NoEnd
<1>4. "near" \in Ends /\ "far" \in Ends /\ \A f \in Ends : f = "near" \/ f = "far"
  BY DEF Ends
<1>5. Connecting = [NoLink EXCEPT !["near"] = j]
  BY <1>1, <1>4 DEF Connecting
<1>. HIDE DEF j, NoEnd
<1>6. Connecting["near"] = j /\ Connecting["far"] = NoEnd /\ Connecting = [f \in Ends |-> Connecting[f]]
  BY <1>1, <1>4, <1>5
<1>7. Dialled = [[Connecting EXCEPT !["near"] = k] EXCEPT !["far"] = m]
  BY <1>1, <1>4, <1>6 DEF Dialled, Establish
<1>. HIDE DEF k, m
<1>8. Dialled["near"] = k /\ Dialled["far"] = m
  BY <1>4, <1>6, <1>7
<1>. QED  BY <1>2, <1>3, <1>4, <1>8

\* The invariant holds at the beginning.
LEMMA InitFlows ==
  ASSUME Init  PROVE FlowInv
<1>1. HenInv /\ hx \in Relay
  BY InitSound DEF HenInv, Sound
<1>2. /\ hx.links = [ab |-> Dialled, bc |-> NoLink, cd |-> NoLink]
      /\ hx.sticks = [s \in Sticks |-> NoStick]
      /\ client.sent = 0 /\ client.got = <<>> /\ echoed = <<>>
  BY DEF Init
<1>3. Dialled["near"].state = "open" /\ Dialled["far"].state = "queued"
  BY NewLinks, OtherLinkCalls DEF Dialled
<1>4. \A l \in LinkNames : hx.links[l] = IF l = "ab" THEN Dialled ELSE NoLink
  BY <1>2 DEF LinkNames
<1>5. \A l \in LinkNames, e \in Ends : Waiting(hx, l, e) = <<>> /\ hx.links[l][e].reset = FALSE
  BY <1>4, DialledFacts DEF Waiting
<1>6. \A s \in Sticks : Kept(hx, s) = <<>> /\ hx.sticks[s].parsed = FALSE /\ hx.sticks[s].life = "none"
  BY <1>2 DEF Kept, NoStick
<1>7. Fresh(hx)
  <2>1. \A l \in LinkNames : Joined(hx.links[l])
    BY <1>3, <1>4, NewLinks DEF Joined
  <2>2. hx.links["ab"]["far"].state # "none"
    BY <1>3, <1>4, Names2
  <2>. QED  BY <1>5, <1>6, <2>1, <2>2 DEF Fresh
<1>8. Early(hx) /\ Lag(hx) = 0
  BY <1>2, <1>6, Names2 DEF Early, Lag
<1>9. /\ Upward(hx) \in Rows /\ Downward(hx) \in Rows
      /\ UpLevel(hx) \in Nat /\ UpLevel(hx) <= 5 /\ DownLevel(hx) \in Nat /\ DownLevel(hx) <= 5
  BY <1>1, RelayCells
<1>10. \A k \in Places : Upward(hx)[k] = <<>> /\ Downward(hx)[k] = <<>>
  BY <1>5, <1>6, Names2, RowCells DEF Upward, Downward
<1>11. Flow(0, Upward(hx), 0, UpLevel(hx), 0) /\ Flow(0, Downward(hx), 0, DownLevel(hx), 0)
  BY <1>9, <1>10, NothingFlows
<1>12. Len(<<>>) = 0 /\ Run(<<>>, 0)
  BY DEF Run
<1>13. Flows(hx)
  BY <1>2, <1>7, <1>8, <1>11, <1>12 DEF Flows
<1>14. client.sent <= Len(client.got) + Outstanding
  BY <1>2, <1>12, HenAssumption
<1>. QED  BY <1>1, <1>2, <1>12, <1>13, <1>14 DEF FlowInv

-------------------------------------------------------------------------------
(* Every step. *)

\* The server accepts.
LEMMA AcceptDKeeps ==
  ASSUME FlowInv, HenInv', AcceptD  PROVE FlowInv'
<1>. DEFINE cd == hx.links["cd"]
<1>1. hx \in Relay /\ "cd" \in LinkNames /\ cd \in Wire
  <2>1. hx \in Relay
    BY DEF FlowInv, HenInv, Sound
  <2>. QED  BY <2>1, RelayFields, Names2
<1>2. cd["far"].state = "queued" /\ hx' = SetLink(hx, "cd", Accept(cd)) /\ UNCHANGED <<client, echoed>>
  BY DEF AcceptD, ServerDoes, SetLink
<1>3. Fades(cd, Accept(cd))
  BY <1>1, <1>2, CallsFade
<1>. HIDE DEF cd
<1>4. Fading(hx, hx')
  BY <1>1, <1>2, <1>3, LinkFading DEF cd
<1>. QED  BY <1>2, <1>4, FadingKeeps

\* The invariant is inductive.
LEMMA NextFlows ==
  ASSUME FlowInv, [Next]_vars  PROVE FlowInv'
<1>1. HenInv /\ Sound(hx) /\ Counted /\ Flows(hx) /\ hx \in Relay
  BY DEF FlowInv, HenInv, Counted, Sound
<1>2. HenInv'
  BY <1>1, NextSound
<1>3. CASE UNCHANGED vars
  <2>1. hx' = hx /\ UNCHANGED <<client, echoed>>
    BY <1>3 DEF vars
  <2>. QED  BY <1>1, <1>2, <2>1, QuietKeeps
<1>4. ASSUME NEW h \in Hosts, HostServes(h) \/ SignalHost(h)  PROVE FlowInv'
  <2>1. UNCHANGED <<client, echoed>>
    BY <1>4 DEF HostServes, SignalHost, AcceptB, AcceptC, LeftOnEvent, RightOnEvent, RunTasks,
                HostExits, HostDoes
  <2>2. Flows(hx')
    BY <1>1, <1>4, HostServesFlows
  <2>. QED  BY <1>2, <2>1, <2>2, QuietKeeps
<1>5. CASE ClientExits
  <2>1. hx' = SetLink(hx, "ab", Close(hx.links["ab"], "near")) /\ UNCHANGED <<client, echoed>>
    BY <1>5 DEF ClientExits, ClientDoes, SetLink
  <2>. QED  BY <1>2, <2>1, Names2, CloseKeeps
<1>6. CASE SendMessage \/ WaitReply
  BY <1>2, <1>6, SendMessageKeeps, WaitReplyKeeps
<1>7. CASE AcceptD \/ EchoOnEvent
  BY <1>2, <1>7, AcceptDKeeps, EchoOnEventKeeps
<1>8. ASSUME NEW l \in LinkNames, Established(l) \/ Refused(l) \/ Breaks(l)  PROVE FlowInv'
  <2>1. Fading(hx, hx')
    BY <1>1, <1>8, NetworkFading
  <2>2. UNCHANGED <<client, echoed>>
    BY <1>1, <1>8, NetworkSound
  <2>. QED  BY <1>2, <2>1, <2>2, FadingKeeps
<1>. QED  BY <1>3, <1>4, <1>5, <1>6, <1>7, <1>8 DEF Next, Progress, EndsRead, NetworkAnswers

-------------------------------------------------------------------------------
(* What the rows say of the messages. *)

\* The units from the first on are determined by how many there are.
LEMMA RunIsUnits ==
  ASSUME NEW u \in Seq(Nat), Run(u, 0)
  PROVE  u = Units(Len(u))
<1>1. Len(u) \in Nat /\ \A i \in 1 .. Len(u) : u[i] = i
  BY DEF Run
<1>2. u = [i \in 1 .. Len(u) |-> u[i]]
  OBVIOUS
<1>. QED  BY <1>1, <1>2 DEF Units

\* Of two such sequences the shorter is a prefix.
LEMMA RunPrefix ==
  ASSUME NEW u \in Seq(Nat), NEW v \in Seq(Nat), Run(u, 0), Run(v, 0), Len(u) <= Len(v)
  PROVE  IsPrefix(u, v)
<1>1. Len(u) \in 0 .. Len(u) /\ Len(u) \in 0 .. Len(v) /\ Len(v) \in Nat /\ Len(u) \in Nat
  OBVIOUS
<1>. DEFINE j == SubSeq(v, 1, Len(u))
<1>2. j \in Seq(Nat) /\ Len(j) = Len(u)
  BY <1>1, Split
<1>3. Run(j, 0)
  BY <1>1, RunParts
<1>. HIDE DEF j
<1>4. j = u
  BY <1>2, <1>3, RunIsUnits
<1>5. SubSeq(u, 1, Len(u)) = u
  BY WholeQueue
<1>. QED  BY <1>4, <1>5 DEF IsPrefix, j

\* Two neighbours together.
Joins(u, a, v) == u \in Seq(Nat) /\ a \in Int /\ Run(u, a) /\ v = a + Len(u)

\* One more neighbour.
LEMMA JoinsOne ==
  ASSUME NEW u, NEW a, NEW b, Joins(u, a, b), NEW v \in Seq(Nat), Run(v, b)
  PROVE  Joins(u \o v, a, b + Len(v))
<1>1. u \in Seq(Nat) /\ a \in Int /\ Run(u, a) /\ b = a + Len(u) /\ Len(u) \in Nat /\ Len(v) \in Nat
  BY DEF Joins
<1>2. u \o v \in Seq(Nat) /\ Len(u \o v) = Len(u) + Len(v)
  BY <1>1, ConcatProperties
<1>3. Run(u \o v, a)
  BY <1>1, RunConcat
<1>4. b + Len(v) = a + Len(u \o v)
  BY <1>1, <1>2
<1>. QED  BY <1>1, <1>2, <1>3, <1>4 DEF Joins

AllOf(q) == q[1] \o q[2] \o q[3] \o q[4] \o q[5]

\* A whole row without the address holds just what is under way.
LEMMA WholeRow ==
  ASSUME NEW q \in Rows, NEW n \in Int, NEW a, NEW b, NEW c, NEW d, NEW t,
         Run(q[1], n), a = n + Len(q[1]), Run(q[2], a), b = a + Len(q[2]), Run(q[3], b),
         c = b + Len(q[3]), Run(q[4], c), d = c + Len(q[4]), Run(q[5], d), d + Len(q[5]) = t
  PROVE  Joins(AllOf(q), n, t)
<1>0. \A k \in Places : q[k] \in Seq(Nat)
  BY DEF Rows
<1>1. q[1] \in Seq(Nat) /\ q[2] \in Seq(Nat) /\ q[3] \in Seq(Nat) /\ q[4] \in Seq(Nat) /\ q[5] \in Seq(Nat)
  BY <1>0, RowCells, Zenon
<1>2. Joins(q[1], n, a)
  BY <1>1 DEF Joins
<1>3. Joins(q[1] \o q[2], n, b)
  BY <1>1, <1>2, JoinsOne
<1>4. Joins(q[1] \o q[2] \o q[3], n, c)
  BY <1>1, <1>3, JoinsOne
<1>5. Joins(q[1] \o q[2] \o q[3] \o q[4], n, d)
  BY <1>1, <1>4, JoinsOne
<1>6. Joins(q[1] \o q[2] \o q[3] \o q[4] \o q[5], n, t)
  BY <1>1, <1>5, JoinsOne
<1>. QED  BY <1>6 DEF AllOf

\* So a row that holds altogether is all that is under way.
LEMMA FullFlow ==
  ASSUME NEW n \in Nat, NEW q \in Rows, NEW t \in Nat, Flow(n, q, 0, 5, t)
  PROVE  Joins(AllOf(q), n, t)
<1>1. 5 \in Nat /\ 5 <= 5 /\ 0 \in Nat /\ 5 >= 1 /\ 5 >= 2 /\ 5 >= 3 /\ 5 >= 4
  OBVIOUS
<1>2. PICK a \in Int, b \in Int, c \in Int, d \in Int : Numbers(n, a, b, c, d, q, 0, 5, t)
  BY <1>1, FlowNumbers
<1>3. /\ Run(q[1], n) /\ a = n + Len(q[1]) /\ Run(q[2], a) /\ b = a + Len(q[2]) - 0 /\ Run(q[3], b)
      /\ c = b + Len(q[3]) /\ Run(q[4], c) /\ d = c + Len(q[4]) /\ Run(q[5], d) /\ d + Len(q[5]) = t
  BY <1>1, <1>2 DEF Numbers
<1>4. b = a + Len(q[2]) /\ n \in Int
  <2>1. Len(q[2]) \in Nat
    BY RowCells, RowFields
  <2>. QED  BY <1>3, <2>1
<1>. QED  BY <1>3, <1>4, WholeRow

\* With the address it begins with the address.
LEMMA FullFlowWithAddress ==
  ASSUME NEW q \in Rows, NEW t \in Nat, Flow(0, q, 1, 5, t), q[1] = <<>>, q[2] = <<>>
  PROVE  Joins(AllOf(q), -1, t)
<1>1. 5 \in Nat /\ 5 <= 5 /\ 0 \in Nat /\ 1 \in Nat /\ 5 >= 1 /\ 5 >= 2 /\ 5 >= 3 /\ 5 >= 4
  OBVIOUS
<1>2. PICK a \in Int, b \in Int, c \in Int, d \in Int : Numbers(0, a, b, c, d, q, 1, 5, t)
  BY <1>1, FlowNumbers
<1>3. /\ a = 0 + Len(q[1]) /\ b = a + Len(q[2]) - 1 /\ Run(q[3], b)
      /\ c = b + Len(q[3]) /\ Run(q[4], c) /\ d = c + Len(q[4]) /\ Run(q[5], d) /\ d + Len(q[5]) = t
  BY <1>1, <1>2 DEF Numbers
<1>4. Len(<<>>) = 0 /\ Run(<<>>, -1)
  BY DEF Run
<1>5. b = -1 /\ -1 = -1 + Len(q[1]) /\ -1 = -1 + Len(q[2]) /\ -1 \in Int
  BY <1>3, <1>4
<1>. QED  BY <1>3, <1>4, <1>5, WholeRow

\* While all connections stand, both rows hold altogether.
LEMMA WholeLevels ==
  ASSUME \A l \in LinkNames : Whole(l)
  PROVE  UpLevel(hx) = 5 /\ DownLevel(hx) = 5
BY Names2 DEF Whole, Stands, UpLevel, DownLevel, Level

\* While CL has not got the address, the server has no connection.
LEMMA NothingAtServer ==
  ASSUME Sound(hx), Fresh(hx), ~ hx.sticks["CL"].parsed
  PROVE  Upward(hx)[1] = <<>> /\ Upward(hx)[2] = <<>>
<1>1. hx.sticks["CR"].life = "none"
  BY DEF Sound, InTurn
<1>2. hx.links["cd"]["near"].state = "none"
  BY <1>1, Names DEF Sound, InTurn, StateOf
<1>3. hx.links["cd"]["far"].state = "none"
  BY <1>2, Names2 DEF Sound, Shaped
<1>4. Waiting(hx, "cd", "far") = <<>> /\ Kept(hx, "CR") = <<>>
  BY <1>1, <1>3, Names2 DEF Fresh
<1>. QED  BY <1>4, RowCells DEF Upward

\* The invariant implies the property.
LEMMA FlowPreserves ==
  FlowInv => EchoPreserved
<1>. SUFFICES ASSUME FlowInv PROVE EchoPreserved
  OBVIOUS
<1>1. /\ Sound(hx) /\ hx \in Relay /\ Flows(hx) /\ Fresh(hx) /\ Early(hx)
      /\ Run(echoed, 0) /\ Run(client.got, 0)
      /\ client.sent \in Nat /\ client.got \in Seq(Nat) /\ echoed \in Seq(Nat)
      /\ Len(client.got) \in Nat /\ Len(echoed) \in Nat
  BY DEF FlowInv, HenInv, Sound, Flows, Client
<1>. DEFINE up == AllOf(Upward(hx))
            down == AllOf(Downward(hx))
            s == client.sent
<1>2. /\ Upward(hx) \in Rows /\ Downward(hx) \in Rows /\ Lag(hx) \in Nat
      /\ UpLevel(hx) \in Nat /\ UpLevel(hx) <= 5 /\ DownLevel(hx) \in Nat /\ DownLevel(hx) <= 5 /\ 0 \in Nat
      /\ Flow(Len(echoed), Upward(hx), Lag(hx), UpLevel(hx), s)
      /\ Flow(Len(client.got), Downward(hx), 0, DownLevel(hx), Len(echoed))
  BY <1>1, RelayCells DEF Flows
<1>3. Len(echoed) <= s /\ Len(client.got) <= Len(echoed)
  <2>1. ASSUME NEW n \in Nat, NEW q \in Rows, NEW lag \in Nat, NEW w \in Nat, w <= 5, NEW t \in Nat,
               Flow(n, q, lag, w, t)
        PROVE  n <= t
    <3>1. PICK a \in Int, b \in Int, c \in Int, d \in Int : Numbers(n, a, b, c, d, q, lag, w, t)
      BY <2>1, FlowNumbers
    <3>2. n + Len(q[1]) <= t
      BY <3>1 DEF Numbers
    <3>3. Len(q[1]) \in Nat
      BY RowCells, RowFields
    <3>. QED  BY <3>2, <3>3
  <2>. HIDE DEF s
  <2>2. s \in Nat
    BY <1>1 DEF s
  <2>3. Len(echoed) <= s
    BY <1>1, <1>2, <2>1, <2>2
  <2>4. Len(client.got) <= Len(echoed)
    BY <1>1, <1>2, <2>1
  <2>. QED  BY <2>3, <2>4
<1>4. Units(s) \in Seq(Nat) /\ Len(Units(s)) = s /\ Run(Units(s), 0)
  <2>. HIDE DEF s
  <2>1. s \in Nat
    BY <1>1 DEF s
  <2>2. Units(s) \in Seq(Nat) /\ Len(Units(s)) = s
    BY <2>1 DEF Units
  <2>3. \A i \in 1 .. s : Units(s)[i] = 0 + i
    BY <2>1 DEF Units
  <2>. QED  BY <2>2, <2>3 DEF Run
<1>5. IsPrefix(echoed, Units(s)) /\ IsPrefix(client.got, echoed)
  BY <1>1, <1>3, <1>4, RunPrefix
<1>. HIDE DEF up, down, s
<1>6. ASSUME NEW u \in Seq(Nat), NEW v, NEW t, Run(u, 0), Joins(v, Len(u), t)
      PROVE  u \o v = Units(t)
  <2>1. v \in Seq(Nat) /\ Run(v, Len(u)) /\ t = Len(u) + Len(v)
    BY <1>6 DEF Joins
  <2>2. u \o v \in Seq(Nat) /\ Len(u \o v) = t
    BY <2>1, ConcatProperties
  <2>3. Len(u) = 0 + Len(u) /\ 0 \in Int
    OBVIOUS
  <2>4. Run(u \o v, 0)
    BY <1>6, <2>1, <2>3, RunConcat
  <2>. QED  BY <2>2, <2>4, RunIsUnits
<1>7. ASSUME \A l \in LinkNames : Whole(l)
      PROVE  echoed \o DataIn(up) = Units(s) /\ client.got \o down = echoed
  <2>1. UpLevel(hx) = 5 /\ DownLevel(hx) = 5
    BY <1>7, WholeLevels
  <2>2. Joins(down, Len(client.got), Len(echoed))
    BY <1>1, <1>2, <2>1, FullFlow DEF down
  <2>3. client.got \o down = echoed
    <3>1. client.got \o down = Units(Len(echoed)) /\ echoed = Units(Len(echoed))
      BY <1>1, <1>6, <2>2, RunIsUnits
    <3>. QED  BY <3>1
  <2>4. CASE Lag(hx) = 0
    <3>1. Joins(up, Len(echoed), s)
      BY <1>1, <1>2, <2>1, <2>4, FullFlow DEF up, s
    <3>2. DataIn(up) = up
      <4>1. up \in Seq(Nat) /\ Run(up, Len(echoed))
        BY <3>1 DEF Joins
      <4>2. CASE up = <<>>
        BY <4>2 DEF DataIn
      <4>3. CASE up # <<>>
        <5>1. Len(up) > 0
          BY <4>1, <4>3, WholeQueue
        <5>2. Head(up) = up[1] /\ up[1] = Len(echoed) + 1
          BY <4>1, <5>1 DEF Run
        <5>3. Head(up) # Meta
          BY <1>1, <5>2 DEF Meta
        <5>. QED  BY <5>3 DEF DataIn
      <4>. QED  BY <4>2, <4>3
    <3>3. echoed \o up = Units(s)
      BY <1>1, <1>6, <3>1
    <3>. QED  BY <2>3, <3>2, <3>3
  <2>5. CASE Lag(hx) # 0
    <3>1. Lag(hx) = 1 /\ ~ hx.sticks["CL"].parsed
      BY <2>5 DEF Lag
    <3>2. echoed = <<>> /\ Len(<<>>) = 0
      BY <1>1, <3>1 DEF Early
    <3>3. Upward(hx)[1] = <<>> /\ Upward(hx)[2] = <<>>
      BY <1>1, <3>1, NothingAtServer
    <3>4. Joins(up, -1, s)
      BY <1>1, <1>2, <2>1, <3>1, <3>2, <3>3, FullFlowWithAddress DEF up, s
    <3>5. up \in Seq(Nat) /\ Run(up, -1) /\ s = -1 + Len(up) /\ Len(up) \in Nat
      BY <3>4 DEF Joins
    <3>6. s \in Nat /\ Len(up) > 0 /\ Len(up) = s + 1
      BY <1>1, <3>5 DEF s
    <3>7. up # <<>> /\ Head(up) = Meta
      <4>1. Head(up) = up[1] /\ up[1] = -1 + 1
        BY <3>5, <3>6 DEF Run
      <4>2. up # <<>>
        BY <3>2, <3>6
      <4>. QED  BY <4>1, <4>2 DEF Meta
    <3>8. Tail(up) \in Seq(Nat) /\ Len(Tail(up)) = s /\ \A i \in 1 .. s : Tail(up)[i] = up[i + 1]
      BY <3>5, <3>6, <3>7
    <3>9. Run(Tail(up), 0)
      <4>1. \A i \in 1 .. s : up[i + 1] = 0 + i
        <5>. TAKE i \in 1 .. s
        <5>1. i + 1 \in 1 .. Len(up)
          BY <3>6
        <5>2. up[i + 1] = -1 + (i + 1)
          BY <3>5, <5>1 DEF Run
        <5>. QED  BY <3>6, <5>2
      <4>. QED  BY <3>8, <4>1 DEF Run
    <3>10. echoed \o Tail(up) = Units(s)
      <4>1. Joins(Tail(up), Len(echoed), s)
        <5>1. s = 0 + s /\ 0 \in Int
          BY <3>6
        <5>. QED  BY <3>2, <3>8, <3>9, <5>1 DEF Joins
      <4>. QED  BY <1>1, <1>6, <4>1
    <3>. QED  BY <2>3, <3>7, <3>10 DEF DataIn
  <2>. QED  BY <2>4, <2>5
<1>8. /\ up = hx.links["cd"]["far"].in \o hx.sticks["CR"].wb \o hx.links["bc"]["far"].in
              \o hx.sticks["BR"].wb \o hx.links["ab"]["far"].in
      /\ down = hx.links["ab"]["near"].in \o hx.sticks["BL"].wb \o hx.links["bc"]["near"].in
                \o hx.sticks["CL"].wb \o hx.links["cd"]["near"].in
  <2>1. /\ Upward(hx)[1] = hx.links["cd"]["far"].in /\ Upward(hx)[2] = hx.sticks["CR"].wb
        /\ Upward(hx)[3] = hx.links["bc"]["far"].in /\ Upward(hx)[4] = hx.sticks["BR"].wb
        /\ Upward(hx)[5] = hx.links["ab"]["far"].in
    BY RowCells DEF Upward, Waiting, Kept
  <2>2. /\ Downward(hx)[1] = hx.links["ab"]["near"].in /\ Downward(hx)[2] = hx.sticks["BL"].wb
        /\ Downward(hx)[3] = hx.links["bc"]["near"].in /\ Downward(hx)[4] = hx.sticks["CL"].wb
        /\ Downward(hx)[5] = hx.links["cd"]["near"].in
    BY RowCells DEF Downward, Waiting, Kept
  <2>. QED  BY <2>1, <2>2, Zenon DEF up, down, AllOf
<1>. QED  BY <1>5, <1>7, <1>8, Zenon DEF EchoPreserved, s

\* What the server gets and what the client gets back is the data in order, at every
\* moment; and while no connection has ended, what is missing is on the way.  The sticks
\* of src/hen neither lose, repeat nor reorder a unit, whatever send takes of a buffer and
\* whenever the address arrives.
THEOREM EchoAlwaysPreserved == Spec => []EchoPreserved
<1>1. Init => FlowInv
  BY InitFlows
<1>2. FlowInv /\ [Next]_vars => FlowInv'
  BY NextFlows
<1>3. FlowInv => EchoPreserved
  BY FlowPreserves
<1>. QED  BY <1>1, <1>2, <1>3, PTL DEF Spec
=============================================================================
