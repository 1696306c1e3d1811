---------------------------- MODULE OctopusProofs ----------------------------
(***************************************************************************)
(* What holds of the octopus proxy for any number of units, resets and     *)
(* room: hands and dispatchers agree (HandsAgree), and no data are lost    *)
(* while connections last, nor reordered or repeated ever                  *)
(* (StreamPreserved).  The invariants are those of OctopusInvariant.       *)
(***************************************************************************)
EXTENDS OctopusInvariant, SequenceTheorems, TLAPS

-------------------------------------------------------------------------------
(* Names. *)

\* What the names stand for.
LEMMA Names ==
  /\ Mate("CD") = "CH" /\ Mate("CH") = "CD" /\ Mate("SH") = "SD" /\ Mate("SD") = "SH"
  /\ Host("CD") = "caller" /\ Host("CH") = "caller" /\ Host("SH") = "callee" /\ Host("SD") = "callee"
  /\ Link("CD") = "app" /\ Link("CH") = "relay" /\ Link("SH") = "relay" /\ Link("SD") = "org"
  /\ EndOf("CD") = "far" /\ EndOf("CH") = "near" /\ EndOf("SH") = "far" /\ EndOf("SD") = "near"
  /\ ObjectsOf("caller") = {"CD", "CH"} /\ ObjectsOf("callee") = {"SH", "SD"}
  /\ Objects = {"CD", "CH", "SH", "SD"}
<1>1. /\ Host("CD") = "caller" /\ Host("CH") = "caller" /\ Host("SH") = "callee" /\ Host("SD") = "callee"
      /\ EndOf("CD") = "far" /\ EndOf("CH") = "near" /\ EndOf("SH") = "far" /\ EndOf("SD") = "near"
      /\ Objects = {"CD", "CH", "SH", "SD"}
  BY DEF Host, EndOf, Objects, Hands, Dispatchers
<1>2. Link("CD") = "app" /\ Link("CH") = "relay" /\ Link("SH") = "relay" /\ Link("SD") = "org"
  BY DEF Link, Hands
<1>3. ObjectsOf("caller") = {"CD", "CH"} /\ ObjectsOf("callee") = {"SH", "SD"}
  BY DEF ObjectsOf, Host, Objects, Hands, Dispatchers
<1>4. Mate("CD") = "CH"
  BY <1>1, <1>3 DEF Mate
<1>5. Mate("CH") = "CD"
  BY <1>1, <1>3 DEF Mate
<1>6. Mate("SH") = "SD"
  BY <1>1, <1>3 DEF Mate
<1>7. Mate("SD") = "SH"
  BY <1>1, <1>3 DEF Mate
<1>. QED  BY <1>1, <1>2, <1>3, <1>4, <1>5, <1>6, <1>7

\* An object, its mate, its link and its host.
LEMMA Mates ==
  \A o \in Objects :
    /\ Link(o) \in LinkNames /\ EndOf(o) \in Ends /\ Host(o) \in Hosts /\ o \in ObjectsOf(Host(o))
    /\ Mate(o) \in Objects /\ Mate(o) # o /\ Mate(Mate(o)) = o /\ Host(Mate(o)) = Host(o)
    /\ o \in Hands <=> Mate(o) \in Dispatchers
    /\ o \in Hands <=> o \notin Dispatchers
    /\ o \in Hands <=> Link(o) = "relay"
    /\ \A t \in Objects : Link(t) = Link(o) /\ EndOf(t) = EndOf(o) => t = o
    /\ \A t \in Objects : Host(t) = Host(o) => t \in {o, Mate(o)}
BY Names DEF Hands, Dispatchers, LinkNames, Ends, Hosts

-------------------------------------------------------------------------------
(* Links. *)

\* Min of a pair.
LEMMA MinOfTwo ==
  ASSUME NEW a \in Int, NEW b \in Int
  PROVE  Min({a, b}) = IF a <= b THEN a ELSE b
<1>. DEFINE m == IF a <= b THEN a ELSE b
<1>1. m \in {a, b} /\ \A y \in {a, b} : m <= y
  OBVIOUS
<1>2. ASSUME NEW x \in {a, b}, \A y \in {a, b} : x <= y
      PROVE  x = m
  BY <1>2
<1>. QED  BY <1>1, <1>2 DEF Min

\* The first n units are sent, the others kept.
LEMMA Split ==
  ASSUME NEW u \in Seq(Int), NEW n \in 0 .. Len(u)
  PROVE  /\ SubSeq(u, 1, n) \in Seq(Int) /\ Len(SubSeq(u, 1, n)) = n
         /\ SubSeq(u, n + 1, Len(u)) \in Seq(Int) /\ Len(SubSeq(u, n + 1, Len(u))) = Len(u) - n
<1>1. \A i \in 1 .. n : u[i] \in Int
  OBVIOUS
<1>2. /\ SubSeq(u, 1, n) \in Seq(Int)
      /\ Len(SubSeq(u, 1, n)) = IF 1 <= n THEN n - 1 + 1 ELSE 0
  BY <1>1, SubSeqProperties
<1>3. \A i \in n + 1 .. Len(u) : u[i] \in Int
  OBVIOUS
<1>4. /\ SubSeq(u, n + 1, Len(u)) \in Seq(Int)
      /\ Len(SubSeq(u, n + 1, Len(u))) = IF n + 1 <= Len(u) THEN Len(u) - (n + 1) + 1 ELSE 0
  BY <1>3, SubSeqProperties
<1>. QED  BY <1>2, <1>4

\* The fields of an end of a link.
LEMMA WireFields ==
  ASSUME NEW l \in Wire, NEW e \in Ends
  PROVE  /\ l[e] \in WireEnd /\ l[e].in \in Seq(Int) /\ Len(l[e].in) \in 0 .. Room
         /\ l[e].eof \in BOOLEAN /\ l[e].reset \in BOOLEAN /\ l[e].error \in BOOLEAN
         /\ l[e].state \in {"none", "connecting", "queued", "open", "closed"}
         /\ Peer(e) \in Ends /\ Peer(e) # e /\ Peer(Peer(e)) = e
         /\ Peer("near") = "far" /\ Peer("far") = "near"
         /\ "near" \in Ends /\ "far" \in Ends
<1>1. l[e] \in WireEnd
  BY DEF Wire, WireEnd
<1>2. l[e] \in End /\ l[e].in \in Seq(Int) /\ Len(l[e].in) <= Room
  BY <1>1 DEF WireEnd, End
<1>3. /\ l[e].eof \in BOOLEAN /\ l[e].reset \in BOOLEAN /\ l[e].error \in BOOLEAN
      /\ l[e].state \in {"none", "connecting", "queued", "open", "closed"}
  BY <1>2 DEF End
<1>. QED  BY <1>1, <1>2, <1>3, RoomAssumption DEF Peer, Ends

\* An end of a link changes.
LEMMA EndChanges ==
  ASSUME NEW l \in Wire, NEW e \in Ends, NEW k \in WireEnd
  PROVE  /\ [l EXCEPT ![e] = k] \in Wire /\ [l EXCEPT ![e] = k][e] = k
         /\ [l EXCEPT ![e] = k][Peer(e)] = l[Peer(e)]
BY WireFields DEF Wire, WireEnd

\* An end with another state is an end.
LEMMA EndState ==
  ASSUME NEW j \in WireEnd, NEW v \in States
  PROVE  [j EXCEPT !.state = v] \in WireEnd /\ [j EXCEPT !.state = v].state = v
<1>1. j \in End /\ j.in \in Seq(Int) /\ Len(j.in) <= Room
  BY DEF WireEnd, End
<1>. DEFINE k == [j EXCEPT !.state = v]
<1>2. k \in End /\ k.state = v /\ k.in = j.in
  BY <1>1 DEF End, States
<1>. HIDE DEF k
<1>3. k \in WireEnd /\ k.state = v
  BY <1>1, <1>2 DEF WireEnd
<1>. QED  BY <1>3 DEF k

\* The state of one end changes, and the other end does not.
LEMMA SetStateFacts ==
  ASSUME NEW l \in Wire, NEW e \in Ends, NEW v \in States
  PROVE  /\ SetState(l, e, v) \in Wire /\ SetState(l, e, v)[e].state = v
         /\ SetState(l, e, v)[Peer(e)] = l[Peer(e)]
<1>. DEFINE k == [l[e] EXCEPT !.state = v]
<1>1. k \in WireEnd /\ k.state = v
  BY WireFields, EndState
<1>2. SetState(l, e, v) = [l EXCEPT ![e] = k]
  BY DEF SetState
<1>. HIDE DEF k
<1>3. [l EXCEPT ![e] = k] \in Wire /\ [l EXCEPT ![e] = k][e] = k /\ [l EXCEPT ![e] = k][Peer(e)] = l[Peer(e)]
  BY <1>1, EndChanges
<1>. QED  BY <1>1, <1>2, <1>3

\* The ends that a new and a closed socket start with.
LEMMA ConstantEnds ==
  /\ ClosedEnd \in WireEnd /\ ClosedEnd.state = "closed"
  /\ NoEnd \in WireEnd /\ NoEnd.state = "none"
<1>1. <<>> \in Seq(Int) /\ <<>> \in Seq(Int) /\ Len(<<>>) = 0 /\ 0 <= Room
  BY RoomAssumption
<1>2. NoEnd = [state |-> "none", in |-> <<>>, eof |-> FALSE, reset |-> FALSE, error |-> FALSE]
  BY DEF NoEnd
<1>3. NoEnd \in End /\ NoEnd.in = <<>> /\ NoEnd.state = "none"
  BY <1>1, <1>2 DEF End
<1>4. NoEnd \in WireEnd
  BY <1>1, <1>3 DEF WireEnd
<1>. QED  BY <1>3, <1>4, EndState DEF ClosedEnd, States

\* Records that change in what is waiting or in the marks.
LEMMA EndData ==
  ASSUME NEW j \in WireEnd, NEW u \in Seq(Int), Len(u) <= Room
  PROVE  [j EXCEPT !.in = u] \in WireEnd /\ [j EXCEPT !.in = u].state = j.state
<1>1. j \in End /\ u \in Seq(Int)
  BY DEF WireEnd
<1>2. [j EXCEPT !.in = u] \in End /\ [j EXCEPT !.in = u].state = j.state /\ [j EXCEPT !.in = u].in = u
  BY <1>1 DEF End
<1>. QED  BY <1>2 DEF WireEnd

\* The marks of an end change, its state does not.
LEMMA EndMarks ==
  ASSUME NEW j \in WireEnd
  PROVE  /\ [j EXCEPT !.error = FALSE] \in WireEnd /\ [j EXCEPT !.error = FALSE].state = j.state
         /\ [j EXCEPT !.eof = TRUE] \in WireEnd /\ [j EXCEPT !.eof = TRUE].state = j.state
BY DEF WireEnd, End

\* A reset leaves the state of the end.
LEMMA ResetEndFacts ==
  ASSUME NEW j \in WireEnd
  PROVE  ResetEnd(j) \in WireEnd /\ ResetEnd(j).state = j.state
BY DEF ResetEnd, WireEnd, End

\* The same with another end of the same state.
LEMMA EndSameState ==
  ASSUME NEW l \in Wire, NEW e \in Ends, NEW k \in WireEnd, k.state = l[e].state
  PROVE  SameStates(l, [l EXCEPT ![e] = k])
BY WireFields, EndChanges DEF SameStates, Ends

\* Calls that move data or mark an end leave the states, and a send respects the room.
LEMMA LinkData ==
  ASSUME NEW l \in Wire, NEW e \in Ends
  PROVE  /\ \A n \in 0 .. Len(l[e].in) : SameStates(l, Consume(l, e, n))
         /\ SameStates(l, ErrorRead(l, e))
         /\ SameStates(l, Refuse(l)) /\ SameStates(l, Break(l))
         /\ \A n \in Nat : Taken(l, e, n) \in 0 .. n /\ Taken(l, e, n) + Len(l[Peer(e)].in) <= Room
<1>1. ASSUME NEW n \in 0 .. Len(l[e].in)  PROVE SameStates(l, Consume(l, e, n))
  <2>. DEFINE u == SubSeq(l[e].in, n + 1, Len(l[e].in))
              k == [l[e] EXCEPT !.in = u]
  <2>1. l[e] \in WireEnd /\ l[e].in \in Seq(Int) /\ Len(l[e].in) <= Room /\ Len(l[e].in) \in Nat
    BY WireFields
  <2>0. u \in Seq(Int) /\ Len(u) = Len(l[e].in) - n
    BY <2>1, Split
  <2>. HIDE DEF u
  <2>2. k \in WireEnd /\ k.state = l[e].state
    <3>1. Len(u) <= Room
      BY <2>0, <2>1, RoomAssumption
    <3>. QED  BY <2>0, <2>1, <3>1, EndData
  <2>3. Consume(l, e, n) = [l EXCEPT ![e] = k]
    BY DEF Consume, u
  <2>. HIDE DEF k
  <2>. QED  BY <2>2, <2>3, EndSameState
<1>2. SameStates(l, ErrorRead(l, e))
  <2>. DEFINE k == [l[e] EXCEPT !.error = FALSE]
  <2>1. k \in WireEnd /\ k.state = l[e].state
    BY WireFields, EndMarks
  <2>2. ErrorRead(l, e) = [l EXCEPT ![e] = k]
    BY DEF ErrorRead
  <2>. HIDE DEF k
  <2>. QED  BY <2>1, <2>2, EndSameState
<1>3. SameStates(l, Refuse(l))
  <2>1. Refuse(l) = [l EXCEPT !["near"] = ResetEnd(l["near"])]
    BY DEF Refuse
  <2>2. "near" \in Ends /\ l["near"] \in WireEnd
    BY WireFields
  <2>. QED  BY <2>1, <2>2, ResetEndFacts, EndSameState
<1>4. SameStates(l, Break(l))
  <2>1. \A f \in Ends : ResetEnd(l[f]) \in WireEnd /\ ResetEnd(l[f]).state = l[f].state /\ l[f] \in WireEnd
    BY WireFields, ResetEndFacts
  <2>. QED  BY <2>1 DEF Break, SameStates, Wire, WireEnd
<1>5. ASSUME NEW n \in Nat
      PROVE  Taken(l, e, n) \in 0 .. n /\ Taken(l, e, n) + Len(l[Peer(e)].in) <= Room
  <2>. DEFINE u == Len(l[Peer(e)].in)
  <2>1. u \in 0 .. Room /\ Room \in Nat
    BY WireFields, RoomAssumption
  <2>2. Min({n, Room - u}) = IF n <= Room - u THEN n ELSE Room - u
    BY <2>1, MinOfTwo
  <2>3. Taken(l, e, n) = IF l[e].state # "open" \/ l[e].reset THEN 0
                         ELSE IF n <= Room - u THEN n ELSE Room - u
    BY <2>2 DEF Taken, RoomFor
  <2>. HIDE DEF u
  <2>4. Taken(l, e, n) \in 0 .. n /\ Taken(l, e, n) + u <= Room
    BY <2>1, <2>3
  <2>. QED  BY <2>4 DEF u
<1>. QED  BY <1>1, <1>2, <1>3, <1>4, <1>5

\* A send leaves the states of both ends.
LEMMA SendKeepsStates ==
  ASSUME NEW l \in Wire, NEW e \in Ends, NEW data \in Seq(Int)
  PROVE  SameStates(l, Send(l, e, data))
<1>. DEFINE p == Peer(e)
            n == Taken(l, e, Len(data))
            u == l[p].in \o SubSeq(data, 1, n)
            j == [l[e] EXCEPT !.error = FALSE]
            k == [l[p] EXCEPT !.in = u]
<1>1. /\ p \in Ends /\ l[e] \in WireEnd /\ l[p] \in WireEnd
      /\ l[p].in \in Seq(Int) /\ Len(data) \in Nat
  BY WireFields
<1>2. n \in 0 .. Len(data) /\ n + Len(l[p].in) <= Room
  BY <1>1, LinkData
<1>3. u \in Seq(Int) /\ Len(u) <= Room
  <2>1. SubSeq(data, 1, n) \in Seq(Int) /\ Len(SubSeq(data, 1, n)) = n
    BY <1>2, Split
  <2>2. u \in Seq(Int) /\ Len(u) = Len(l[p].in) + Len(SubSeq(data, 1, n))
    BY <1>1, <2>1, ConcatProperties
  <2>. QED  BY <1>1, <1>2, <2>1, <2>2
<1>4. Send(l, e, data) = IF n = 0 THEN [l EXCEPT ![e] = j]
                         ELSE IF l[p].state = "closed" THEN [l EXCEPT ![e] = ResetEnd(l[e])]
                         ELSE [l EXCEPT ![p] = k]
  BY DEF Send
<1>. HIDE DEF u, n
<1>5. j \in WireEnd /\ j.state = l[e].state /\ k \in WireEnd /\ k.state = l[p].state
  BY <1>1, <1>3, EndData, EndMarks
<1>6. ResetEnd(l[e]) \in WireEnd /\ ResetEnd(l[e]).state = l[e].state
  BY <1>1, ResetEndFacts
<1>. HIDE DEF j, k, p
<1>. QED  BY <1>1, <1>4, <1>5, <1>6, EndSameState

\* Only the state of the end changes that is closed.
LEMMA CloseStates ==
  ASSUME NEW l \in Wire, NEW e \in Ends
  PROVE  /\ Close(l, e) \in Wire
         /\ Close(l, e)[e].state = IF HasFd(l, e) THEN "closed" ELSE l[e].state
         /\ Close(l, e)[Peer(e)].state = l[Peer(e)].state
<1>. DEFINE p == Peer(e)
            m == [l EXCEPT ![e] = ClosedEnd]
            j == [l[p] EXCEPT !.eof = TRUE]
<1>1. p \in Ends /\ p # e /\ Peer(p) = e /\ l[p] \in WireEnd
  BY WireFields
<1>2. m \in Wire /\ m[e] = ClosedEnd /\ m[p] = l[p]
  BY ConstantEnds, EndChanges
<1>3. Close(l, e) = IF ~ HasFd(l, e) THEN l
                    ELSE IF l[p].state \notin {"open", "queued"} THEN m
                    ELSE IF l[e].in # <<>> THEN [m EXCEPT ![p] = ResetEnd(l[p])]
                    ELSE [m EXCEPT ![p] = j]
  BY <1>2 DEF Close, ClosedEnd
<1>4. /\ j \in WireEnd /\ j.state = l[p].state
      /\ ResetEnd(l[p]) \in WireEnd /\ ResetEnd(l[p]).state = l[p].state
  BY <1>1, ResetEndFacts DEF WireEnd, End
<1>. HIDE DEF m, j, p
<1>5. \A k \in WireEnd : [m EXCEPT ![p] = k] \in Wire /\ [m EXCEPT ![p] = k][p] = k /\ [m EXCEPT ![p] = k][e] = m[e]
  BY <1>1, <1>2, EndChanges
<1>. QED  BY <1>1, <1>2, <1>3, <1>4, <1>5, ConstantEnds DEF p

\* What the calls that change states do to them.
LEMMA OtherLinkCalls ==
  ASSUME NEW l \in Wire
  PROVE  /\ SameStates(l, Accept(l)) \/ l["far"].state # "open"
         /\ Accept(l) \in Wire /\ Accept(l)["far"].state = "open" /\ Accept(l)["near"] = l["near"]
         /\ Abandon(l) \in Wire /\ Abandon(l)["near"].state = l["near"].state
         /\ Abandon(l)["far"].state = IF l["far"].state = "queued" THEN "closed" ELSE l["far"].state
         /\ Establish(l) \in Wire
         /\ Establish(l)["near"].state = "open" /\ Establish(l)["far"].state = "queued"
<1>1. /\ "near" \in Ends /\ "far" \in Ends /\ Peer("near") = "far" /\ Peer("far") = "near"
      /\ l["near"] \in WireEnd /\ l["far"] \in WireEnd
      /\ "open" \in States /\ "queued" \in States
  BY WireFields DEF Ends, States
<1>4. Accept(l) \in Wire /\ Accept(l)["far"].state = "open" /\ Accept(l)["near"] = l["near"]
  <2>1. Accept(l) = SetState(l, "far", "open")
    BY DEF Accept, SetState
  <2>. QED  BY <1>1, <2>1, SetStateFacts
<1>5. /\ Abandon(l) \in Wire /\ Abandon(l)["near"].state = l["near"].state
      /\ Abandon(l)["far"].state = IF l["far"].state = "queued" THEN "closed" ELSE l["far"].state
  <2>. DEFINE m == [l EXCEPT !["near"] = ResetEnd(l["near"])]
  <2>1. m \in Wire /\ m["near"].state = l["near"].state /\ m["far"] = l["far"]
    BY <1>1, ResetEndFacts, EndChanges
  <2>2. Abandon(l) = IF l["far"].state # "queued" THEN l ELSE [m EXCEPT !["far"] = ClosedEnd]
    BY DEF Abandon, ClosedEnd
  <2>. HIDE DEF m
  <2>. QED  BY <1>1, <2>1, <2>2, ConstantEnds, EndChanges
<1>6. Establish(l) \in Wire /\ Establish(l)["near"].state = "open" /\ Establish(l)["far"].state = "queued"
  <2>. DEFINE m == SetState(l, "near", "open")
              n == SetState(m, "far", "queued")
  <2>1. m \in Wire /\ m["near"].state = "open" /\ m["far"] = l["far"]
    BY <1>1, SetStateFacts
  <2>2. Establish(l) = n
    BY DEF Establish, SetState
  <2>. HIDE DEF m
  <2>3. n \in Wire /\ n["far"].state = "queued" /\ n["near"] = m["near"]
    BY <1>1, <2>1, SetStateFacts
  <2>. QED  BY <2>1, <2>2, <2>3
<1>7. SameStates(l, Accept(l)) \/ l["far"].state # "open"
  BY <1>1, <1>4 DEF SameStates, Ends
<1>. QED  BY <1>4, <1>5, <1>6, <1>7

\* Links before and after connect was called.
LEMMA NewLinks ==
  /\ Connecting \in Wire /\ Connecting["near"].state = "connecting" /\ Connecting["far"].state = "none"
  /\ NoLink \in Wire /\ NoLink["near"].state = "none" /\ NoLink["far"].state = "none"
<1>1. NoLink \in Wire /\ NoLink["near"].state = "none" /\ NoLink["far"].state = "none"
  BY ConstantEnds DEF NoLink, Wire, WireEnd, Ends
<1>2. "near" \in Ends /\ Peer("near") = "far" /\ "connecting" \in States
  BY DEF Ends, Peer, States
<1>3. Connecting = SetState(NoLink, "near", "connecting")
  BY DEF Connecting, SetState
<1>. QED  BY <1>1, <1>2, <1>3, SetStateFacts

\* A close adds nothing to what waits at the ends.
LEMMA CloseNoMore ==
  ASSUME NEW l \in Wire, NEW e \in Ends
  PROVE  NoMore(l, Close(l, e))
<1>. DEFINE p == Peer(e)
            m == [l EXCEPT ![e] = ClosedEnd]
<1>1. p \in Ends /\ p # e /\ Ends = {e, p} /\ l[p] \in End
  BY WireFields DEF Ends, WireEnd
<1>2. m[e].in = <<>> /\ m[p] = l[p] /\ DOMAIN m = Ends /\ DOMAIN l = Ends
  BY <1>1 DEF ClosedEnd, NoEnd, Wire
<1>3. Close(l, e) = IF ~ HasFd(l, e) THEN l
                    ELSE IF l[p].state \notin {"open", "queued"} THEN m
                    ELSE IF l[e].in # <<>> THEN [m EXCEPT ![p] = ResetEnd(l[p])]
                    ELSE [m EXCEPT ![p] = [l[p] EXCEPT !.eof = TRUE]]
  BY <1>2 DEF Close, ClosedEnd
<1>4. ResetEnd(l[p]).in = l[p].in /\ [l[p] EXCEPT !.eof = TRUE].in = l[p].in
  BY <1>1 DEF ResetEnd, End
<1>. HIDE DEF m, p
<1>5. \A k : [m EXCEPT ![p] = k][p] = k /\ [m EXCEPT ![p] = k][e] = m[e]
  BY <1>1, <1>2
<1>. QED  BY <1>1, <1>2, <1>3, <1>4, <1>5 DEF NoMore

\* Nor do the other calls that send nothing.
LEMMA OtherNoMore ==
  ASSUME NEW l \in Wire
  PROVE  /\ NoMore(l, Accept(l)) /\ NoMore(l, Establish(l)) /\ NoMore(l, Refuse(l))
         /\ NoMore(l, Break(l)) /\ NoMore(l, Abandon(l)) /\ NoMore(l, Connecting)
         /\ \A e \in Ends : NoMore(l, Consume(l, e, Len(l[e].in)))
<1>1. /\ DOMAIN l = Ends /\ Ends = {"near", "far"}
      /\ \A e \in Ends : l[e] \in End /\ l[e].in \in Seq(Int)
  BY WireFields DEF Ends, WireEnd, Wire
<1>2. \A e \in Ends : ResetEnd(l[e]).in = l[e].in
  BY <1>1 DEF ResetEnd, End
<1>3. NoMore(l, Accept(l))
  BY <1>1 DEF NoMore, Accept, End
<1>4. NoMore(l, Establish(l))
  BY <1>1 DEF NoMore, Establish, End
<1>5. NoMore(l, Refuse(l))
  BY <1>1, <1>2 DEF NoMore, Refuse
<1>6. NoMore(l, Break(l))
  BY <1>1, <1>2 DEF NoMore, Break
<1>7. NoMore(l, Abandon(l))
  <2>1. [NoEnd EXCEPT !.state = "closed"].in = <<>>
    BY DEF NoEnd
  <2>. QED  BY <1>1, <1>2, <2>1 DEF NoMore, Abandon
<1>8. NoMore(l, Connecting)
  <2>1. [NoEnd EXCEPT !.state = "connecting"].in = <<>> /\ NoEnd.in = <<>>
    BY DEF NoEnd
  <2>2. Connecting = [NoLink EXCEPT !["near"] = [NoEnd EXCEPT !.state = "connecting"]]
    BY DEF Connecting, NoLink, Ends
  <2>. QED  BY <1>1, <2>1, <2>2 DEF NoMore, NoLink
<1>9. ASSUME NEW e \in Ends
      PROVE  NoMore(l, Consume(l, e, Len(l[e].in)))
  <2>. DEFINE u == SubSeq(l[e].in, Len(l[e].in) + 1, Len(l[e].in))
  <2>1. u \in Seq(Int) /\ Len(u) = Len(l[e].in) - Len(l[e].in) /\ Len(l[e].in) \in Nat
    BY <1>1, Split
  <2>2. u = <<>>
    BY <2>1, EmptySeq
  <2>3. Consume(l, e, Len(l[e].in)) = [l EXCEPT ![e] = [l[e] EXCEPT !.in = u]]
    BY DEF Consume
  <2>. HIDE DEF u
  <2>4. [l[e] EXCEPT !.in = u].in = u
    BY <1>1 DEF End
  <2>. QED  BY <1>1, <2>2, <2>3, <2>4 DEF NoMore
<1>. QED  BY <1>3, <1>4, <1>5, <1>6, <1>7, <1>8, <1>9

\* What is sent arrives at the other end, or is lost.
LEMMA SendIns ==
  ASSUME NEW l \in Wire, NEW e \in Ends, NEW data \in Seq(Int)
  PROVE  /\ Send(l, e, data)[e].in = l[e].in
         /\ Len(Send(l, e, data)[Peer(e)].in) <= Len(l[Peer(e)].in) + Taken(l, e, Len(data))
         /\ Taken(l, e, Len(data)) \in 0 .. Len(data)
<1>. DEFINE p == Peer(e)
            n == Taken(l, e, Len(data))
            u == l[p].in \o SubSeq(data, 1, n)
<1>1. /\ p \in Ends /\ p # e /\ l[e] \in End /\ l[p] \in End /\ DOMAIN l = Ends
      /\ l[p].in \in Seq(Int) /\ Len(data) \in Nat /\ Len(l[p].in) \in Nat
  BY WireFields DEF WireEnd, Wire
<1>2. n \in 0 .. Len(data)
  BY <1>1, LinkData
<1>3. Len(u) = Len(l[p].in) + n
  <2>1. SubSeq(data, 1, n) \in Seq(Int) /\ Len(SubSeq(data, 1, n)) = n
    BY <1>2, Split
  <2>. QED  BY <1>1, <2>1, ConcatProperties
<1>4. Send(l, e, data) = IF n = 0 THEN [l EXCEPT ![e] = [l[e] EXCEPT !.error = FALSE]]
                         ELSE IF l[p].state = "closed" THEN [l EXCEPT ![e] = ResetEnd(l[e])]
                         ELSE [l EXCEPT ![p] = [l[p] EXCEPT !.in = u]]
  BY DEF Send
<1>. HIDE DEF u, n
<1>5. /\ [l[e] EXCEPT !.error = FALSE].in = l[e].in /\ ResetEnd(l[e]).in = l[e].in
      /\ [l[p] EXCEPT !.in = u].in = u
  BY <1>1 DEF End, ResetEnd
<1>. HIDE DEF p
<1>6. /\ Send(l, e, data)[e].in = l[e].in
      /\ Send(l, e, data)[p].in = l[p].in \/ Send(l, e, data)[p].in = u
  BY <1>1, <1>4, <1>5
<1>7. Len(Send(l, e, data)[p].in) <= Len(l[p].in) + n
  BY <1>1, <1>2, <1>3, <1>6
<1>. QED  BY <1>2, <1>6, <1>7 DEF p, n

-------------------------------------------------------------------------------
(* The proxy. *)

\* The types of the parts of a proxy.
LEMMA ProxyFields ==
  ASSUME NEW x \in Proxy
  PROVE  /\ x.links \in [LinkNames -> Wire] /\ \A l \in LinkNames : x.links[l] \in Wire
         /\ x.objects \in [Objects -> Object] /\ \A o \in Objects : x.objects[o] \in Object
         /\ x.hosts \in [Hosts -> Context(Objects)] /\ \A h \in Hosts : x.hosts[h] \in Context(Objects)
BY DEF Proxy

\* The types of the fields of an object.
LEMMA ObjectFields ==
  ASSUME NEW k \in Object
  PROVE  /\ k.life \in {"none", "live", "destroyed", "deleted"}
         /\ k.status \in {"min", "connecting", "connected", "disconn"}
         /\ k.dispatcher \in BOOLEAN /\ k.hands \in {"none", "wait", "ready"}
         /\ k.wb \in Seq(Int) /\ Len(k.wb) \in Nat /\ k.waitClose \in BOOLEAN /\ k.alarm \in BOOLEAN
         /\ k.meta \in BOOLEAN /\ k.ack \in BOOLEAN
<1>1. k.wb \in Seq(Int)
  BY DEF Object
<1>2. Len(k.wb) \in Nat
  BY <1>1, LenProperties
<1>. QED  BY <1>1, <1>2 DEF Object

\* What the parts are after one of them changes.
LEMMA SetFacts ==
  ASSUME NEW x \in Proxy
  PROVE  /\ \A l \in LinkNames, k \in Wire :
              /\ SetLink(x, l, k) \in Proxy /\ SetLink(x, l, k).links = [x.links EXCEPT ![l] = k]
              /\ SetLink(x, l, k).objects = x.objects /\ SetLink(x, l, k).hosts = x.hosts
         /\ \A o \in Objects, k \in Object :
              /\ SetObject(x, o, k) \in Proxy /\ SetObject(x, o, k).links = x.links
              /\ SetObject(x, o, k).objects = [x.objects EXCEPT ![o] = k] /\ SetObject(x, o, k).hosts = x.hosts
         /\ \A h \in Hosts, c \in Context(Objects) :
              /\ SetHost(x, h, c) \in Proxy /\ SetHost(x, h, c).links = x.links
              /\ SetHost(x, h, c).objects = x.objects /\ SetHost(x, h, c).hosts = [x.hosts EXCEPT ![h] = c]
<1>1. ASSUME NEW l \in LinkNames, NEW k \in Wire
      PROVE  /\ SetLink(x, l, k) \in Proxy /\ SetLink(x, l, k).links = [x.links EXCEPT ![l] = k]
             /\ SetLink(x, l, k).objects = x.objects /\ SetLink(x, l, k).hosts = x.hosts
  BY DEF SetLink, Proxy
<1>2. ASSUME NEW o \in Objects, NEW k \in Object
      PROVE  /\ SetObject(x, o, k) \in Proxy /\ SetObject(x, o, k).links = x.links
             /\ SetObject(x, o, k).objects = [x.objects EXCEPT ![o] = k] /\ SetObject(x, o, k).hosts = x.hosts
  BY DEF SetObject, Proxy
<1>3. ASSUME NEW h \in Hosts, NEW c \in Context(Objects)
      PROVE  /\ SetHost(x, h, c) \in Proxy /\ SetHost(x, h, c).links = x.links
             /\ SetHost(x, h, c).objects = x.objects /\ SetHost(x, h, c).hosts = [x.hosts EXCEPT ![h] = c]
  BY DEF SetHost, Proxy
<1>. QED  BY <1>1, <1>2, <1>3

\* The two that follow say the same of each part by itself.
LEMMA LinkSet ==
  ASSUME NEW x \in Proxy, NEW l \in LinkNames, NEW k \in Wire
  PROVE  LET y == SetLink(x, l, k)
         IN  /\ y \in Proxy /\ y.objects = x.objects /\ y.hosts = x.hosts
             /\ y.links[l] = k /\ \A m \in LinkNames : m # l => y.links[m] = x.links[m]
<1>. DEFINE y == SetLink(x, l, k)
<1>1. y \in Proxy /\ y.links = [x.links EXCEPT ![l] = k] /\ y.objects = x.objects /\ y.hosts = x.hosts
  BY SetFacts
<1>. HIDE DEF y
<1>2. y.links[l] = k /\ \A m \in LinkNames : m # l => y.links[m] = x.links[m]
  BY <1>1, ProxyFields
<1>. QED  BY <1>1, <1>2 DEF y

\* One object is replaced.
LEMMA ObjectSet ==
  ASSUME NEW x \in Proxy, NEW o \in Objects, NEW k \in Object
  PROVE  LET y == SetObject(x, o, k)
         IN  /\ y \in Proxy /\ y.links = x.links /\ y.hosts = x.hosts
             /\ y.objects[o] = k /\ \A t \in Objects : t # o => y.objects[t] = x.objects[t]
<1>. DEFINE y == SetObject(x, o, k)
<1>1. y \in Proxy /\ y.objects = [x.objects EXCEPT ![o] = k] /\ y.links = x.links /\ y.hosts = x.hosts
  BY SetFacts
<1>. HIDE DEF y
<1>2. y.objects[o] = k /\ \A t \in Objects : t # o => y.objects[t] = x.objects[t]
  BY <1>1, ProxyFields
<1>. QED  BY <1>1, <1>2 DEF y

\* Base looks at nothing but what Same keeps.
LEMMA SameBase ==
  ASSUME NEW x, NEW y, Base(x), Same(x, y)
  PROVE  Base(y)
<1>1. \A o \in Objects : StateOf(y, o) = StateOf(x, o)
  BY Mates DEF Same, SameStates, StateOf
<1>2. \A l \in LinkNames : Shaped(y.links[l])
  BY DEF Same, SameStates, Base, Shaped, Ends
<1>3. \A o \in Objects : Own(y, o)
  <2>. TAKE o \in Objects
  <2>1. Own(x, o)
    BY DEF Base
  <2>. QED  BY <1>1, <2>1 DEF Same, Own
<1>4. InTurn(y)
  <2>1. InTurn(x) /\ Objects = {"CD", "CH", "SH", "SD"}
    BY Names DEF Base
  <2>. QED  BY <1>1, <2>1 DEF Same, InTurn, Hands
<1>5. y \in Proxy /\ \A h \in Hosts : TasksOf(y.hosts[h]) \subseteq ObjectsOf(h)
  BY DEF Same, Base
<1>. QED  BY <1>2, <1>3, <1>4, <1>5 DEF Base

\* Quiet is kept where the marks are, and nothing new waits before the answer.
LEMMA QuietKept ==
  ASSUME NEW x, NEW y, Quiet(x), Marks(x, y), x.objects["SH"].ack \/ Waits(x, y),
         Heading(x) \in Nat, Heading(y) \in Nat
  PROVE  Quiet(y)
<1>1. /\ y.objects["CH"].ack = x.objects["CH"].ack /\ y.objects["SH"].ack = x.objects["SH"].ack
      /\ y.objects["SH"].meta = x.objects["SH"].meta /\ y.objects["CH"].meta = x.objects["CH"].meta
      /\ \A o \in {"CD", "SH", "SD"} : y.objects[o].alarm = x.objects[o].alarm
  BY Names DEF Marks
<1>2. /\ ~ y.objects["CH"].ack => ~ y.objects["CD"].alarm
      /\ y.objects["SH"].ack => y.objects["SH"].meta
  BY <1>1 DEF Quiet
<1>3. CASE x.objects["SH"].ack
  BY <1>1, <1>2, <1>3 DEF Quiet
<1>4. CASE ~ x.objects["SH"].ack
  <2>1. /\ ~ x.objects["CH"].ack
        /\ x.links["relay"]["near"].in = <<>>
        /\ Heading(x) <= (IF x.objects["SH"].meta \/ ~ x.objects["CH"].meta THEN 0 ELSE 1)
        /\ \A o \in {"SH", "SD"} : x.objects[o].wb = <<>> /\ ~ x.objects[o].alarm
    BY <1>4 DEF Quiet
  <2>2. Waits(x, y)
    BY <1>4
  <2>3. Heading(y) <= (IF y.objects["SH"].meta \/ ~ y.objects["CH"].meta THEN 0 ELSE 1)
    BY <1>1, <2>1, <2>2 DEF Waits
  <2>. QED  BY <1>1, <1>2, <2>1, <2>2, <2>3 DEF Quiet, Waits
<1>. QED  BY <1>3, <1>4

\* How many units head for the hand of the callee is a number.
LEMMA HeadingNat ==
  ASSUME NEW x \in Proxy
  PROVE  /\ Heading(x) \in Nat /\ x.links["relay"] \in Wire /\ "relay" \in LinkNames
         /\ x.links["relay"]["far"].in \in Seq(Int) /\ Len(x.links["relay"]["far"].in) \in Nat
         /\ Len(x.objects["CH"].wb) \in Nat
<1>1. /\ Objects = {"CD", "CH", "SH", "SD"} /\ "far" \in Ends /\ "relay" \in LinkNames
      /\ x.links["relay"] \in Wire
  BY Names, ProxyFields DEF Ends, LinkNames
<1>2. x.links["relay"]["far"].in \in Seq(Int) /\ Len(x.links["relay"]["far"].in) \in Nat
  BY <1>1, WireFields
<1>3. Len(x.objects["CH"].wb) \in Nat
  BY <1>1, ProxyFields, ObjectFields
<1>4. Heading(x) \in Nat
  <2>. DEFINE a == Len(x.links["relay"]["far"].in)
              b == Len(x.objects["CH"].wb)
  <2>1. Heading(x) = b + a
    BY DEF Heading
  <2>. HIDE DEF a, b
  <2>2. a \in Nat /\ b \in Nat
    BY <1>2, <1>3 DEF a, b
  <2>. QED  BY <2>1, <2>2
<1>. QED  BY <1>1, <1>2, <1>3, <1>4

\* A step that sends nothing keeps Quiet.
LEMMA CalmQuiet ==
  ASSUME NEW x \in Proxy, NEW y, Quiet(x), Calm(x, y)
  PROVE  Quiet(y)
<1>1. /\ Objects = {"CD", "CH", "SH", "SD"} /\ "near" \in Ends /\ "far" \in Ends
      /\ Heading(x) \in Nat /\ Len(x.links["relay"]["far"].in) \in Nat /\ Len(x.objects["CH"].wb) \in Nat
  BY Names, HeadingNat DEF Ends
<1>. DEFINE m == Len(y.links["relay"]["far"].in)
            n == Len(x.links["relay"]["far"].in)
<1>2. m <= n /\ m \in Nat /\ n \in Nat
  <2>1. Len(<<>>) = 0
    OBVIOUS
  <2>2. y.links["relay"]["far"].in = x.links["relay"]["far"].in \/ y.links["relay"]["far"].in = <<>>
    BY <1>1 DEF Calm, NoMore
  <2>3. m = n \/ m = 0
    BY <2>1, <2>2
  <2>. HIDE DEF m
  <2>. QED  BY <1>1, <2>3
<1>3. y.objects["CH"].wb = x.objects["CH"].wb
  BY <1>1 DEF Calm
<1>4. Heading(x) = Len(x.objects["CH"].wb) + n /\ Heading(y) = Len(y.objects["CH"].wb) + m
  BY DEF Heading
<1>. HIDE DEF m, n
<1>5. Heading(y) <= Heading(x) /\ Heading(y) \in Nat
  BY <1>1, <1>2, <1>3, <1>4
<1>6. y.links["relay"]["near"].in \in {x.links["relay"]["near"].in, <<>>}
  BY <1>1 DEF Calm, NoMore
<1>7. Waits(x, y)
  BY <1>1, <1>5, <1>6 DEF Calm, Waits
<1>. QED  BY <1>1, <1>5, <1>7, QuietKept DEF Calm

\* A link changes, but not the states of its ends.
LEMMA LinkBase ==
  ASSUME NEW x, Base(x), NEW l \in LinkNames, NEW k, SameStates(x.links[l], k)
  PROVE  /\ Base(SetLink(x, l, k)) /\ SetLink(x, l, k).objects = x.objects
         /\ SetLink(x, l, k).hosts = x.hosts /\ SetLink(x, l, k).links[l] = k
         /\ \A m \in LinkNames : m # l => SetLink(x, l, k).links[m] = x.links[m]
<1>. DEFINE y == SetLink(x, l, k)
<1>1. x \in Proxy /\ k \in Wire
  BY DEF Base, SameStates
<1>2. /\ y \in Proxy /\ y.objects = x.objects /\ y.hosts = x.hosts
      /\ y.links[l] = k /\ \A m \in LinkNames : m # l => y.links[m] = x.links[m]
  BY <1>1, LinkSet
<1>. HIDE DEF y
<1>3. \A m \in LinkNames : SameStates(x.links[m], y.links[m])
  BY <1>1, <1>2, ProxyFields DEF SameStates
<1>4. Same(x, y)
  BY <1>2, <1>3 DEF Same
<1>. QED  BY <1>2, <1>4, SameBase DEF y

\* The same when nothing is added to what waits.
LEMMA LinkSteady ==
  ASSUME NEW x, Steady(x), NEW l \in LinkNames, NEW k, SameStates(x.links[l], k),
         l = "relay" => NoMore(x.links[l], k)
  PROVE  /\ Steady(SetLink(x, l, k)) /\ SetLink(x, l, k).objects = x.objects
         /\ SetLink(x, l, k).hosts = x.hosts /\ SetLink(x, l, k).links[l] = k
         /\ \A m \in LinkNames : m # l => SetLink(x, l, k).links[m] = x.links[m]
<1>. DEFINE y == SetLink(x, l, k)
<1>1. Base(x) /\ Quiet(x) /\ x \in Proxy
  BY DEF Steady, Base
<1>2. /\ Base(y) /\ y.objects = x.objects /\ y.hosts = x.hosts /\ y.links[l] = k
      /\ \A m \in LinkNames : m # l => y.links[m] = x.links[m]
  BY <1>1, LinkBase
<1>. HIDE DEF y
<1>3. NoMore(x.links["relay"], y.links["relay"])
  BY <1>2 DEF NoMore, LinkNames
<1>4. Calm(x, y)
  BY <1>2, <1>3 DEF Calm, Marks
<1>. QED  BY <1>1, <1>2, <1>4, CalmQuiet DEF Steady, y

\* The life of an object does not change.
LEMMA ObjectBase ==
  ASSUME NEW x, Base(x), NEW o \in Objects, NEW k \in Object,
         k.life = x.objects[o].life, x.objects[o].meta => k.meta,
         k.life = "live" \/ (k.meta = x.objects[o].meta /\ k.ack = x.objects[o].ack)
  PROVE  /\ Base(SetObject(x, o, k)) /\ SetObject(x, o, k).links = x.links
         /\ SetObject(x, o, k).hosts = x.hosts /\ SetObject(x, o, k).objects[o] = k
         /\ \A t \in Objects : t # o => SetObject(x, o, k).objects[t] = x.objects[t]
<1>. DEFINE y == SetObject(x, o, k)
<1>1. x \in Proxy
  BY DEF Base
<1>2. /\ y \in Proxy /\ y.links = x.links /\ y.hosts = x.hosts
      /\ y.objects[o] = k /\ \A t \in Objects : t # o => y.objects[t] = x.objects[t]
  BY <1>1, ObjectSet
<1>. HIDE DEF y
<1>3. \A m \in LinkNames : SameStates(x.links[m], y.links[m])
  BY <1>1, <1>2, ProxyFields DEF SameStates
<1>4. /\ x.objects["SH"].meta => y.objects["SH"].meta
      /\ \A h \in Hands : x.objects[h].life = "none" =>
           y.objects[h].meta = x.objects[h].meta /\ y.objects[h].ack = x.objects[h].ack
      /\ \A t \in Objects : y.objects[t].life = x.objects[t].life
  BY <1>2, Names DEF Hands
<1>5. Same(x, y)
  BY <1>2, <1>3, <1>4 DEF Same
<1>. QED  BY <1>2, <1>5, SameBase DEF y

\* A field of an object changes that Base and Quiet do not look at.
LEMMA MildSteady ==
  ASSUME NEW x, Steady(x), NEW o \in Objects, NEW k, Mild(x.objects[o], k)
  PROVE  /\ Steady(SetObject(x, o, k)) /\ SetObject(x, o, k).links = x.links
         /\ SetObject(x, o, k).hosts = x.hosts /\ SetObject(x, o, k).objects[o] = k
         /\ \A t \in Objects : t # o => SetObject(x, o, k).objects[t] = x.objects[t]
<1>. DEFINE y == SetObject(x, o, k)
<1>1. Base(x) /\ Quiet(x) /\ x \in Proxy
  BY DEF Steady, Base
<1>2. /\ Base(y) /\ y.links = x.links /\ y.hosts = x.hosts /\ y.objects[o] = k
      /\ \A t \in Objects : t # o => y.objects[t] = x.objects[t]
  BY <1>1, ObjectBase DEF Mild
<1>. HIDE DEF y
<1>3. Calm(x, y)
  BY <1>2 DEF Calm, Marks, Mild, NoMore
<1>. QED  BY <1>1, <1>2, <1>3, CalmQuiet DEF Steady, y

-------------------------------------------------------------------------------
(* The calls of an object. *)

\* An object with another buffer is alike.
LEMMA SameWb ==
  ASSUME NEW j \in Object, NEW u \in Seq(Int)
  PROVE  Alike(j, [j EXCEPT !.wb = u]) /\ [j EXCEPT !.wb = u].wb = u
BY DEF Alike, Object

\* Alike objects have the same marks and lives.
LEMMA AlikeFacts ==
  ASSUME NEW x \in Proxy, NEW y \in Proxy, NEW o \in Objects, Others(x, y, o),
         Alike(x.objects[o], y.objects[o])
  PROVE  Marks(x, y) /\ \A t \in Objects : y.objects[t].life = x.objects[t].life
<1>1. ASSUME NEW t \in Objects
      PROVE  /\ y.objects[t].life = x.objects[t].life
             /\ y.objects[t].alarm = x.objects[t].alarm
             /\ y.objects[t].meta = x.objects[t].meta /\ y.objects[t].ack = x.objects[t].ack
  BY DEF Others, Alike
<1>. QED  BY <1>1 DEF Marks

\* Exactly the live objects have sockets.
LEMMA SocketLive ==
  ASSUME NEW x, Base(x), NEW o \in Objects
  PROVE  /\ HasSocket(x, o) <=> x.objects[o].life = "live"
         /\ HasSocket(x, o) <=> StateOf(x, o) \in {"connecting", "open"}
<1>1. Own(x, o)
  BY DEF Base
<1>. QED  BY <1>1 DEF HasSocket, HasFd, Own, StateOf

\* The types of what belongs to an object.
LEMMA PartsOf ==
  ASSUME NEW x, Base(x), NEW o \in Objects
  PROVE  /\ x \in Proxy /\ Link(o) \in LinkNames /\ EndOf(o) \in Ends /\ Host(o) \in Hosts
         /\ x.objects[o] \in Object /\ x.objects[o].wb \in Seq(Int) /\ x.links[Link(o)] \in Wire
         /\ x.hosts[Host(o)] \in Context(Objects)
         /\ x.links[Link(o)][EndOf(o)].in \in Seq(Int) /\ Len(x.links[Link(o)][EndOf(o)].in) \in Nat
<1>1. x \in Proxy /\ Link(o) \in LinkNames /\ EndOf(o) \in Ends /\ Host(o) \in Hosts
  BY Mates DEF Base
<1>2. x.objects[o] \in Object /\ x.links[Link(o)] \in Wire /\ x.hosts[Host(o)] \in Context(Objects)
  BY <1>1, ProxyFields
<1>3. x.objects[o].wb \in Seq(Int)
  BY <1>2, ObjectFields
<1>4. x.links[Link(o)][EndOf(o)].in \in Seq(Int) /\ Len(x.links[Link(o)][EndOf(o)].in) \in Nat
  BY <1>1, <1>2, WireFields
<1>. QED  BY <1>1, <1>2, <1>3, <1>4

\* The link and the buffer of an object change together.
LEMMA LinkAndBuffer ==
  ASSUME NEW x, Base(x), NEW o \in Objects, NEW k, SameStates(x.links[Link(o)], k), NEW u \in Seq(Int)
  PROVE  LET y == SetObject(SetLink(x, Link(o), k), o, [x.objects[o] EXCEPT !.wb = u])
         IN  /\ Base(y) /\ y.hosts = x.hosts /\ Others(x, y, o) /\ Alike(x.objects[o], y.objects[o])
             /\ y.objects[o].wb = u
             /\ y.links[Link(o)] = k /\ \A m \in LinkNames : m # Link(o) => y.links[m] = x.links[m]
<1>. DEFINE x1 == SetLink(x, Link(o), k)
            j == [x.objects[o] EXCEPT !.wb = u]
            y == SetObject(x1, o, j)
<1>1. Link(o) \in LinkNames /\ x.objects[o] \in Object
  BY PartsOf
<1>2. /\ Base(x1) /\ x1.objects = x.objects /\ x1.hosts = x.hosts /\ x1.links[Link(o)] = k
      /\ \A m \in LinkNames : m # Link(o) => x1.links[m] = x.links[m]
  BY <1>1, LinkBase
<1>. HIDE DEF x1
<1>3. Alike(x.objects[o], j) /\ j.wb = u
  BY <1>1, SameWb
<1>4. /\ j \in Object /\ j.life = x1.objects[o].life
      /\ j.meta = x1.objects[o].meta /\ j.ack = x1.objects[o].ack
  BY <1>2, <1>3 DEF Alike
<1>. HIDE DEF j
<1>5. /\ Base(y) /\ y.links = x1.links /\ y.hosts = x1.hosts /\ y.objects[o] = j
      /\ \A t \in Objects : t # o => y.objects[t] = x1.objects[t]
  BY <1>2, <1>4, ObjectBase
<1>. HIDE DEF y
<1>6. Base(y) /\ y.hosts = x.hosts /\ Others(x, y, o) /\ Alike(x.objects[o], y.objects[o]) /\ y.objects[o].wb = u
  BY <1>2, <1>3, <1>5 DEF Others
<1>7. y.links[Link(o)] = k /\ \A m \in LinkNames : m # Link(o) => y.links[m] = x.links[m]
  BY <1>2, <1>5
<1>. QED  BY <1>6, <1>7 DEF y, x1, j

\* A send and what it leaves in the buffer, once the answer is given or on the way of the address.
LEMMA SendQuiet ==
  ASSUME NEW x, Steady(x), NEW o \in Objects, NEW data \in Seq(Int), NEW u \in Seq(Int), NEW y,
         Sends(x, y, o, data, u),
         \/ x.objects["SH"].ack
         \/ o = "CD"
         \/ o = "CH" /\ Len(u) + Taken(x.links["relay"], "near", Len(data)) <= Len(x.objects["CH"].wb)
  PROVE  Steady(y)
<1>1. /\ Base(x) /\ Quiet(x) /\ x \in Proxy /\ Base(y) /\ y \in Proxy
      /\ Others(x, y, o) /\ Alike(x.objects[o], y.objects[o]) /\ y.objects[o].wb = u
      /\ y.links[Link(o)] = Send(x.links[Link(o)], EndOf(o), data)
      /\ \A m \in LinkNames : m # Link(o) => y.links[m] = x.links[m]
  BY DEF Steady, Base, Sends
<1>2. Marks(x, y)
  BY <1>1, AlikeFacts
<1>3. Heading(x) \in Nat /\ Heading(y) \in Nat
  BY <1>1, HeadingNat
<1>4. CASE x.objects["SH"].ack
  BY <1>1, <1>2, <1>3, <1>4, QuietKept DEF Steady
<1>5. CASE o = "CD"
  <2>1. y.links["relay"] = x.links["relay"]
    BY <1>1, <1>5, Names DEF LinkNames
  <2>2. \A t \in {"CH", "SH", "SD"} : y.objects[t] = x.objects[t]
    BY <1>1, <1>5, Names DEF Others
  <2>3. Heading(y) = Heading(x)
    BY <2>1, <2>2 DEF Heading
  <2>4. Waits(x, y)
    BY <1>3, <2>1, <2>2, <2>3 DEF Waits
  <2>. QED  BY <1>1, <1>2, <1>3, <2>4, QuietKept DEF Steady
<1>6. CASE o = "CH" /\ Len(u) + Taken(x.links["relay"], "near", Len(data)) <= Len(x.objects["CH"].wb)
  <2>. DEFINE l == x.links["relay"]
              n == Taken(l, "near", Len(data))
  <2>1. l \in Wire /\ Len(l["far"].in) \in Nat /\ Len(x.objects["CH"].wb) \in Nat
    BY <1>1, HeadingNat
  <2>2. y.links["relay"] = Send(l, "near", data) /\ "near" \in Ends /\ Peer("near") = "far"
    BY <1>1, <1>6, Names DEF Ends, Peer
  <2>3. /\ y.links["relay"]["near"].in = l["near"].in
        /\ Len(y.links["relay"]["far"].in) <= Len(l["far"].in) + n
        /\ n \in 0 .. Len(data)
    BY <2>1, <2>2, SendIns
  <2>4. Len(y.links["relay"]["far"].in) \in Nat /\ Len(u) \in Nat /\ Len(data) \in Nat /\ n \in Nat
    <3>1. Len(u) \in Nat /\ Len(data) \in Nat
      BY LenProperties
    <3>. QED  BY <1>1, <2>3, <3>1, HeadingNat
  <2>5. Heading(y) <= Heading(x)
    <3>. DEFINE a == Len(y.links["relay"]["far"].in)
                b == Len(l["far"].in)
                c == Len(x.objects["CH"].wb)
    <3>1. Heading(y) = Len(u) + a /\ Heading(x) = c + b
      BY <1>1, <1>6 DEF Heading
    <3>2. Len(u) + n <= c /\ a <= b + n
      BY <1>6, <2>3
    <3>3. a \in Nat /\ b \in Nat /\ c \in Nat /\ n \in Nat /\ Len(u) \in Nat
      BY <2>1, <2>4
    <3>. HIDE DEF a, b, c, n
    <3>. QED  BY <3>1, <3>2, <3>3
  <2>6. \A t \in {"SH", "SD"} : y.objects[t] = x.objects[t]
    BY <1>1, <1>6, Names DEF Others
  <2>7. Waits(x, y)
    BY <2>3, <2>5, <2>6 DEF Waits
  <2>. QED  BY <1>1, <1>2, <1>3, <2>7, QuietKept DEF Steady
<1>. QED  BY <1>4, <1>5, <1>6

\* Nothing moves.
LEMMA MovesRefl ==
  ASSUME NEW x, Steady(x), NEW o \in Objects
  PROVE  Moves(x, x, o)
BY PartsOf DEF Moves, Steady, Others, Alike

\* What a flush sends and what it keeps.
LEMMA FlushDoes ==
  ASSUME NEW x, Base(x), NEW o \in Objects, x.objects[o].wb # <<>>, x.objects[o].life = "live"
  PROVE  LET w == x.objects[o].wb
             n == Taken(x.links[Link(o)], EndOf(o), Len(w))
             u == SubSeq(w, n + 1, Len(w))
         IN  /\ n \in 0 .. Len(w) /\ u \in Seq(Int) /\ Len(u) = Len(w) - n
             /\ Sends(x, FlushBuffer(x, o), o, w, u)
<1>. DEFINE w == x.objects[o].wb
            l == x.links[Link(o)]
            n == Taken(l, EndOf(o), Len(w))
            u == SubSeq(w, n + 1, Len(w))
            k == Send(l, EndOf(o), w)
            y == FlushBuffer(x, o)
<1>1. /\ x \in Proxy /\ EndOf(o) \in Ends /\ w \in Seq(Int) /\ l \in Wire
      /\ Link(o) \in LinkNames /\ x.objects[o] \in Object /\ Len(w) \in Nat
  BY PartsOf, LenProperties
<1>2. HasSocket(x, o)
  BY <1>1, SocketLive
<1>3. n \in 0 .. Len(w)
  BY <1>1, LinkData
<1>4. u \in Seq(Int) /\ Len(u) = Len(w) - n
  BY <1>1, <1>3, Split
<1>5. SameStates(l, k)
  BY <1>1, SendKeepsStates
<1>6. y = SetObject(SetLink(x, Link(o), k), o, [x.objects[o] EXCEPT !.wb = u])
  <2>1. y = [x EXCEPT !.links[Link(o)] = k, !.objects[o].wb = u]
    BY <1>2 DEF FlushBuffer
  <2>. HIDE DEF y, k, u
  <2>. QED  BY <1>1, <2>1 DEF SetLink, SetObject, Proxy
<1>. HIDE DEF y, u
<1>7. Sends(x, y, o, w, u)
  <2>. HIDE DEF k
  <2>1. /\ Base(y) /\ y.hosts = x.hosts /\ Others(x, y, o) /\ Alike(x.objects[o], y.objects[o])
        /\ y.objects[o].wb = u
        /\ y.links[Link(o)] = k /\ \A m \in LinkNames : m # Link(o) => y.links[m] = x.links[m]
    BY <1>1, <1>4, <1>5, <1>6, LinkAndBuffer
  <2>. QED  BY <2>1 DEF Sends, k
<1>. QED  BY <1>3, <1>4, <1>7 DEF y, u

\* A flush of a live object moves data and nothing else.
LEMMA FlushSteady ==
  ASSUME NEW x, Steady(x), NEW o \in Objects, x.objects[o].wb = <<>> \/ x.objects[o].life = "live"
  PROVE  Moves(x, FlushBuffer(x, o), o)
<1>. DEFINE w == x.objects[o].wb
            n == Taken(x.links[Link(o)], EndOf(o), Len(w))
            u == SubSeq(w, n + 1, Len(w))
            y == FlushBuffer(x, o)
<1>1. CASE w = <<>>
  BY <1>1, MovesRefl DEF FlushBuffer
<1>2. CASE w # <<>> /\ x.objects[o].life = "live"
  <2>1. Base(x) /\ Quiet(x) /\ w \in Seq(Int) /\ Len(w) \in Nat
    BY PartsOf, LenProperties DEF Steady
  <2>2. n \in 0 .. Len(w) /\ u \in Seq(Int) /\ Len(u) = Len(w) - n /\ Sends(x, y, o, w, u)
    BY <1>2, <2>1, FlushDoes
  <2>. HIDE DEF y, u
  <2>3. \/ x.objects["SH"].ack \/ o = "CD"
        \/ o = "CH" /\ Len(u) + Taken(x.links["relay"], "near", Len(w)) <= Len(x.objects["CH"].wb)
    <3>1. CASE o = "CH"
      <4>1. n = Taken(x.links["relay"], "near", Len(w))
        BY <3>1, Names
      <4>2. Len(u) + n = Len(w)
        <5>. HIDE DEF n
        <5>. QED  BY <2>1, <2>2
      <4>. QED  BY <2>1, <3>1, <4>1, <4>2
    <3>2. CASE o \in {"SH", "SD"}
      BY <1>2, <2>1, <3>2 DEF Quiet
    <3>. QED  BY <3>1, <3>2, Names
  <2>4. Steady(y)
    BY <2>1, <2>2, <2>3, SendQuiet
  <2>. QED  BY <2>2, <2>4 DEF Sends, Moves, y
<1>. QED  BY <1>1, <1>2

\* Moves at the same object follow each other.
LEMMA MovesTrans ==
  ASSUME NEW x, NEW y, NEW z, NEW o \in Objects, Moves(x, y, o), Moves(y, z, o)
  PROVE  Moves(x, z, o)
<1>1. Steady(z) /\ z.hosts = x.hosts
  BY DEF Moves
<1>2. Others(x, z, o)
  BY DEF Moves, Others
<1>3. Alike(x.objects[o], z.objects[o])
  BY DEF Moves, Alike
<1>. QED  BY <1>1, <1>2, <1>3 DEF Moves

\* What Sink sends and keeps after the flush.
LEMMA SendOrKeepDoes ==
  ASSUME NEW x, Base(x), NEW o \in Objects, NEW data \in Seq(Int)
  PROVE  LET n == Taken(x.links[Link(o)], EndOf(o), Len(data))
             u == x.objects[o].wb \o SubSeq(data, n + 1, Len(data))
         IN  /\ n \in 0 .. Len(data) /\ u \in Seq(Int) /\ SubSeq(data, n + 1, Len(data)) \in Seq(Int)
             /\ Sends(x, SendOrKeep(x, o, data), o, data, u)
<1>. DEFINE l == x.links[Link(o)]
            n == Taken(l, EndOf(o), Len(data))
            v == SubSeq(data, n + 1, Len(data))
            u == x.objects[o].wb \o v
            k == Send(l, EndOf(o), data)
            y == SendOrKeep(x, o, data)
<1>1. /\ x \in Proxy /\ Link(o) \in LinkNames /\ EndOf(o) \in Ends
      /\ x.objects[o] \in Object /\ x.objects[o].wb \in Seq(Int) /\ x.links[Link(o)] \in Wire
  BY PartsOf
<1>2. n \in 0 .. Len(data)
  <2>1. Len(data) \in Nat
    BY LenProperties
  <2>. QED  BY <1>1, <2>1, LinkData
<1>3. u \in Seq(Int) /\ v \in Seq(Int)
  <2>1. v \in Seq(Int)
    BY <1>2, Split
  <2>. HIDE DEF v
  <2>. QED  BY <1>1, <2>1, ConcatProperties
<1>4. SameStates(l, k)
  BY <1>1, SendKeepsStates
<1>5. y = SetObject(SetLink(x, Link(o), k), o, [x.objects[o] EXCEPT !.wb = u])
  <2>1. y = [x EXCEPT !.links[Link(o)] = k, !.objects[o].wb = u]
    BY DEF SendOrKeep
  <2>. HIDE DEF k, u, y
  <2>. QED  BY <1>1, <2>1 DEF SetLink, SetObject, Proxy
<1>. HIDE DEF u, y
<1>6. Sends(x, y, o, data, u)
  <2>. HIDE DEF k
  <2>1. /\ Base(y) /\ y.hosts = x.hosts /\ Others(x, y, o) /\ Alike(x.objects[o], y.objects[o])
        /\ y.objects[o].wb = u
        /\ y.links[Link(o)] = k /\ \A m \in LinkNames : m # Link(o) => y.links[m] = x.links[m]
    BY <1>3, <1>4, <1>5, LinkAndBuffer
  <2>. QED  BY <2>1 DEF Sends, k
<1>. QED  BY <1>2, <1>3, <1>6 DEF u, y

\* Sink keeps all of the data while something waits to be sent.
LEMMA KeepMoreDoes ==
  ASSUME NEW x, Base(x), NEW o \in Objects, NEW data \in Seq(Int)
  PROVE  LET y == KeepMore(x, o, data)
         IN  /\ Base(y) /\ y.links = x.links /\ y.hosts = x.hosts
             /\ Others(x, y, o) /\ Alike(x.objects[o], y.objects[o])
             /\ y.objects[o].wb = x.objects[o].wb \o data /\ y.objects[o].wb \in Seq(Int)
<1>. DEFINE u == x.objects[o].wb \o data
            k == [x.objects[o] EXCEPT !.wb = u]
            y == KeepMore(x, o, data)
<1>1. /\ x \in Proxy /\ x.objects[o] \in Object /\ x.objects[o].wb \in Seq(Int)
  BY PartsOf
<1>2. u \in Seq(Int)
  BY <1>1, ConcatProperties
<1>3. y = SetObject(x, o, k)
  BY DEF KeepMore, SetObject
<1>. HIDE DEF u, y
<1>4. Alike(x.objects[o], k) /\ k.wb = u
  BY <1>1, <1>2, SameWb
<1>. HIDE DEF k
<1>5. /\ Base(y) /\ y.links = x.links /\ y.hosts = x.hosts /\ y.objects[o] = k
      /\ \A t \in Objects : t # o => y.objects[t] = x.objects[t]
  <2>1. k \in Object /\ k.life = x.objects[o].life /\ k.meta = x.objects[o].meta /\ k.ack = x.objects[o].ack
    BY <1>4 DEF Alike
  <2>. QED  BY <1>3, <2>1, ObjectBase
<1>. QED  BY <1>2, <1>4, <1>5 DEF Others, u, y

\* Data may come only once the callee has answered, except to the caller's application.
LEMMA SinkSteady ==
  ASSUME NEW x, Steady(x), NEW o \in Objects, x.objects[o].life = "live",
         x.objects["SH"].ack \/ o = "CD", NEW data \in Seq(Int)
  PROVE  Moves(x, Sink(x, o, data), o)
<1>. DEFINE f == FlushBuffer(x, o)
            y == Sink(x, o, data)
<1>1. Moves(x, f, o)
  BY FlushSteady
<1>. HIDE DEF f
<1>2. /\ Steady(f) /\ Base(f) /\ f.hosts = x.hosts /\ f.objects[o].life = "live"
      /\ f.objects["SH"].ack \/ o = "CD"
  <2>1. f.objects["SH"].ack = x.objects["SH"].ack
    BY <1>1, Names DEF Moves, Others, Alike
  <2>. QED  BY <1>1, <2>1 DEF Moves, Alike, Steady
<1>3. y = IF Gone(f, o) THEN f
          ELSE IF f.objects[o].wb = <<>> /\ HasSocket(f, o)
               THEN SendOrKeep(f, o, data) ELSE KeepMore(f, o, data)
  BY DEF Sink, KeepMore, f
<1>4. f \in Proxy
  BY <1>2, PartsOf
<1>. HIDE DEF y
<1>5. CASE Gone(f, o)
  BY <1>1, <1>3, <1>5 DEF y
<1>6. CASE y = SendOrKeep(f, o, data)
  <2>. DEFINE n == Taken(f.links[Link(o)], EndOf(o), Len(data))
              u == f.objects[o].wb \o SubSeq(data, n + 1, Len(data))
  <2>1. u \in Seq(Int) /\ Sends(f, y, o, data, u)
    BY <1>2, <1>6, SendOrKeepDoes
  <2>. HIDE DEF u
  <2>2. Steady(y)
    BY <1>2, <2>1, SendQuiet
  <2>3. Moves(f, y, o)
    BY <2>1, <2>2 DEF Sends, Moves
  <2>. QED  BY <1>1, <2>3, MovesTrans DEF y
<1>7. CASE y = KeepMore(f, o, data)
  <2>1. /\ Base(y) /\ y.links = f.links /\ y.hosts = f.hosts
        /\ Others(f, y, o) /\ Alike(f.objects[o], y.objects[o]) /\ y \in Proxy
    BY <1>2, <1>7, KeepMoreDoes DEF Base
  <2>2. Marks(f, y) /\ Heading(f) \in Nat /\ Heading(y) \in Nat
    BY <1>4, <2>1, AlikeFacts, HeadingNat
  <2>3. f.objects["SH"].ack \/ Waits(f, y)
    <3>1. CASE o = "CD"
      <4>1. \A t \in {"CH", "SH", "SD"} : y.objects[t] = f.objects[t]
        BY <2>1, <3>1, Names DEF Others
      <4>2. Heading(y) = Heading(f)
        BY <2>1, <4>1 DEF Heading
      <4>. QED  BY <2>1, <2>2, <4>1, <4>2 DEF Waits
    <3>. QED  BY <1>2, <3>1
  <2>4. Quiet(y)
    BY <1>2, <2>2, <2>3, QuietKept DEF Steady
  <2>5. Moves(f, y, o)
    BY <2>1, <2>4 DEF Moves, Steady
  <2>. QED  BY <1>1, <2>5, MovesTrans DEF y
<1>. QED  BY <1>3, <1>5, <1>6, <1>7

\* A hand sends data of its dispatcher and sets its bandwidth alarm.
LEMMA HandSinkSteady ==
  ASSUME NEW x, Steady(x), NEW h \in Hands, x.objects[h].life = "live",
         x.objects["SH"].ack, NEW data \in Seq(Int)
  PROVE  LET y == HandSink(x, h, data)
             k == [x.objects[h] EXCEPT !.alarm = TRUE]
         IN  /\ Steady(y) /\ y.hosts = x.hosts /\ Others(x, y, h) /\ Alike(k, y.objects[h])
<1>. DEFINE k == [x.objects[h] EXCEPT !.alarm = TRUE]
            x1 == SetObject(x, h, k)
            y == HandSink(x, h, data)
<1>1. h \in Objects /\ Base(x) /\ Quiet(x) /\ x \in Proxy /\ x.objects[h] \in Object
  BY PartsOf DEF Steady, Objects
<1>2. y = Sink(x1, h, data)
  BY DEF HandSink, SetObject
<1>. HIDE DEF y
<1>3. k \in Object /\ k.life = "live" /\ k.meta = x.objects[h].meta /\ k.ack = x.objects[h].ack /\ k.wb = x.objects[h].wb
  BY <1>1 DEF Object
<1>. HIDE DEF k
<1>4. /\ Base(x1) /\ x1.links = x.links /\ x1.hosts = x.hosts /\ x1.objects[h] = k
      /\ \A t \in Objects : t # h => x1.objects[t] = x.objects[t]
  BY <1>1, <1>3, ObjectBase
<1>. HIDE DEF x1
<1>5. /\ x1.objects["CD"] = x.objects["CD"] /\ x1.objects["CH"].ack = x.objects["CH"].ack
      /\ x1.objects["SH"].ack = x.objects["SH"].ack /\ x1.objects["SH"].meta = x.objects["SH"].meta
  BY <1>3, <1>4, Names DEF Hands
<1>6. Steady(x1)
  BY <1>1, <1>4, <1>5 DEF Steady, Quiet
<1>7. Moves(x1, y, h)
  BY <1>1, <1>2, <1>3, <1>4, <1>5, <1>6, SinkSteady
<1>8. Others(x, y, h) /\ Alike(k, y.objects[h])
  BY <1>4, <1>7 DEF Moves, Others
<1>. QED  BY <1>4, <1>7, <1>8 DEF Moves, k, y

\* The answer is sent once, and only by a live hand.
LEMMA SendMetaAckSteady ==
  ASSUME NEW x, Steady(x), NEW answer \in Int, x.objects["SH"].meta
  PROVE  LET y == SendMetaAck(x, answer)
         IN  /\ Steady(y) /\ y.hosts = x.hosts /\ Others(x, y, "SH")
             /\ OnlyAcked(x.objects["SH"], y.objects["SH"])
             /\ x.objects["SH"].ack \/ x.objects["SH"].life = "live" <=> y.objects["SH"].ack
<1>. DEFINE y == SendMetaAck(x, answer)
            j == x.objects["SH"]
            k == [j EXCEPT !.ack = TRUE]
            l == x.links["relay"]
            m == Send(l, "far", <<answer>>)
            x1 == SetLink(x, "relay", m)
<1>1. /\ "SH" \in Objects /\ Base(x) /\ Quiet(x) /\ x \in Proxy /\ j \in Object /\ l \in Wire
      /\ Link("SH") = "relay" /\ EndOf("SH") = "far" /\ "far" \in Ends /\ "relay" \in LinkNames
  BY Names, PartsOf DEF Steady
<1>2. HasSocket(x, "SH") <=> j.life = "live"
  BY <1>1, SocketLive
<1>3. j.ack \in BOOLEAN
  BY <1>1, ObjectFields
<1>4. CASE ~ HasSocket(x, "SH") \/ j.ack
  <2>1. y = x
    BY <1>4 DEF SendMetaAck
  <2>. HIDE DEF y
  <2>2. y.objects["SH"].ack \/ ~ HasSocket(x, "SH")
    BY <1>4, <2>1
  <2>. QED  BY <1>1, <1>2, <1>3, <1>4, <2>1 DEF Others, OnlyAcked, y
<1>5. CASE HasSocket(x, "SH") /\ ~ j.ack
  <2>1. y = SetObject(x1, "SH", k)
    <3>1. y = [x EXCEPT !.objects["SH"].ack = TRUE, !.links["relay"] = m]
      BY <1>5 DEF SendMetaAck
    <3>. HIDE DEF y, m
    <3>. QED  BY <1>1, <3>1 DEF SetLink, SetObject, Proxy
  <2>. HIDE DEF y
  <2>2. <<answer>> \in Seq(Int)
    OBVIOUS
  <2>3. SameStates(l, m)
    BY <1>1, <2>2, SendKeepsStates
  <2>. HIDE DEF m
  <2>4. Base(x1) /\ x1.objects = x.objects /\ x1.hosts = x.hosts
    BY <1>1, <2>3, LinkBase
  <2>. HIDE DEF x1
  <2>5. OnlyAcked(j, k) /\ k.ack
    BY <1>1 DEF OnlyAcked, Object
  <2>. HIDE DEF k
  <2>6. /\ Base(y) /\ y.hosts = x1.hosts /\ y.objects["SH"] = k
        /\ \A t \in Objects : t # "SH" => y.objects[t] = x1.objects[t]
    <3>1. k \in Object /\ k.life = "live" /\ k.meta = j.meta /\ j.life = "live"
      BY <1>2, <1>5, <2>5 DEF OnlyAcked
    <3>2. k.life = x1.objects["SH"].life /\ (x1.objects["SH"].meta => k.meta)
      BY <2>4, <3>1
    <3>. HIDE DEF j
    <3>. QED  BY <1>1, <2>1, <2>4, <3>1, <3>2, ObjectBase
  <2>7. Others(x, y, "SH")
    BY <2>4, <2>6 DEF Others
  <2>8. y.objects["CH"] = x.objects["CH"] /\ y.objects["CD"] = x.objects["CD"] /\ y.objects["SH"].ack /\ y.objects["SH"].meta
    BY <2>5, <2>6, <2>7, Names DEF Others, OnlyAcked
  <2>9. Quiet(y)
    BY <1>1, <2>8 DEF Quiet
  <2>. QED  BY <1>2, <1>5, <2>4, <2>5, <2>6, <2>7, <2>8, <2>9 DEF Steady, y
<1>. QED  BY <1>4, <1>5

-------------------------------------------------------------------------------
(* Closing. *)

\* An object is in the queue once it is posted, and whoever was in it before.
LEMMA PostTaskFacts ==
  ASSUME NEW c \in Context(Objects), NEW o \in Objects
  PROVE  /\ PostTask(c, o) \in Context(Objects) /\ TasksOf(PostTask(c, o)) = TasksOf(c) \cup {o}
         /\ PostTask(c, o).visitors = c.visitors
<1>. DEFINE q == Append(c.tasks, o)
<1>1. c.tasks \in Seq(Objects)
  BY DEF Context
<1>2. q \in Seq(Objects) /\ Len(q) = Len(c.tasks) + 1 /\ q[Len(q)] = o
      /\ \A i \in 1 .. Len(c.tasks) : q[i] = c.tasks[i]
  BY <1>1, AppendProperties
<1>3. PostTask(c, o) \in Context(Objects) /\ PostTask(c, o).tasks = q /\ PostTask(c, o).visitors = c.visitors
  BY <1>2 DEF PostTask, Context
<1>4. DOMAIN q = 1 .. Len(q) /\ DOMAIN c.tasks = 1 .. Len(c.tasks) /\ Len(c.tasks) \in Nat
  BY <1>1, <1>2
<1>. HIDE DEF q
<1>5. TasksOf(PostTask(c, o)) = TasksOf(c) \cup {o}
  BY <1>2, <1>3, <1>4 DEF TasksOf
<1>. QED  BY <1>3, <1>5

\* The visitors of a host change and its tasks do not.
LEMMA VisitorFacts ==
  ASSUME NEW c \in Context(Objects), NEW o \in Objects
  PROVE  /\ UnRegisterExitVisitor(c, o) \in Context(Objects)
         /\ TasksOf(UnRegisterExitVisitor(c, o)) = TasksOf(c)
         /\ UnRegisterExitVisitor(c, o).visitors = c.visitors \ {o}
         /\ RegisterExitVisitor(c, o) \in Context(Objects)
         /\ TasksOf(RegisterExitVisitor(c, o)) = TasksOf(c)
         /\ RegisterExitVisitor(c, o).visitors = c.visitors \cup {o}
<1>1. /\ UnRegisterExitVisitor(c, o) \in Context(Objects)
      /\ UnRegisterExitVisitor(c, o).tasks = c.tasks
      /\ UnRegisterExitVisitor(c, o).visitors = c.visitors \ {o}
  BY DEF UnRegisterExitVisitor, Context
<1>2. /\ RegisterExitVisitor(c, o) \in Context(Objects)
      /\ RegisterExitVisitor(c, o).tasks = c.tasks
      /\ RegisterExitVisitor(c, o).visitors = c.visitors \cup {o}
  BY DEF RegisterExitVisitor, Context
<1>. QED  BY <1>1, <1>2 DEF TasksOf

\* An end of a link is closed: the states of the other ends stay.
LEMMA CloseLink ==
  ASSUME NEW x, Base(x), NEW o \in Objects, NEW y \in Proxy,
         y.links[Link(o)] = Close(x.links[Link(o)], EndOf(o)),
         \A m \in LinkNames : m # Link(o) => y.links[m] = x.links[m]
  PROVE  /\ \A l \in LinkNames : Shaped(y.links[l])
         /\ StateOf(y, o) = IF HasSocket(x, o) THEN "closed" ELSE StateOf(x, o)
         /\ \A t \in Objects : t # o => StateOf(y, t) = StateOf(x, t)
         /\ NoMore(x.links["relay"], y.links["relay"])
<1>. DEFINE l == x.links[Link(o)]
            k == Close(l, EndOf(o))
<1>1. x \in Proxy /\ Link(o) \in LinkNames /\ EndOf(o) \in Ends /\ l \in Wire /\ Shaped(l)
  BY PartsOf DEF Base
<1>2. /\ k \in Wire /\ k[EndOf(o)].state = IF HasFd(l, EndOf(o)) THEN "closed" ELSE l[EndOf(o)].state
      /\ k[Peer(EndOf(o))].state = l[Peer(EndOf(o))].state
  BY <1>1, CloseStates
<1>3. y.links[Link(o)] = k /\ \A n \in LinkNames : n # Link(o) => y.links[n] = x.links[n]
  OBVIOUS
<1>4. \A t \in Objects : t # o => StateOf(y, t) = StateOf(x, t)
  <2>. TAKE t \in Objects
  <2>1. CASE Link(t) = Link(o) /\ t # o
    <3>1. EndOf(t) \in Ends /\ EndOf(t) # EndOf(o)
      BY <2>1, Mates
    <3>2. EndOf(t) = Peer(EndOf(o))
      BY <1>1, <3>1 DEF Ends, Peer
    <3>. QED  BY <1>2, <1>3, <2>1, <3>2 DEF StateOf
  <2>2. CASE Link(t) # Link(o)
    BY <1>3, <2>2, Mates DEF StateOf
  <2>. QED  BY <2>1, <2>2
<1>5. Shaped(k)
  <2>1. CASE EndOf(o) = "near"
    BY <1>1, <1>2, <2>1 DEF Shaped, Peer, HasFd
  <2>2. CASE EndOf(o) = "far"
    BY <1>1, <1>2, <2>2 DEF Shaped, Peer, HasFd
  <2>. QED  BY <1>1, <2>1, <2>2 DEF Ends
<1>6. \A n \in LinkNames : Shaped(y.links[n])
  BY <1>3, <1>5 DEF Base
<1>7. NoMore(x.links["relay"], y.links["relay"])
  <2>1. NoMore(l, k)
    BY <1>1, CloseNoMore
  <2>. QED  BY <1>3, <2>1 DEF NoMore, LinkNames
<1>8. StateOf(y, o) = IF HasSocket(x, o) THEN "closed" ELSE StateOf(x, o)
  BY <1>2, <1>3 DEF StateOf, HasSocket
<1>. QED  BY <1>4, <1>6, <1>7, <1>8

\* What CloseAlone does to the link, the object and the host.
LEMMA CloseAloneDoes ==
  ASSUME NEW x \in Proxy, NEW o \in Objects
  PROVE  LET y == CloseAlone(x, o)
             h == Host(o)
             c == IF o \in Dispatchers THEN UnRegisterExitVisitor(x.hosts[h], o) ELSE x.hosts[h]
         IN  /\ y \in Proxy
             /\ y.links[Link(o)] = Close(x.links[Link(o)], EndOf(o))
             /\ \A m \in LinkNames : m # Link(o) => y.links[m] = x.links[m]
             /\ Others(x, y, o) /\ Closed(x.objects[o], y.objects[o])
             /\ y.hosts[h] = IF x.objects[o].life = "live" THEN PostTask(c, o) ELSE c
             /\ \A g \in Hosts : g # h => y.hosts[g] = x.hosts[g]
<1>. DEFINE h == Host(o)
            c == IF o \in Dispatchers THEN UnRegisterExitVisitor(x.hosts[h], o) ELSE x.hosts[h]
            l == Close(x.links[Link(o)], EndOf(o))
            k == [x.objects[o] EXCEPT !.status = "disconn"]
            dead == [k EXCEPT !.life = "destroyed"]
            d == PostTask(c, o)
            x1 == SetLink(x, Link(o), l)
            x2 == SetObject(x1, o, k)
            x3 == SetHost(x2, h, c)
            y == CloseAlone(x, o)
<1>1. /\ Link(o) \in LinkNames /\ EndOf(o) \in Ends /\ h \in Hosts
      /\ x.objects[o] \in Object /\ l \in Wire /\ x.hosts[h] \in Context(Objects)
  BY Mates, ProxyFields, CloseStates
<1>2. c \in Context(Objects)
  BY <1>1, VisitorFacts
<1>3. d \in Context(Objects)
  BY <1>2, PostTaskFacts
<1>4. /\ k \in Object /\ dead \in Object /\ k.life = x.objects[o].life
      /\ x.objects[o].life = "live" => Closed(x.objects[o], dead)
      /\ x.objects[o].life # "live" => Closed(x.objects[o], k)
  BY <1>1 DEF Object, Closed
<1>5. y = DeleteSelf(x3, o)
  <2>1. [x EXCEPT !.links[Link(o)] = l, !.objects[o].status = "disconn", !.hosts[h] = c] = x3
    <3>. HIDE DEF l, c
    <3>. QED  BY <1>1 DEF SetLink, SetObject, SetHost, Proxy
  <2>. QED  BY <2>1 DEF CloseAlone
<1>. HIDE DEF y, l, c, d, k, dead
<1>6. /\ x1 \in Proxy /\ x1.objects = x.objects /\ x1.hosts = x.hosts
      /\ x1.links[Link(o)] = l /\ \A m \in LinkNames : m # Link(o) => x1.links[m] = x.links[m]
  BY <1>1, LinkSet
<1>. HIDE DEF x1
<1>7. /\ x2 \in Proxy /\ x2.links = x1.links /\ x2.hosts = x1.hosts /\ x2.objects[o] = k
      /\ \A t \in Objects : t # o => x2.objects[t] = x1.objects[t]
  BY <1>4, <1>6, ObjectSet
<1>. HIDE DEF x2
<1>8. /\ x3 \in Proxy /\ x3.links = x2.links /\ x3.objects = x2.objects /\ x3.hosts = [x2.hosts EXCEPT ![h] = c]
  BY <1>1, <1>2, <1>7, SetFacts
<1>. HIDE DEF x3
<1>9. x3.hosts[h] = c /\ \A g \in Hosts : g # h => x3.hosts[g] = x.hosts[g]
  BY <1>1, <1>6, <1>7, <1>8, ProxyFields
<1>10. CASE x.objects[o].life # "live"
  <2>1. y = x3
    BY <1>4, <1>5, <1>7, <1>8, <1>10 DEF DeleteSelf
  <2>2. Others(x, y, o) /\ Closed(x.objects[o], y.objects[o])
    BY <1>4, <1>6, <1>7, <1>8, <1>10, <2>1 DEF Others
  <2>3. /\ y \in Proxy /\ y.links[Link(o)] = l
        /\ \A m \in LinkNames : m # Link(o) => y.links[m] = x.links[m]
        /\ y.hosts[h] = c /\ \A g \in Hosts : g # h => y.hosts[g] = x.hosts[g]
    BY <1>6, <1>7, <1>8, <1>9, <2>1
  <2>. QED  BY <1>10, <2>2, <2>3 DEF c, y, l
<1>11. CASE x.objects[o].life = "live"
  <2>. DEFINE x4 == SetObject(x3, o, dead)
              x5 == SetHost(x4, h, d)
  <2>1. y = x5
    <3>1. x3.objects[o].life = "live"
      BY <1>4, <1>7, <1>8, <1>11
    <3>2. DeleteSelf(x3, o) = SetHost(SetObject(x3, o, [x3.objects[o] EXCEPT !.life = "destroyed"]),
                                      h, PostTask(x3.hosts[h], o))
      BY <1>1, <1>8, <3>1 DEF DeleteSelf, SetObject, SetHost, Proxy, h
    <3>. QED  BY <1>5, <1>7, <1>8, <1>9, <3>2 DEF dead, d
  <2>2. /\ x4 \in Proxy /\ x4.links = x3.links /\ x4.hosts = x3.hosts /\ x4.objects[o] = dead
        /\ \A t \in Objects : t # o => x4.objects[t] = x3.objects[t]
    BY <1>4, <1>8, ObjectSet
  <2>. HIDE DEF x4
  <2>3. /\ x5 \in Proxy /\ x5.links = x4.links /\ x5.objects = x4.objects /\ x5.hosts = [x4.hosts EXCEPT ![h] = d]
    BY <1>1, <1>3, <2>2, SetFacts
  <2>. HIDE DEF x5
  <2>4. y.hosts[h] = d /\ \A g \in Hosts : g # h => y.hosts[g] = x.hosts[g]
    BY <1>1, <1>8, <1>9, <2>1, <2>2, <2>3, ProxyFields
  <2>5. Others(x, y, o) /\ Closed(x.objects[o], y.objects[o])
    BY <1>4, <1>6, <1>7, <1>8, <1>11, <2>1, <2>2, <2>3 DEF Others
  <2>. QED  BY <1>6, <1>7, <1>8, <1>11, <2>1, <2>2, <2>3, <2>4, <2>5 DEF c, d, y, l
<1>. QED  BY <1>10, <1>11

\* An object that closes alone keeps Base and Quiet.
LEMMA CloseAloneSteady ==
  ASSUME NEW x, Steady(x), NEW o \in Objects
  PROVE  Closes(x, CloseAlone(x, o), o)
<1>. DEFINE y == CloseAlone(x, o)
            h == Host(o)
            c == IF o \in Dispatchers THEN UnRegisterExitVisitor(x.hosts[h], o) ELSE x.hosts[h]
<1>1. /\ x \in Proxy /\ h \in Hosts /\ Base(x) /\ Quiet(x) /\ x.objects[o] \in Object
      /\ x.hosts[h] \in Context(Objects) /\ o \in ObjectsOf(h)
  BY PartsOf, Mates DEF Steady
<1>2. /\ y \in Proxy
      /\ y.links[Link(o)] = Close(x.links[Link(o)], EndOf(o))
      /\ \A m \in LinkNames : m # Link(o) => y.links[m] = x.links[m]
      /\ Others(x, y, o) /\ Closed(x.objects[o], y.objects[o])
      /\ y.hosts[h] = IF x.objects[o].life = "live" THEN PostTask(c, o) ELSE c
      /\ \A g \in Hosts : g # h => y.hosts[g] = x.hosts[g]
  BY <1>1, CloseAloneDoes
<1>. HIDE DEF y
<1>3. /\ \A l \in LinkNames : Shaped(y.links[l])
      /\ StateOf(y, o) = IF HasSocket(x, o) THEN "closed" ELSE StateOf(x, o)
      /\ \A t \in Objects : t # o => StateOf(y, t) = StateOf(x, t)
      /\ NoMore(x.links["relay"], y.links["relay"])
  BY <1>1, <1>2, CloseLink
<1>4. /\ c \in Context(Objects) /\ TasksOf(c) = TasksOf(x.hosts[h])
      /\ c.visitors \in {x.hosts[h].visitors, x.hosts[h].visitors \ {o}}
  BY <1>1, VisitorFacts
<1>. HIDE DEF c
<1>5. /\ TasksOf(y.hosts[h]) = IF x.objects[o].life = "live" THEN TasksOf(x.hosts[h]) \cup {o}
                               ELSE TasksOf(x.hosts[h])
      /\ y.hosts[h].visitors = c.visitors
  BY <1>2, <1>4, PostTaskFacts
<1>6. Own(y, o)
  <2>1. Own(x, o) /\ (HasSocket(x, o) <=> x.objects[o].life = "live")
    BY <1>1, SocketLive DEF Base
  <2>2. y.objects[o].life = IF x.objects[o].life = "live" THEN "destroyed" ELSE x.objects[o].life
    BY <1>2 DEF Closed
  <2>. QED  BY <1>3, <1>5, <2>1, <2>2 DEF Own
<1>7. ASSUME NEW t \in Objects, t # o
      PROVE  Own(y, t)
  <2>1. Own(x, t) /\ y.objects[t] = x.objects[t] /\ StateOf(y, t) = StateOf(x, t) /\ Host(t) \in Hosts
    BY <1>1, <1>2, <1>3, <1>7, Mates DEF Base, Others
  <2>2. /\ t \in TasksOf(y.hosts[Host(t)]) <=> t \in TasksOf(x.hosts[Host(t)])
        /\ t \in y.hosts[Host(t)].visitors <=> t \in x.hosts[Host(t)].visitors
    <3>1. CASE Host(t) = h
      BY <1>4, <1>5, <1>7, <3>1
    <3>2. CASE Host(t) # h
      BY <1>2, <2>1, <3>2
    <3>. QED  BY <3>1, <3>2
  <2>. QED  BY <2>1, <2>2 DEF Own
<1>8. InTurn(y)
  <2>1. InTurn(x) /\ Objects = {"CD", "CH", "SH", "SD"} /\ (HasSocket(x, o) <=> x.objects[o].life = "live")
    BY <1>1, Names, SocketLive DEF Base
  <2>2. ASSUME NEW t \in Objects
        PROVE  /\ y.objects[t].life = "none" <=> x.objects[t].life = "none"
               /\ y.objects[t].meta = x.objects[t].meta /\ y.objects[t].ack = x.objects[t].ack
               /\ x.objects[t].life = "none" => StateOf(y, t) = StateOf(x, t)
    <3>1. CASE t = o
      BY <1>2, <1>3, <2>1, <3>1 DEF Closed
    <3>2. CASE t # o
      BY <1>2, <1>3, <3>2 DEF Others
    <3>. QED  BY <3>1, <3>2
  <2>. QED  BY <2>1, <2>2 DEF InTurn, Hands
<1>9. ASSUME NEW g \in Hosts
      PROVE  TasksOf(y.hosts[g]) \subseteq ObjectsOf(g)
  BY <1>1, <1>2, <1>5 DEF Base
<1>10. Base(y)
  BY <1>2, <1>3, <1>6, <1>7, <1>8, <1>9 DEF Base
<1>11. Calm(x, y)
  <2>1. ASSUME NEW t \in Objects
        PROVE  /\ y.objects[t].alarm = x.objects[t].alarm /\ y.objects[t].wb = x.objects[t].wb
               /\ y.objects[t].meta = x.objects[t].meta /\ y.objects[t].ack = x.objects[t].ack
    BY <1>2 DEF Others, Closed
  <2>. QED  BY <1>3, <2>1 DEF Calm, Marks
<1>12. Quiet(y)
  BY <1>1, <1>11, CalmQuiet
<1>. QED  BY <1>2, <1>10, <1>12 DEF Closes, Steady, y

-------------------------------------------------------------------------------
(* Signals. *)

\* An object told to close does so now or once its buffer is empty.
LEMMA CloseOnceFlushedSteady ==
  ASSUME NEW x, Steady(x), NEW o \in Objects
  PROVE  LET y == CloseOnceFlushed(x, o)
         IN  /\ Steady(y) /\ Others(x, y, o) /\ Told(x.objects[o], y.objects[o])
             /\ y.objects[o].dispatcher = x.objects[o].dispatcher /\ y.objects[o].hands = x.objects[o].hands
<1>. DEFINE y == CloseOnceFlushed(x, o)
            j == x.objects[o]
            k == [j EXCEPT !.waitClose = TRUE]
            x1 == SetObject(x, o, k)
<1>1. x \in Proxy /\ j \in Object
  BY PartsOf DEF Steady
<1>2. /\ k \in Object /\ Mild(j, k) /\ k.status = j.status
      /\ k.dispatcher = j.dispatcher /\ k.hands = j.hands
  BY <1>1 DEF Mild, Object
<1>3. y = IF x1.objects[o].wb = <<>> THEN CloseAlone(x1, o) ELSE x1
  BY DEF CloseOnceFlushed, SetObject
<1>. HIDE DEF y, k
<1>4. Steady(x1) /\ x1.objects[o] = k /\ \A t \in Objects : t # o => x1.objects[t] = x.objects[t]
  BY <1>2, MildSteady
<1>. HIDE DEF x1
<1>5. CASE j.wb = <<>>
  <2>1. Closes(x1, y, o)
    BY <1>2, <1>3, <1>4, <1>5, CloseAloneSteady DEF Mild
  <2>2. Others(x, y, o)
    BY <1>4, <2>1 DEF Closes, Others
  <2>3. /\ y.objects[o] \in Object
        /\ y.objects[o].life = IF k.life = "live" THEN "destroyed" ELSE k.life
        /\ y.objects[o].dispatcher = k.dispatcher /\ y.objects[o].hands = k.hands
        /\ y.objects[o].wb = k.wb /\ y.objects[o].alarm = k.alarm
        /\ y.objects[o].meta = k.meta /\ y.objects[o].ack = k.ack
    BY <1>4, <2>1 DEF Closes, Closed
  <2>4. Told(j, y.objects[o])
    BY <1>2, <1>5, <2>3 DEF Told, Mild
  <2>. QED  BY <1>2, <2>1, <2>2, <2>3, <2>4 DEF Closes, y
<1>6. CASE j.wb # <<>>
  <2>1. y = x1
    BY <1>2, <1>3, <1>4, <1>6 DEF Mild
  <2>2. Told(j, y.objects[o])
    BY <1>2, <1>4, <1>6, <2>1 DEF Told, Mild
  <2>. QED  BY <1>2, <1>4, <2>1, <2>2 DEF Others, y
<1>. QED  BY <1>5, <1>6

\* The dispatcher lets go of its hand.
LEMMA DispatcherSignalSteady ==
  ASSUME NEW x, Steady(x), NEW d \in Dispatchers, NEW code \in Ending
  PROVE  LET y == DispatcherSignal(x, d, code)
         IN  /\ Steady(y) /\ Others(x, y, d) /\ Told(x.objects[d], y.objects[d])
             /\ y.objects[d].hands = "none"
<1>. DEFINE y == DispatcherSignal(x, d, code)
            j == x.objects[d]
            k == [j EXCEPT !.hands = "none"]
            x1 == SetObject(x, d, k)
<1>1. x \in Proxy /\ d \in Objects /\ j \in Object
  BY PartsOf DEF Steady, Objects
<1>2. k \in Object /\ Mild(j, k) /\ k.hands = "none" /\ k.status = j.status
  BY <1>1 DEF Mild, Object
<1>3. y = CloseOnceFlushed(x1, d)
  BY DEF DispatcherSignal, SetObject, Ending
<1>. HIDE DEF y, k
<1>4. Steady(x1) /\ x1.objects[d] = k /\ \A t \in Objects : t # d => x1.objects[t] = x.objects[t]
  BY <1>1, <1>2, MildSteady
<1>. HIDE DEF x1
<1>5. Steady(y) /\ Others(x1, y, d) /\ Told(k, y.objects[d]) /\ y.objects[d].hands = "none"
  BY <1>1, <1>2, <1>3, <1>4, CloseOnceFlushedSteady
<1>6. Others(x, y, d)
  BY <1>4, <1>5 DEF Others
<1>7. Told(j, y.objects[d])
  BY <1>2, <1>5 DEF Told, Mild
<1>. QED  BY <1>5, <1>6, <1>7 DEF y

\* A hand that closes tells its dispatcher first.
LEMMA HandConnCloseDoes ==
  ASSUME NEW x, Steady(x), NEW h \in Hands, NEW code \in Ending \cup {"dst_failed"}
  PROVE  HandGone(x, HandConnClose(x, h, code), h, code)
<1>. DEFINE y == HandConnClose(x, h, code)
            d == Mate(h)
            z == DispatcherSignal(x, d, code)
            j == z.objects[h]
            k == [j EXCEPT !.dispatcher = FALSE]
            z1 == SetObject(z, h, k)
<1>1. /\ h \in Objects /\ d \in Objects /\ d \in Dispatchers /\ d # h
      /\ x \in Proxy /\ x.objects[h] \in Object
  BY Mates, PartsOf DEF Steady, Objects
<1>2. CASE x.objects[h].dispatcher
  <2>1. y = CloseAlone(z1, h)
    BY <1>2 DEF HandConnClose, SetObject
  <2>2. /\ Steady(z) /\ Others(x, z, d)
        /\ IF code \in Ending THEN Told(x.objects[d], z.objects[d]) /\ z.objects[d].hands = "none"
                              ELSE z.objects[d] = x.objects[d]
    <3>1. CASE code \in Ending
      BY <1>1, <3>1, DispatcherSignalSteady
    <3>2. CASE code = "dst_failed"
      <4>1. z = x
        BY <3>2 DEF DispatcherSignal
      <4>. QED  BY <3>2, <4>1 DEF Others, Ending
    <3>. QED  BY <3>1, <3>2
  <2>. HIDE DEF y, z
  <2>3. j = x.objects[h]
    BY <1>1, <2>2 DEF Others
  <2>4. k \in Object /\ Mild(j, k) /\ k.dispatcher = FALSE
    BY <1>1, <2>3 DEF Mild, Object
  <2>. HIDE DEF k
  <2>5. Steady(z1) /\ z1.objects[h] = k /\ \A t \in Objects : t # h => z1.objects[t] = z.objects[t]
    BY <1>1, <2>2, <2>4, MildSteady
  <2>. HIDE DEF z1
  <2>6. Closes(z1, y, h)
    BY <1>1, <2>1, <2>5, CloseAloneSteady
  <2>7. /\ Steady(y) /\ \A t \in Objects : t # h => y.objects[t] = z.objects[t]
        /\ y.objects[h] \in Object /\ y.objects[h].dispatcher = FALSE
        /\ y.objects[h].life = IF x.objects[h].life = "live" THEN "destroyed" ELSE x.objects[h].life
        /\ y.objects[h].alarm = x.objects[h].alarm /\ y.objects[h].ack = x.objects[h].ack
    BY <2>3, <2>4, <2>5, <2>6 DEF Closes, Closed, Others, Mild
  <2>8. \A t \in Objects : t \notin {h, d} => y.objects[t] = x.objects[t]
    BY <2>2, <2>7 DEF Others
  <2>. QED  BY <1>1, <1>2, <2>2, <2>7, <2>8 DEF HandGone, y
<1>3. CASE ~ x.objects[h].dispatcher
  <2>1. y = CloseAlone(x, h)
    BY <1>3 DEF HandConnClose
  <2>. HIDE DEF y
  <2>2. Closes(x, y, h)
    BY <1>1, <2>1, CloseAloneSteady
  <2>3. x.objects[h].dispatcher = FALSE
    BY <1>1, <1>3, ObjectFields
  <2>. QED  BY <1>1, <1>3, <2>2, <2>3 DEF Closes, Closed, Others, HandGone, y
<1>. QED  BY <1>2, <1>3

\* The pair of the other host is not touched.
LEMMA OtherPair ==
  ASSUME NEW x, NEW y, NEW h \in Hands, Pair(x, h),
         y.objects[h] = x.objects[h], y.objects[Mate(h)] = x.objects[Mate(h)]
  PROVE  Pair(y, h)
BY DEF Pair

\* What Sound says of a hand and its dispatcher.
LEMMA SoundParts ==
  ASSUME NEW x, Sound(x), NEW h \in Hands
  PROVE  /\ Steady(x) /\ Base(x) /\ Quiet(x) /\ x \in Proxy /\ Pair(x, h) /\ Reaching(x)
         /\ h \in Objects /\ Mate(h) \in Objects /\ Mate(h) \in Dispatchers /\ Mate(h) # h /\ Mate(Mate(h)) = h
         /\ x.objects[h] \in Object /\ x.objects[Mate(h)] \in Object
         /\ \A g \in Hands : g # h => g \notin {h, Mate(h)} /\ Mate(g) \notin {h, Mate(h)} /\ Mate(g) \in Objects
                                      /\ g \in Objects
         /\ h = "SH" <=> Mate(h) = "SD"
<1>1. h \in Objects /\ Mate(h) \in Objects /\ Mate(h) \in Dispatchers /\ Mate(h) # h /\ Mate(Mate(h)) = h
  BY Mates DEF Objects
<1>2. \A g \in Hands : g # h => g \notin {h, Mate(h)} /\ Mate(g) \notin {h, Mate(h)} /\ Mate(g) \in Objects
                                /\ g \in Objects
  BY Names DEF Hands
<1>3. Steady(x) /\ Base(x) /\ Quiet(x) /\ x \in Proxy /\ Pair(x, h) /\ Reaching(x)
  BY DEF Sound, Steady, Base
<1>4. x.objects[h] \in Object /\ x.objects[Mate(h)] \in Object
  BY <1>1, <1>3, ProxyFields
<1>5. h = "SH" <=> Mate(h) = "SD"
  BY Names DEF Hands
<1>. QED  BY <1>1, <1>2, <1>3, <1>4, <1>5

\* A dispatcher that ignores the code is not served, or is gone.
LEMMA HandConnCloseSound ==
  ASSUME NEW x, Sound(x), NEW h \in Hands, NEW code \in Ending \cup {"dst_failed"},
         code \notin Ending => /\ ~ x.objects[Mate(h)].alarm \/ x.objects[Mate(h)].life # "live"
                               /\ h = "SH" => x.objects["SD"].life # "live"
  PROVE  Sound(HandConnClose(x, h, code))
<1>. DEFINE y == HandConnClose(x, h, code)
            d == Mate(h)
<1>1. /\ Steady(x) /\ Quiet(x) /\ Pair(x, h) /\ Reaching(x) /\ h \in Objects /\ d \in Objects /\ d # h
      /\ \A g \in Hands : g # h => g \notin {h, d} /\ Mate(g) \notin {h, d} /\ g \in Objects /\ Mate(g) \in Objects
  BY SoundParts
<1>2. HandGone(x, y, h, code)
  BY <1>1, HandConnCloseDoes
<1>. HIDE DEF y
<1>3. Pair(y, h)
  <2>1. /\ y.objects[h].life # "live" /\ y.objects[h].dispatcher = FALSE
    BY <1>2 DEF HandGone
  <2>2. ~ (y.objects[d].life = "live" /\ y.objects[d].alarm /\ y.objects[d].hands # "none")
    <3>1. CASE x.objects[h].dispatcher /\ code \in Ending
      BY <1>2, <3>1 DEF HandGone
    <3>2. CASE ~ (x.objects[h].dispatcher /\ code \in Ending)
      <4>1. y.objects[d] = x.objects[d]
        BY <1>2, <3>2 DEF HandGone
      <4>2. CASE code \notin Ending
        BY <4>1, <4>2
      <4>3. CASE ~ x.objects[h].dispatcher
        BY <1>1, <4>1, <4>3 DEF Pair
      <4>. QED  BY <3>2, <4>2, <4>3
    <3>. QED  BY <3>1, <3>2
  <2>. QED  BY <2>1, <2>2 DEF Pair
<1>4. ASSUME NEW g \in Hands, g # h
      PROVE  Pair(y, g)
  <2>1. y.objects[g] = x.objects[g] /\ y.objects[Mate(g)] = x.objects[Mate(g)]
    BY <1>1, <1>2, <1>4 DEF HandGone
  <2>2. Pair(x, g)
    BY DEF Sound
  <2>. QED  BY <2>1, <2>2, OtherPair
<1>5. Reaching(y)
  <2>1. CASE h = "CH"
    <3>1. y.objects["SD"] = x.objects["SD"] /\ y.objects["SH"] = x.objects["SH"]
      BY <1>2, <2>1, Names DEF HandGone
    <3>. QED  BY <1>1, <3>1 DEF Reaching
  <2>2. CASE h = "SH"
    <3>1. d = "SD" /\ y.objects["SH"].ack = x.objects["SH"].ack
      BY <1>2, <2>2, Names DEF HandGone
    <3>2. ASSUME y.objects["SD"].life = "live", y.objects["SD"].status = "connecting"
          PROVE  FALSE
      <4>1. CASE x.objects["SH"].dispatcher /\ code \in Ending
        <5>1. Told(x.objects["SD"], y.objects["SD"])
          BY <1>2, <2>2, <3>1, <4>1 DEF HandGone
        <5>2. /\ x.objects["SD"].life = "live" /\ x.objects["SD"].wb # <<>>
              /\ x.objects["SD"].status = "connecting"
          BY <3>2, <5>1 DEF Told
        <5>3. ~ x.objects["SH"].ack
          BY <1>1, <5>2 DEF Reaching
        <5>. QED  BY <1>1, <5>2, <5>3 DEF Quiet
      <4>2. CASE ~ (x.objects["SH"].dispatcher /\ code \in Ending)
        <5>1. y.objects["SD"] = x.objects["SD"]
          BY <1>2, <2>2, <3>1, <4>2 DEF HandGone
        <5>2. x.objects["SH"].dispatcher
          BY <1>1, <3>2, <5>1 DEF Reaching
        <5>3. code \notin Ending
          BY <4>2, <5>2
        <5>. QED  BY <2>2, <3>2, <5>1, <5>3
      <4>. QED  BY <4>1, <4>2
    <3>. QED  BY <3>2 DEF Reaching
  <2>. QED  BY <2>1, <2>2 DEF Hands
<1>6. Steady(y)
  BY <1>2 DEF HandGone
<1>. QED  BY <1>3, <1>4, <1>5, <1>6 DEF Sound, y

\* The hand lets go of its dispatcher.
LEMMA HandSignalSteady ==
  ASSUME NEW x, Steady(x), NEW h \in Hands, NEW code,
         code = "conn_disconn" \/ (code = "dst_failed" /\ h = "SH" /\ x.objects["SH"].meta)
  PROVE  LET y == HandSignal(x, h, code)
         IN  Steady(y) /\ Others(x, y, h) /\ y.objects[h] \in Object /\ y.objects[h].dispatcher = FALSE
<1>. DEFINE y == HandSignal(x, h, code)
            j == x.objects[h]
            k == [j EXCEPT !.dispatcher = FALSE]
            x1 == SetObject(x, h, k)
<1>1. x \in Proxy /\ h \in Objects /\ j \in Object
  BY PartsOf DEF Steady, Objects
<1>2. k \in Object /\ Mild(j, k) /\ k.dispatcher = FALSE
  BY <1>1 DEF Mild, Object
<1>3. Steady(x1) /\ x1.objects[h] = k /\ \A t \in Objects : t # h => x1.objects[t] = x.objects[t]
  <2>. HIDE DEF k
  <2>. QED  BY <1>1, <1>2, MildSteady
<1>4. [x EXCEPT !.objects[h].dispatcher = FALSE] = x1
  BY DEF SetObject
<1>5. CASE code = "conn_disconn"
  <2>1. y = CloseOnceFlushed(x1, h)
    BY <1>4, <1>5 DEF HandSignal
  <2>. HIDE DEF y, x1, k
  <2>2. Steady(y) /\ Others(x1, y, h) /\ Told(k, y.objects[h]) /\ y.objects[h].dispatcher = FALSE
    BY <1>1, <1>2, <1>3, <2>1, CloseOnceFlushedSteady
  <2>3. Others(x, y, h)
    BY <1>3, <2>2 DEF Others
  <2>. QED  BY <2>2, <2>3 DEF Told, y
<1>6. CASE code = "dst_failed" /\ h = "SH" /\ x.objects["SH"].meta
  <2>. DEFINE z == SendMetaAck(x1, DstFailed)
  <2>1. y = CloseAlone(z, "SH")
    BY <1>4, <1>6 DEF HandSignal
  <2>2. DstFailed \in Int
    BY DEF DstFailed
  <2>7. x1.objects["SH"].meta
    BY <1>2, <1>3, <1>6 DEF Mild
  <2>. HIDE DEF x1, k
  <2>3. Steady(z) /\ Others(x1, z, "SH") /\ OnlyAcked(k, z.objects["SH"])
    BY <1>3, <1>6, <2>2, <2>7, SendMetaAckSteady
  <2>. HIDE DEF y, z
  <2>4. Closes(z, y, "SH")
    BY <1>1, <1>6, <2>1, <2>3, CloseAloneSteady
  <2>5. Steady(y) /\ y.objects["SH"] \in Object /\ y.objects["SH"].dispatcher = FALSE
    BY <1>2, <2>3, <2>4 DEF Closes, Closed, OnlyAcked
  <2>6. Others(x, y, "SH")
    BY <1>3, <1>6, <2>3, <2>4 DEF Closes, Others
  <2>. QED  BY <1>6, <2>5, <2>6 DEF y
<1>. QED  BY <1>5, <1>6

\* A dispatcher that closes tells its hand first.
LEMMA DispatcherConnCloseDoes ==
  ASSUME NEW x, Steady(x), NEW d \in Dispatchers, NEW code,
         \/ x.objects[d].hands = "none"
         \/ code = "conn_disconn"
         \/ code = "dst_failed" /\ d = "SD" /\ x.objects["SH"].meta
  PROVE  DispatcherGone(x, DispatcherConnClose(x, d, code), d)
<1>. DEFINE y == DispatcherConnClose(x, d, code)
            h == Mate(d)
            z == IF x.objects[d].hands = "none" THEN x ELSE HandSignal(x, h, code)
            j == z.objects[d]
            k == [j EXCEPT !.hands = "none"]
            z1 == SetObject(z, d, k)
<1>1. /\ h \in Objects /\ d \in Objects /\ h \in Hands /\ d # h
      /\ x \in Proxy /\ x.objects[d] \in Object
  BY Mates, PartsOf DEF Steady, Objects
<1>2. y = CloseAlone(z1, d)
  BY DEF DispatcherConnClose, SetObject
<1>3. /\ Steady(z) /\ Others(x, z, h)
      /\ IF x.objects[d].hands = "none" THEN z.objects[h] = x.objects[h]
                                        ELSE z.objects[h].dispatcher = FALSE
  <2>1. CASE x.objects[d].hands = "none"
    BY <2>1 DEF Others
  <2>2. CASE x.objects[d].hands # "none"
    <3>1. z = HandSignal(x, h, code)
      BY <2>2
    <3>2. code = "conn_disconn" \/ (code = "dst_failed" /\ h = "SH" /\ x.objects["SH"].meta)
      BY <2>2, Names
    <3>. HIDE DEF z
    <3>. QED  BY <1>1, <2>2, <3>1, <3>2, HandSignalSteady
  <2>. QED  BY <2>1, <2>2
<1>. HIDE DEF y, z
<1>4. j \in Object
  BY <1>1, <1>3 DEF Others
<1>5. k \in Object /\ Mild(j, k) /\ k.hands = "none"
  BY <1>4 DEF Mild, Object
<1>. HIDE DEF k, j
<1>6. Steady(z1) /\ z1.objects[d] = k /\ \A t \in Objects : t # d => z1.objects[t] = z.objects[t]
  BY <1>1, <1>3, <1>5, MildSteady DEF j
<1>. HIDE DEF z1
<1>7. Closes(z1, y, d)
  BY <1>1, <1>2, <1>6, CloseAloneSteady
<1>8. /\ Steady(y) /\ \A t \in Objects : t # d => y.objects[t] = z.objects[t]
      /\ y.objects[d].hands = "none" /\ y.objects[d].life # "live"
  BY <1>5, <1>6, <1>7 DEF Closes, Closed, Others
<1>9. \A t \in Objects : t \notin {d, h} => y.objects[t] = x.objects[t]
  BY <1>3, <1>8 DEF Others
<1>10. y.objects[h] = z.objects[h]
  BY <1>1, <1>8
<1>. QED  BY <1>3, <1>8, <1>9, <1>10 DEF DispatcherGone, y

\* Such a close is sound.
LEMMA DispatcherConnCloseSound ==
  ASSUME NEW x, Sound(x), NEW d \in Dispatchers, NEW code,
         \/ x.objects[d].hands = "none"
         \/ code = "conn_disconn"
         \/ code = "dst_failed" /\ d = "SD" /\ x.objects["SH"].meta
  PROVE  Sound(DispatcherConnClose(x, d, code))
<1>. DEFINE y == DispatcherConnClose(x, d, code)
            h == Mate(d)
<1>0. h \in Hands /\ Mate(h) = d
  BY Names DEF Hands, Dispatchers
<1>1. /\ Steady(x) /\ Quiet(x) /\ Pair(x, h) /\ Reaching(x) /\ h \in Objects /\ d \in Objects /\ d # h
      /\ \A g \in Hands : g # h => g \notin {h, d} /\ Mate(g) \notin {h, d} /\ g \in Objects /\ Mate(g) \in Objects
  BY <1>0, SoundParts
<1>2. DispatcherGone(x, y, d)
  BY <1>1, DispatcherConnCloseDoes
<1>. HIDE DEF y
<1>3. Pair(y, h)
  <2>1. y.objects[d].life # "live" /\ y.objects[d].hands = "none"
    BY <1>2 DEF DispatcherGone
  <2>2. CASE x.objects[d].hands = "none"
    <3>1. y.objects[h] = x.objects[h]
      BY <1>2, <2>2 DEF DispatcherGone
    <3>. QED  BY <1>0, <1>1, <2>1, <2>2, <3>1 DEF Pair
  <2>3. CASE x.objects[d].hands # "none"
    <3>1. y.objects[h].dispatcher = FALSE
      BY <1>2, <2>3 DEF DispatcherGone
    <3>. QED  BY <1>0, <2>1, <3>1 DEF Pair
  <2>. QED  BY <2>2, <2>3
<1>4. ASSUME NEW g \in Hands, g # h
      PROVE  Pair(y, g)
  <2>1. y.objects[g] = x.objects[g] /\ y.objects[Mate(g)] = x.objects[Mate(g)]
    BY <1>1, <1>2, <1>4 DEF DispatcherGone
  <2>2. Pair(x, g)
    BY DEF Sound
  <2>. QED  BY <2>1, <2>2, OtherPair
<1>5. Reaching(y)
  <2>1. CASE d = "CD"
    <3>1. y.objects["SD"] = x.objects["SD"] /\ y.objects["SH"] = x.objects["SH"]
      BY <1>2, <2>1, Names DEF DispatcherGone
    <3>. QED  BY <1>1, <3>1 DEF Reaching
  <2>2. CASE d = "SD"
    BY <1>2, <2>2 DEF DispatcherGone, Reaching
  <2>. QED  BY <2>1, <2>2 DEF Dispatchers
<1>6. Steady(y)
  BY <1>2 DEF DispatcherGone
<1>. QED  BY <1>3, <1>4, <1>5, <1>6 DEF Sound, y

\* Data move at one object: nothing else changes that the others rely on.
LEMMA MovesSound ==
  ASSUME NEW x, Sound(x), NEW o \in Objects, NEW y, Moves(x, y, o)
  PROVE  Sound(y)
<1>1. Steady(y) /\ Others(x, y, o) /\ Alike(x.objects[o], y.objects[o])
  BY DEF Moves
<1>2. ASSUME NEW t \in Objects
      PROVE  /\ y.objects[t].life = x.objects[t].life /\ y.objects[t].status = x.objects[t].status
             /\ y.objects[t].dispatcher = x.objects[t].dispatcher /\ y.objects[t].hands = x.objects[t].hands
             /\ y.objects[t].alarm = x.objects[t].alarm /\ y.objects[t].ack = x.objects[t].ack
  BY <1>1 DEF Others, Alike
<1>3. ASSUME NEW g \in Hands
      PROVE  Pair(y, g)
  <2>1. Pair(x, g) /\ g \in Objects /\ Mate(g) \in Objects
    BY SoundParts
  <2>. QED  BY <1>2, <2>1 DEF Pair
<1>4. Reaching(y)
  <2>1. Reaching(x) /\ "SD" \in Objects /\ "SH" \in Objects
    BY Names DEF Sound
  <2>. QED  BY <1>2, <2>1 DEF Reaching
<1>. QED  BY <1>1, <1>3, <1>4 DEF Sound

\* A link changes, but not the states of its ends, and nothing comes to the relay.
LEMMA LinkSound ==
  ASSUME NEW x, Sound(x), NEW l \in LinkNames, NEW k, SameStates(x.links[l], k),
         l = "relay" => NoMore(x.links[l], k)
  PROVE  /\ Sound(SetLink(x, l, k)) /\ SetLink(x, l, k).objects = x.objects
         /\ SetLink(x, l, k).hosts = x.hosts /\ SetLink(x, l, k).links[l] = k
         /\ \A m \in LinkNames : m # l => SetLink(x, l, k).links[m] = x.links[m]
<1>. DEFINE y == SetLink(x, l, k)
<1>1. Steady(x) /\ Reaching(x) /\ \A g \in Hands : Pair(x, g)
  BY DEF Sound
<1>2. /\ Steady(y) /\ y.objects = x.objects /\ y.hosts = x.hosts /\ y.links[l] = k
      /\ \A m \in LinkNames : m # l => y.links[m] = x.links[m]
  BY <1>1, LinkSteady
<1>. HIDE DEF y
<1>3. Reaching(y) /\ \A g \in Hands : Pair(y, g)
  BY <1>1, <1>2 DEF Reaching, Pair
<1>. QED  BY <1>2, <1>3 DEF Sound, y

-------------------------------------------------------------------------------
(* The end of a host. *)

\* Nothing more, twice.
LEMMA NoMoreTrans ==
  ASSUME NEW l, NEW k, NEW m, NoMore(l, k), NoMore(k, m)
  PROVE  NoMore(l, m)
BY DEF NoMore

\* The socket of an object is closed, and whoever waits to be accepted is reset.
LEMMA EndLink ==
  ASSUME NEW l \in Wire, Shaped(l), NEW e \in Ends
  PROVE  LET k == Close(IF e = "far" THEN Abandon(l) ELSE l, e)
         IN  /\ k \in Wire /\ Shaped(k) /\ NoMore(l, k)
             /\ k[Peer(e)].state = l[Peer(e)].state
             /\ k[e].state = IF l[e].state = "none" THEN "none" ELSE "closed"
<1>. DEFINE a == IF e = "far" THEN Abandon(l) ELSE l
            k == Close(a, e)
<1>1. Peer(e) \in Ends /\ Peer("near") = "far" /\ Peer("far") = "near" /\ e \in {"near", "far"}
  BY WireFields DEF Ends
<1>2. /\ a \in Wire /\ NoMore(l, a) /\ a["near"].state = l["near"].state
      /\ a["far"].state = IF e = "far" /\ l["far"].state = "queued" THEN "closed" ELSE l["far"].state
  BY OtherLinkCalls, OtherNoMore DEF NoMore
<1>. HIDE DEF a
<1>3. k \in Wire /\ k[e].state = (IF HasFd(a, e) THEN "closed" ELSE a[e].state) /\ k[Peer(e)].state = a[Peer(e)].state
  BY <1>2, CloseStates
<1>4. NoMore(l, k)
  BY <1>2, CloseNoMore, NoMoreTrans
<1>. HIDE DEF k
<1>5. HasFd(a, e) <=> a[e].state \in {"connecting", "open"}
  BY DEF HasFd
<1>6. CASE e = "far"
  <2>1. k["far"].state = IF l["far"].state = "none" THEN "none" ELSE "closed"
    BY <1>2, <1>3, <1>5, <1>6 DEF Shaped
  <2>2. k["near"].state = l["near"].state
    BY <1>1, <1>2, <1>3, <1>6
  <2>. QED  BY <1>1, <1>3, <1>4, <1>6, <2>1, <2>2 DEF Shaped, k, a
<1>7. CASE e = "near"
  <2>1. k["near"].state = IF l["near"].state = "none" THEN "none" ELSE "closed"
    BY <1>2, <1>3, <1>5, <1>7 DEF Shaped
  <2>2. k["far"].state = l["far"].state
    BY <1>1, <1>2, <1>3, <1>7
  <2>. QED  BY <1>1, <1>3, <1>4, <1>7, <2>1, <2>2 DEF Shaped, k, a
<1>. QED  BY <1>1, <1>6, <1>7

\* The end of a host closes the socket of one object.
LEMMA CloseSocketFacts ==
  ASSUME NEW links, AllShaped(links), NEW o \in Objects
  PROVE  LET k == CloseSocketOf(links, o)
         IN  /\ AllShaped(k) /\ NoMoreAnywhere(links, k)
             /\ St(k, o) = Shut(St(links, o))
             /\ \A t \in Objects : t # o => St(k, t) = St(links, t)
<1>. DEFINE l == links[Link(o)]
            e == EndOf(o)
            m == Close(IF e = "far" THEN Abandon(l) ELSE l, e)
            k == CloseSocketOf(links, o)
<1>1. Link(o) \in LinkNames /\ e \in Ends /\ l \in Wire /\ Shaped(l)
  BY Mates DEF AllShaped
<1>2. /\ m \in Wire /\ Shaped(m) /\ NoMore(l, m) /\ m[Peer(e)].state = l[Peer(e)].state
      /\ m[e].state = Shut(l[e].state)
  BY <1>1, EndLink DEF Shut
<1>3. k = [links EXCEPT ![Link(o)] = m]
  BY DEF CloseSocketOf
<1>. HIDE DEF m, k
<1>4. k[Link(o)] = m /\ k \in [LinkNames -> Wire] /\ \A n \in LinkNames : n # Link(o) => k[n] = links[n]
  BY <1>1, <1>2, <1>3 DEF AllShaped
<1>5. \A n \in LinkNames : Shaped(k[n]) /\ NoMore(links[n], k[n])
  BY <1>2, <1>4 DEF AllShaped, NoMore
<1>6. \A t \in Objects : t # o => St(k, t) = St(links, t)
  <2>. SUFFICES ASSUME NEW t \in Objects, t # o  PROVE  St(k, t) = St(links, t)
    OBVIOUS
  <2>1. CASE Link(t) = Link(o)
    <3>1. EndOf(t) = Peer(e) /\ Link(t) \in LinkNames
      BY <1>1, <2>1, Mates DEF Ends, Peer
    <3>. QED  BY <1>2, <1>4, <2>1, <3>1 DEF St
  <2>2. CASE Link(t) # Link(o)
    BY <1>4, <2>2, Mates DEF St
  <2>. QED  BY <2>1, <2>2
<1>7. St(k, o) = Shut(St(links, o))
  BY <1>2, <1>4 DEF St
<1>. QED  BY <1>4, <1>5, <1>6, <1>7 DEF AllShaped, NoMoreAnywhere, k

\* And then that of the other.
LEMMA CloseSocketsFacts ==
  ASSUME NEW links, AllShaped(links), NEW h \in Hosts
  PROVE  LET k == CloseSocketsOf(links, h)
         IN  /\ AllShaped(k) /\ NoMoreAnywhere(links, k)
             /\ \A t \in Objects : St(k, t) = IF Host(t) = h THEN Shut(St(links, t)) ELSE St(links, t)
<1>. DEFINE a == IF h = "caller" THEN "CD" ELSE "SH"
            b == IF h = "caller" THEN "CH" ELSE "SD"
            j == CloseSocketOf(links, a)
            k == CloseSocketOf(j, b)
<1>1. /\ a \in Objects /\ b \in Objects /\ a # b
      /\ \A t \in Objects : Host(t) = h <=> t \in {a, b}
  BY Names DEF Hosts
<1>2. CloseSocketsOf(links, h) = k
  BY DEF CloseSocketsOf
<1>3. /\ AllShaped(j) /\ NoMoreAnywhere(links, j)
      /\ St(j, a) = Shut(St(links, a))
      /\ \A t \in Objects : t # a => St(j, t) = St(links, t)
  BY <1>1, CloseSocketFacts
<1>. HIDE DEF j
<1>4. /\ AllShaped(k) /\ NoMoreAnywhere(j, k)
      /\ St(k, b) = Shut(St(j, b))
      /\ \A t \in Objects : t # b => St(k, t) = St(j, t)
  BY <1>1, <1>3, CloseSocketFacts
<1>. HIDE DEF k, a, b
<1>5. NoMoreAnywhere(links, k)
  BY <1>3, <1>4, NoMoreTrans DEF NoMoreAnywhere
<1>6. \A t \in Objects : St(k, t) = IF Host(t) = h THEN Shut(St(links, t)) ELSE St(links, t)
  BY <1>1, <1>3, <1>4
<1>. QED  BY <1>2, <1>4, <1>5, <1>6

\* The objects of a host that ends are deleted.
LEMMA EndObjectFacts ==
  ASSUME NEW j \in Object
  PROVE  Over(j, EndObject(j))
BY DEF Over, EndObject, Object

\* A context that ends has no tasks.
LEMMA DestroyFacts ==
  ASSUME NEW c \in Context(Objects)
  PROVE  Destroy(c) \in Context(Objects) /\ TasksOf(Destroy(c)) = {}
<1>1. <<>> \in Seq(Objects) /\ DOMAIN <<>> = {}
  OBVIOUS
<1>2. Destroy(c) \in Context(Objects) /\ Destroy(c).tasks = <<>>
  BY <1>1 DEF Destroy, Context
<1>. QED  BY <1>1, <1>2 DEF TasksOf

\* What the end of a host does to links and objects.
LEMMA EndDoes ==
  ASSUME NEW x \in Proxy, NEW h \in Hosts, \A l \in LinkNames : Shaped(x.links[l])
  PROVE  LET y == End_(x, h)
         IN  /\ y \in Proxy /\ AllShaped(y.links) /\ NoMoreAnywhere(x.links, y.links)
             /\ \A t \in Objects : StateOf(y, t) = IF Host(t) = h THEN Shut(StateOf(x, t)) ELSE StateOf(x, t)
             /\ \A t \in Objects : IF Host(t) = h THEN Over(x.objects[t], y.objects[t])
                                                  ELSE y.objects[t] = x.objects[t]
             /\ TasksOf(y.hosts[h]) = {} /\ \A g \in Hosts : g # h => y.hosts[g] = x.hosts[g]
<1>. DEFINE links == CloseSocketsOf(x.links, h)
            objects == [t \in Objects |-> IF Host(t) = h THEN EndObject(x.objects[t]) ELSE x.objects[t]]
            c == Destroy(x.hosts[h])
            y == End_(x, h)
<1>1. AllShaped(x.links)
  BY ProxyFields DEF AllShaped
<1>2. /\ AllShaped(links) /\ NoMoreAnywhere(x.links, links)
      /\ \A t \in Objects : St(links, t) = IF Host(t) = h THEN Shut(St(x.links, t)) ELSE St(x.links, t)
  BY <1>1, CloseSocketsFacts
<1>3. /\ objects \in [Objects -> Object]
      /\ \A t \in Objects : IF Host(t) = h THEN Over(x.objects[t], objects[t]) ELSE objects[t] = x.objects[t]
  <2>1. \A t \in Objects : Over(x.objects[t], EndObject(x.objects[t])) /\ x.objects[t] \in Object
    BY ProxyFields, EndObjectFacts
  <2>. QED  BY <2>1 DEF Over
<1>4. c \in Context(Objects) /\ TasksOf(c) = {}
  BY ProxyFields, DestroyFacts
<1>5. y = [x EXCEPT !.links = links, !.objects = objects, !.hosts[h] = c]
  BY DEF End_
<1>. HIDE DEF links, objects, c, y
<1>6. /\ y \in Proxy /\ y.links = links /\ y.objects = objects /\ y.hosts = [x.hosts EXCEPT ![h] = c]
  BY <1>2, <1>3, <1>4, <1>5 DEF Proxy, AllShaped
<1>7. y.hosts[h] = c /\ \A g \in Hosts : g # h => y.hosts[g] = x.hosts[g]
  BY <1>6, ProxyFields
<1>8. \A t \in Objects : StateOf(y, t) = IF Host(t) = h THEN Shut(StateOf(x, t)) ELSE StateOf(x, t)
  BY <1>2, <1>6 DEF StateOf, St
<1>. QED  BY <1>2, <1>3, <1>4, <1>6, <1>7, <1>8 DEF y

\* The end of a host keeps Base and Quiet.
LEMMA EndSteady ==
  ASSUME NEW x, Steady(x), NEW h \in Hosts
  PROVE  LET y == End_(x, h)
         IN  /\ Steady(y)
             /\ \A t \in Objects : IF Host(t) = h THEN Over(x.objects[t], y.objects[t])
                                                  ELSE y.objects[t] = x.objects[t]
<1>. DEFINE y == End_(x, h)
<1>1. Base(x) /\ Quiet(x) /\ x \in Proxy
  BY DEF Steady, Base
<1>2. /\ y \in Proxy /\ AllShaped(y.links) /\ NoMoreAnywhere(x.links, y.links)
      /\ \A t \in Objects : StateOf(y, t) = IF Host(t) = h THEN Shut(StateOf(x, t)) ELSE StateOf(x, t)
      /\ \A t \in Objects : IF Host(t) = h THEN Over(x.objects[t], y.objects[t]) ELSE y.objects[t] = x.objects[t]
      /\ TasksOf(y.hosts[h]) = {} /\ \A g \in Hosts : g # h => y.hosts[g] = x.hosts[g]
  BY <1>1, EndDoes DEF Base
<1>. HIDE DEF y
<1>3. \A t \in Objects : Own(y, t)
  <2>. SUFFICES ASSUME NEW t \in Objects  PROVE  Own(y, t)
    OBVIOUS
  <2>1. Own(x, t) /\ Host(t) \in Hosts /\ x.objects[t] \in Object
    BY <1>1, Mates, ProxyFields DEF Base
  <2>2. CASE Host(t) = h
    <3>1. y.objects[t].life = (IF x.objects[t].life = "none" THEN "none" ELSE "deleted") /\ StateOf(y, t) = Shut(StateOf(x, t))
      BY <1>2, <2>2 DEF Over
    <3>2. t \notin TasksOf(y.hosts[Host(t)])
      BY <1>2, <2>2
    <3>. QED  BY <2>1, <3>1, <3>2 DEF Own, Shut
  <2>3. CASE Host(t) # h
    BY <1>2, <2>1, <2>3 DEF Own
  <2>. QED  BY <2>2, <2>3
<1>4. \A t \in Objects : /\ y.objects[t].life = "none" <=> x.objects[t].life = "none"
                         /\ y.objects[t].alarm = x.objects[t].alarm /\ y.objects[t].wb = x.objects[t].wb
                         /\ y.objects[t].meta = x.objects[t].meta /\ y.objects[t].ack = x.objects[t].ack
  BY <1>2 DEF Over
<1>5. InTurn(y)
  <2>1. InTurn(x) /\ \A t \in Objects : StateOf(x, t) = "none" => StateOf(y, t) = "none"
    BY <1>1, <1>2 DEF Base, Shut
  <2>. QED  BY <1>4, <2>1, Names DEF InTurn, Hands
<1>6. Base(y)
  BY <1>1, <1>2, <1>3, <1>5 DEF Base, AllShaped
<1>7. Calm(x, y)
  BY <1>2, <1>4 DEF Calm, Marks, NoMoreAnywhere, LinkNames
<1>. QED  BY <1>1, <1>2, <1>6, <1>7, CalmQuiet DEF Steady, y

\* And it is sound: no pair is on two hosts.
LEMMA EndSound ==
  ASSUME NEW x, Sound(x), NEW h \in Hosts
  PROVE  Sound(End_(x, h))
<1>. DEFINE y == End_(x, h)
<1>1. Steady(x)
  BY DEF Sound
<1>2. Steady(y) /\ \A t \in Objects : IF Host(t) = h THEN Over(x.objects[t], y.objects[t]) ELSE y.objects[t] = x.objects[t]
  BY <1>1, EndSteady
<1>. HIDE DEF y
<1>3. ASSUME NEW g \in Hands  PROVE  Pair(y, g)
  <2>1. g \in Objects /\ Mate(g) \in Objects /\ Host(Mate(g)) = Host(g) /\ Pair(x, g)
    BY Mates DEF Sound, Objects
  <2>2. CASE Host(g) = h
    BY <1>2, <2>1, <2>2 DEF Pair, Over
  <2>3. CASE Host(g) # h
    BY <1>2, <2>1, <2>3 DEF Pair
  <2>. QED  BY <2>2, <2>3
<1>4. Reaching(y)
  BY <1>2, Names DEF Reaching, Over, Sound
<1>. QED  BY <1>2, <1>3, <1>4 DEF Sound, y

-------------------------------------------------------------------------------
(* Objects come. *)

\* A new object keeps Base if it comes in its turn.
LEMMA BirthBase ==
  ASSUME NEW x, Base(x), NEW o \in Objects, x.objects[o].life = "none", NEW y, Born(x, y, o),
         o = "CH" => x.objects["CD"].life # "none",
         o = "SD" => x.objects["SH"].meta
  PROVE  Base(y)
<1>1. /\ Host(o) \in Hosts /\ o \in ObjectsOf(Host(o)) /\ y \in Proxy
      /\ \A t \in Objects : Host(t) \in Hosts
  BY Mates DEF Born
<1>2. \A t \in Objects : Own(y, t)
  <2>. SUFFICES ASSUME NEW t \in Objects  PROVE  Own(y, t)
    OBVIOUS
  <2>1. Own(x, t) /\ Own(x, o)
    BY DEF Base
  <2>2. CASE t = o
    BY <2>1, <2>2 DEF Own, Born
  <2>3. CASE t # o
    <3>1. y.objects[t] = x.objects[t] /\ StateOf(y, t) = StateOf(x, t)
      BY <2>3 DEF Born, Others
    <3>2. /\ t \in TasksOf(y.hosts[Host(t)]) <=> t \in TasksOf(x.hosts[Host(t)])
          /\ t \in x.hosts[Host(t)].visitors => t \in y.hosts[Host(t)].visitors
      <4>1. CASE Host(t) = Host(o)
        BY <2>3, <4>1 DEF Born
      <4>2. CASE Host(t) # Host(o)
        BY <1>1, <4>2 DEF Born
      <4>. QED  BY <4>1, <4>2
    <3>. QED  BY <2>1, <3>1, <3>2 DEF Own
  <2>. QED  BY <2>2, <2>3
<1>3. \A g \in Hosts : TasksOf(y.hosts[g]) \subseteq ObjectsOf(g)
  BY <1>1 DEF Base, Born
<1>4. InTurn(y)
  <2>1. InTurn(x) /\ y.objects[o].life # "none"
    BY DEF Base, Born
  <2>2. \A t \in Objects : t # o => y.objects[t] = x.objects[t] /\ StateOf(y, t) = StateOf(x, t)
    BY DEF Born, Others
  <2>. HIDE DEF Born
  <2>. QED  BY <2>1, <2>2, Names DEF InTurn, Hands
<1>. QED  BY <1>2, <1>3, <1>4 DEF Base, Born

\* An object whose connect failed at once is destroyed.
LEMMA FallenFacts ==
  ASSUME NEW j \in Object
  PROVE  Fallen(j, [j EXCEPT !.life = "destroyed"])
BY DEF Object, Fallen

\* A new object with a connection under way.
LEMMA ConnectBorn ==
  ASSUME NEW x, Base(x), NEW o \in {"CH", "SD"}, x.objects[o].life = "none",
         NEW z \in Proxy, z.links = x.links, Others(x, z, o), z.objects[o].life = "live", Visiting(x, z, o)
  PROVE  LET y == [z EXCEPT !.links[Link(o)] = Connecting]
         IN  /\ Born(x, y, o) /\ y.objects[o] = z.objects[o] /\ HasSocket(y, o)
             /\ y.links[Link(o)] = Connecting /\ \A l \in LinkNames : l # Link(o) => y.links[l] = x.links[l]
<1>. DEFINE y == [z EXCEPT !.links[Link(o)] = Connecting]
<1>1. /\ o \in Objects /\ Link(o) \in LinkNames /\ EndOf(o) = "near" /\ x \in Proxy
      /\ x.links[Link(o)] \in Wire /\ Shaped(x.links[Link(o)])
  BY Names, PartsOf DEF Base
<1>2. StateOf(x, o) = "none" /\ x.links[Link(o)]["far"].state = "none"
  BY <1>1 DEF Base, InTurn, Shaped, StateOf
<1>3. Connecting \in Wire /\ Connecting["near"].state = "connecting" /\ Connecting["far"].state = "none"
  BY NewLinks
<1>4. y = SetLink(z, Link(o), Connecting)
  BY DEF SetLink
<1>. HIDE DEF y
<1>5. /\ y \in Proxy /\ y.objects = z.objects /\ y.hosts = z.hosts
      /\ y.links[Link(o)] = Connecting /\ \A l \in LinkNames : l # Link(o) => y.links[l] = x.links[l]
  BY <1>1, <1>3, <1>4, LinkSet
<1>6. \A l \in LinkNames : Shaped(y.links[l])
  BY <1>3, <1>5 DEF Shaped, Base
<1>7. \A t \in Objects : t # o => StateOf(y, t) = StateOf(x, t)
  <2>. SUFFICES ASSUME NEW t \in Objects, t # o  PROVE  StateOf(y, t) = StateOf(x, t)
    OBVIOUS
  <2>1. CASE Link(t) = Link(o)
    <3>1. EndOf(t) = "far"
      BY <1>1, <2>1, Mates DEF Ends
    <3>. QED  BY <1>2, <1>3, <1>5, <2>1, <3>1 DEF StateOf
  <2>2. CASE Link(t) # Link(o)
    BY <1>5, <2>2, Mates DEF StateOf
  <2>. QED  BY <2>1, <2>2
<1>8. StateOf(y, o) = "connecting" /\ HasSocket(y, o)
  BY <1>1, <1>3, <1>5 DEF StateOf, HasSocket, HasFd
<1>9. Born(x, y, o)
  BY <1>5, <1>6, <1>7, <1>8 DEF Born, Visiting, Others
<1>. QED  BY <1>5, <1>8, <1>9 DEF y

\* A new object whose connect failed at once.
LEMMA FailBorn ==
  ASSUME NEW x, Base(x), NEW o \in {"CH", "SD"}, x.objects[o].life = "none",
         NEW z \in Proxy, z.links = x.links, Others(x, z, o), z.objects[o].life = "live", Visiting(x, z, o)
  PROVE  LET y == FailAtOnce(z, o)
         IN  /\ Born(x, y, o) /\ Fallen(z.objects[o], y.objects[o]) /\ ~ HasSocket(y, o)
             /\ \A e \in Ends : y.links[Link(o)][e].in = x.links[Link(o)][e].in
             /\ y.links[Link(o)]["far"] = x.links[Link(o)]["far"]
             /\ \A l \in LinkNames : l # Link(o) => y.links[l] = x.links[l]
<1>. DEFINE h == Host(o)
            l == x.links[Link(o)]
            m == SetState(l, "near", "closed")
            k == [z.objects[o] EXCEPT !.life = "destroyed"]
            z1 == SetLink(z, Link(o), m)
            c == PostTask(z1.hosts[h], o)
            z2 == SetObject(z1, o, k)
            y == FailAtOnce(z, o)
<1>1. /\ o \in Objects /\ Link(o) \in LinkNames /\ EndOf(o) = "near" /\ x \in Proxy /\ h \in Hosts
      /\ l \in Wire /\ Shaped(l) /\ Link("CH") # Link("SD")
  BY Names, PartsOf DEF Base
<1>2. StateOf(x, o) = "none" /\ l["near"].state = "none" /\ l["far"].state = "none"
  BY <1>1 DEF Base, InTurn, Shaped, StateOf
<1>3. /\ m \in Wire /\ m["near"].state = "closed" /\ m["far"] = l["far"]
      /\ "near" \in Ends /\ "far" \in Ends /\ m["near"].in = l["near"].in
  <2>1. "near" \in Ends /\ "closed" \in States /\ Peer("near") = "far"
    BY DEF Ends, States, Peer
  <2>2. m["near"].in = l["near"].in
    BY <1>1, <2>1 DEF SetState, Wire, End
  <2>. QED  BY <1>1, <2>1, <2>2, SetStateFacts DEF Ends
<1>4. Fallen(z.objects[o], k) /\ k \in Object
  BY <1>1, ProxyFields, FallenFacts DEF Fallen
<1>5. y = DeleteSelf(z1, o)
  BY <1>1 DEF FailAtOnce, SetLink, SetState
<1>. HIDE DEF m, k, y
<1>6. /\ z1 \in Proxy /\ z1.objects = z.objects /\ z1.hosts = z.hosts
      /\ z1.links[Link(o)] = m /\ \A n \in LinkNames : n # Link(o) => z1.links[n] = x.links[n]
  BY <1>1, <1>3, LinkSet
<1>. HIDE DEF z1
<1>7. /\ z1.hosts[h] \in Context(Objects) /\ c \in Context(Objects) /\ TasksOf(c) = TasksOf(z.hosts[h]) \cup {o}
      /\ c.visitors = z.hosts[h].visitors
  BY <1>1, <1>6, ProxyFields, PostTaskFacts
<1>8. y = SetHost(z2, h, c)
  <2>1. y = [z1 EXCEPT !.objects[o].life = "destroyed", !.hosts[h] = PostTask(@, o)]
    BY <1>5, <1>6 DEF DeleteSelf
  <2>2. y = [z1 EXCEPT !.objects[o] = k, !.hosts[h] = c]
    BY <1>1, <1>6, <2>1 DEF k
  <2>. HIDE DEF c, h
  <2>. QED  BY <1>1, <1>6, <2>2 DEF SetObject, SetHost, Proxy
<1>. HIDE DEF c
<1>9. /\ z2 \in Proxy /\ z2.links = z1.links /\ z2.hosts = z1.hosts /\ z2.objects[o] = k
      /\ \A t \in Objects : t # o => z2.objects[t] = z1.objects[t]
  <2>1. z1 \in Proxy /\ o \in Objects /\ k \in Object
    BY <1>1, <1>4, <1>6
  <2>. QED  BY <2>1, ObjectSet
<1>. HIDE DEF z2
<1>10. /\ y \in Proxy /\ y.links = z1.links /\ y.objects = z2.objects
       /\ y.hosts = [z.hosts EXCEPT ![h] = c]
  BY <1>1, <1>6, <1>7, <1>8, <1>9, SetFacts
<1>11. y.hosts[h] = c /\ \A g \in Hosts : g # h => y.hosts[g] = z.hosts[g]
  BY <1>1, <1>10, ProxyFields
<1>12. \A n \in LinkNames : Shaped(y.links[n])
  BY <1>2, <1>3, <1>6, <1>10 DEF Shaped, Base
<1>13. \A t \in Objects : t # o => StateOf(y, t) = StateOf(x, t)
  <2>. SUFFICES ASSUME NEW t \in Objects, t # o  PROVE  StateOf(y, t) = StateOf(x, t)
    OBVIOUS
  <2>1. CASE Link(t) = Link(o)
    <3>1. EndOf(t) = "far"
      BY <1>1, <2>1, Mates DEF Ends
    <3>. QED  BY <1>3, <1>6, <1>10, <2>1, <3>1 DEF StateOf
  <2>2. CASE Link(t) # Link(o)
    BY <1>6, <1>10, <2>2, Mates DEF StateOf
  <2>. QED  BY <2>1, <2>2
<1>14. StateOf(y, o) = "closed" /\ ~ HasSocket(y, o)
  BY <1>1, <1>3, <1>6, <1>10 DEF StateOf, HasSocket, HasFd
<1>15. Others(x, y, o) /\ y.objects[o] = k
  BY <1>6, <1>9, <1>10 DEF Others
<1>16. Born(x, y, o)
  <2>1. y.objects[o].life = "destroyed"
    BY <1>4, <1>15 DEF Fallen
  <2>2. /\ \A g \in Hosts : g # h => y.hosts[g] = x.hosts[g]
        /\ TasksOf(y.hosts[h]) = TasksOf(x.hosts[h]) \cup {o}
        /\ x.hosts[h].visitors \subseteq y.hosts[h].visitors
        /\ o \in Dispatchers => o \in y.hosts[h].visitors
    BY <1>7, <1>11 DEF Visiting
  <2>. QED  BY <1>10, <1>12, <1>13, <1>14, <1>15, <2>1, <2>2 DEF Born
<1>17. y.links[Link(o)]["far"] = l["far"] /\ \A e \in Ends : y.links[Link(o)][e].in = l[e].in
  BY <1>3, <1>6, <1>10 DEF Ends
<1>. QED  BY <1>4, <1>6, <1>10, <1>14, <1>15, <1>16, <1>17 DEF y

\* A new object has nothing to send but the address.
LEMMA BirthQuiet ==
  ASSUME NEW x, Steady(x), NEW o \in Objects, x.objects[o].life = "none", NEW y, Born(x, y, o),
         Fresh(y.objects[o], o), NoMore(x.links["relay"], y.links["relay"])
  PROVE  Quiet(y)
<1>1. Base(x) /\ Quiet(x) /\ x \in Proxy /\ y \in Proxy /\ InTurn(x)
  BY DEF Steady, Base, Born
<1>2. \A t \in Objects : t # o => y.objects[t] = x.objects[t]
  BY DEF Born, Others
<1>3. "near" \in Ends /\ "far" \in Ends /\ Objects = {"CD", "CH", "SH", "SD"} /\ Hands = {"CH", "SH"}
  BY Names DEF Ends, Hands
<1>4. /\ y.links["relay"]["near"].in \in {x.links["relay"]["near"].in, <<>>}
      /\ y.links["relay"]["far"].in \in {x.links["relay"]["far"].in, <<>>}
  BY <1>3 DEF NoMore
<1>5. /\ Heading(x) \in Nat /\ Heading(y) \in Nat
      /\ x.links["relay"]["far"].in \in Seq(Int) /\ Len(x.links["relay"]["far"].in) \in Nat
      /\ y.links["relay"]["far"].in \in Seq(Int) /\ Len(y.links["relay"]["far"].in) \in Nat
      /\ Len(x.objects["CH"].wb) \in Nat /\ Len(y.objects["CH"].wb) \in Nat
  BY <1>1, HeadingNat
<1>6. Len(y.links["relay"]["far"].in) <= Len(x.links["relay"]["far"].in)
  <2>. DEFINE n == Len(x.links["relay"]["far"].in)
              m == Len(y.links["relay"]["far"].in)
  <2>1. Len(<<>>) = 0
    OBVIOUS
  <2>2. n \in Nat
    BY <1>5
  <2>3. m \in {n, 0}
    BY <1>4, <2>1
  <2>. HIDE DEF m, n
  <2>4. m <= n
    BY <2>2, <2>3
  <2>. QED  BY <2>4 DEF m, n
<1>7. ~ y.objects["CH"].ack => ~ y.objects["CD"].alarm
  <2>1. o = "CH" => ~ x.objects["CH"].ack
    BY <1>1, <1>3 DEF InTurn
  <2>. QED  BY <1>1, <1>2, <1>3, <2>1 DEF Quiet, Fresh
<1>8. y.objects["SH"].ack => y.objects["SH"].meta
  BY <1>1, <1>2, <1>3 DEF Quiet, Fresh
<1>9. ASSUME ~ y.objects["SH"].ack
      PROVE  /\ ~ y.objects["CH"].ack
             /\ y.links["relay"]["near"].in = <<>>
             /\ Heading(y) <= (IF y.objects["SH"].meta \/ ~ y.objects["CH"].meta THEN 0 ELSE 1)
             /\ \A t \in {"SH", "SD"} : y.objects[t].wb = <<>> /\ ~ y.objects[t].alarm
  <2>1. ~ x.objects["SH"].ack /\ (o = "SH" => ~ x.objects["SH"].meta)
    BY <1>1, <1>2, <1>3, <1>9 DEF InTurn
  <2>2. /\ ~ x.objects["CH"].ack /\ x.links["relay"]["near"].in = <<>>
        /\ Heading(x) <= (IF x.objects["SH"].meta \/ ~ x.objects["CH"].meta THEN 0 ELSE 1)
        /\ \A t \in {"SH", "SD"} : x.objects[t].wb = <<>> /\ ~ x.objects[t].alarm
    BY <1>1, <2>1 DEF Quiet
  <2>3. Heading(y) <= (IF y.objects["SH"].meta \/ ~ y.objects["CH"].meta THEN 0 ELSE 1)
    <3>1. CASE o # "CH"
      <4>1. y.objects["CH"] = x.objects["CH"] /\ (y.objects["SH"].meta <=> x.objects["SH"].meta)
        BY <1>2, <1>3, <2>1, <3>1 DEF Fresh
      <4>2. Heading(y) <= Heading(x)
        BY <1>5, <1>6, <4>1 DEF Heading
      <4>. QED  BY <1>5, <2>2, <4>1, <4>2
    <3>2. CASE o = "CH"
      <4>1. StateOf(x, "CH") = "none" /\ ~ x.objects["CH"].meta
        BY <1>1, <1>3, <3>2 DEF InTurn
      <4>2. x.links["relay"]["far"].state = "none"
        BY <1>1, <4>1, Names DEF Base, Shaped, StateOf, LinkNames
      <4>3. x.objects["SH"].life = "none"
        BY <1>1, <1>3, <4>2, Names DEF Base, Own, StateOf
      <4>4. ~ x.objects["SH"].meta
        BY <1>1, <1>3, <4>3 DEF InTurn
      <4>5. Heading(x) <= 0
        BY <2>2, <4>1
      <4>6. Len(x.links["relay"]["far"].in) = 0
        <5>. DEFINE a == Len(x.objects["CH"].wb)
                    b == Len(x.links["relay"]["far"].in)
        <5>1. a \in Nat /\ b \in Nat /\ a + b <= 0
          BY <1>5, <4>5 DEF Heading
        <5>. HIDE DEF a, b
        <5>2. b = 0
          BY <5>1
        <5>. QED  BY <5>2 DEF b
      <4>7. Len(y.links["relay"]["far"].in) = 0
        BY <1>5, <1>6, <4>6
      <4>8. Len(y.objects["CH"].wb) = 1 /\ y.objects["CH"].meta
        BY <3>2 DEF Fresh
      <4>9. y.objects["SH"] = x.objects["SH"]
        BY <1>2, <1>3, <3>2
      <4>10. Heading(y) = 1
        BY <4>7, <4>8 DEF Heading
      <4>. QED  BY <4>4, <4>8, <4>9, <4>10
    <3>. QED  BY <3>1, <3>2
  <2>4. y.links["relay"]["near"].in = <<>>
    BY <1>4, <2>2
  <2>5. ~ y.objects["CH"].ack
    BY <1>2, <1>3, <2>2 DEF Fresh
  <2>6. \A t \in {"SH", "SD"} : y.objects[t].wb = <<>> /\ ~ y.objects[t].alarm
    BY <1>2, <1>3, <2>2 DEF Fresh
  <2>. QED  BY <2>3, <2>4, <2>5, <2>6
<1>. QED  BY <1>7, <1>8, <1>9 DEF Quiet

\* An object that is accepted.
LEMMA AcceptBorn ==
  ASSUME NEW x, Base(x), NEW o \in {"CD", "SH"}, StateOf(x, o) = "queued",
         NEW k \in Object, k.life = "live",
         NEW y \in Proxy, y.links = SetLink(x, Link(o), Accept(x.links[Link(o)])).links,
         y.objects = SetObject(x, o, k).objects, Visiting(x, y, o)
  PROVE  /\ x.objects[o].life = "none" /\ Born(x, y, o) /\ y.objects[o] = k
         /\ NoMore(x.links["relay"], y.links["relay"])
<1>. DEFINE l == x.links[Link(o)]
            m == Accept(l)
<1>1. /\ o \in Objects /\ Link(o) \in LinkNames /\ EndOf(o) = "far" /\ x \in Proxy
      /\ l \in Wire /\ Shaped(l) /\ "relay" \in LinkNames
  BY Names, PartsOf DEF Base, LinkNames
<1>2. l["far"].state = "queued" /\ l["near"].state \notin {"none", "connecting"}
  BY <1>1 DEF Shaped, StateOf
<1>3. m \in Wire /\ m["far"].state = "open" /\ m["near"] = l["near"] /\ NoMore(l, m)
  BY <1>1, OtherLinkCalls, OtherNoMore
<1>4. x.objects[o].life = "none"
  BY <1>1 DEF Base, Own
<1>. HIDE DEF m
<1>5. y.links[Link(o)] = m /\ \A n \in LinkNames : n # Link(o) => y.links[n] = x.links[n]
  BY <1>1, <1>3, LinkSet DEF m
<1>6. y.objects[o] = k /\ Others(x, y, o)
  BY <1>1, ObjectSet DEF Others
<1>7. \A n \in LinkNames : Shaped(y.links[n])
  BY <1>1, <1>2, <1>3, <1>5 DEF Shaped, Base
<1>8. NoMore(x.links["relay"], y.links["relay"])
  BY <1>1, <1>3, <1>5 DEF NoMore
<1>9. \A t \in Objects : t # o => StateOf(y, t) = StateOf(x, t)
  <2>. SUFFICES ASSUME NEW t \in Objects, t # o  PROVE  StateOf(y, t) = StateOf(x, t)
    OBVIOUS
  <2>1. CASE Link(t) = Link(o)
    <3>1. EndOf(t) = "near"
      BY <1>1, <2>1, Mates DEF Ends
    <3>. QED  BY <1>3, <1>5, <2>1, <3>1 DEF StateOf
  <2>2. CASE Link(t) # Link(o)
    BY <1>5, <2>2, Mates DEF StateOf
  <2>. QED  BY <2>1, <2>2
<1>10. StateOf(y, o) = "open"
  BY <1>1, <1>3, <1>5 DEF StateOf
<1>11. Born(x, y, o)
  BY <1>6, <1>7, <1>9, <1>10 DEF Born, Visiting
<1>. QED  BY <1>4, <1>6, <1>8, <1>11

\* A new dispatcher registers with its host.
LEMMA AsVisitorFacts ==
  ASSUME NEW x \in Proxy, NEW z \in Proxy, z.hosts = x.hosts, NEW d \in Dispatchers
  PROVE  LET y == AsVisitor(z, d)
         IN  y \in Proxy /\ y.links = z.links /\ y.objects = z.objects /\ Visiting(x, y, d)
<1>. DEFINE h == Host(d)
            c == RegisterExitVisitor(z.hosts[h], d)
            y == AsVisitor(z, d)
<1>1. d \in Objects /\ h \in Hosts /\ z.hosts[h] \in Context(Objects)
  BY Mates, ProxyFields DEF Objects
<1>2. c \in Context(Objects) /\ TasksOf(c) = TasksOf(z.hosts[h]) /\ c.visitors = z.hosts[h].visitors \cup {d}
  BY <1>1, VisitorFacts
<1>3. y = SetHost(z, h, c)
  BY DEF AsVisitor, SetHost
<1>. HIDE DEF c, y
<1>4. y \in Proxy /\ y.links = z.links /\ y.objects = z.objects /\ y.hosts = [z.hosts EXCEPT ![h] = c]
  BY <1>1, <1>2, <1>3, SetFacts
<1>5. y.hosts[h] = c /\ \A g \in Hosts : g # h => y.hosts[g] = z.hosts[g]
  BY <1>1, <1>4, ProxyFields
<1>. QED  BY <1>2, <1>4, <1>5 DEF Visiting, y

\* A new object keeps Base and Quiet.
LEMMA BirthSteady ==
  ASSUME NEW x, Steady(x), NEW o \in Objects, x.objects[o].life = "none", NEW y, Born(x, y, o),
         Fresh(y.objects[o], o), NoMore(x.links["relay"], y.links["relay"]),
         o = "CH" => x.objects["CD"].life # "none",
         o = "SD" => x.objects["SH"].meta
  PROVE  Steady(y)
BY BirthBase, BirthQuiet DEF Steady

\* The fields of an object that is not there yet.
LEMMA NoObjectFacts ==
  /\ NoObject \in Object /\ NoObject.life = "none" /\ NoObject.hands = "none" /\ NoObject.wb = <<>>
  /\ ~ NoObject.dispatcher /\ ~ NoObject.alarm /\ ~ NoObject.meta /\ ~ NoObject.ack
<1>1. <<>> \in Seq(Int)
  OBVIOUS
<1>. QED  BY <1>1 DEF NoObject, Object

\* The fields of a new hand.
LEMMA NewHandRecord ==
  /\ NewHand \in Object /\ NewHand.life = "live" /\ NewHand.hands = "none" /\ NewHand.wb = <<>>
  /\ ~ NewHand.dispatcher /\ ~ NewHand.alarm /\ ~ NewHand.meta /\ ~ NewHand.ack
<1>. DEFINE j == NoObject
            k == NewHand
<1>1. /\ j \in Object /\ j.hands = "none" /\ j.wb = <<>>
      /\ ~ j.dispatcher /\ ~ j.alarm /\ ~ j.meta /\ ~ j.ack
  BY NoObjectFacts
<1>2. k = [j EXCEPT !.life = "live", !.status = "connecting"]
  BY DEF NewHand
<1>. HIDE DEF j, k
<1>3. /\ k \in Object /\ k.hands = "none" /\ k.wb = <<>> /\ k.life = "live"
      /\ ~ k.dispatcher /\ ~ k.alarm /\ ~ k.meta /\ ~ k.ack
  BY <1>1, <1>2 DEF Object
<1>. QED  BY <1>3 DEF k

\* The fields of a new dispatcher.
LEMMA NewDispatcherFacts ==
  ASSUME NEW status \in {"connected", "connecting"}, NEW d \in Dispatchers
  PROVE  LET k == NewDispatcher(status)
         IN  k \in Object /\ Fresh(k, d) /\ k.life = "live" /\ k.hands = "none" /\ k.status = status
<1>. DEFINE j == NoObject
            k == NewDispatcher(status)
<1>1. /\ j \in Object /\ j.hands = "none" /\ j.wb = <<>>
      /\ ~ j.dispatcher /\ ~ j.alarm /\ ~ j.meta /\ ~ j.ack
  BY NoObjectFacts
<1>2. k = [j EXCEPT !.life = "live", !.status = status]
  BY DEF NewDispatcher
<1>. HIDE DEF j, k
<1>3. /\ k \in Object /\ k.hands = "none" /\ k.wb = <<>> /\ k.life = "live" /\ k.status = status
      /\ ~ k.alarm /\ ~ k.meta /\ ~ k.ack
  BY <1>1, <1>2 DEF Object
<1>4. d # "CH"
  BY DEF Dispatchers
<1>. QED  BY <1>3, <1>4 DEF Fresh, k

\* The caller has accepted the application, and its dispatcher has no hand yet.
LEMMA CallerAccepted ==
  ASSUME NEW x, Sound(x), StateOf(x, "CD") = "queued"
  PROVE  LET y == AsVisitor(Made([x EXCEPT !.links["app"] = Accept(@)], "CD", NewDispatcher("connected")), "CD")
         IN  /\ Sound(y) /\ y.objects["CD"].life = "live" /\ y.objects["CD"].hands = "none"
             /\ y.objects["CH"].life = "none"
             /\ Others(x, y, "CD") /\ Fresh(y.objects["CD"], "CD")
             /\ y.links["app"] = Accept(x.links["app"])
             /\ \A l \in LinkNames : l # "app" => y.links[l] = x.links[l]
<1>. DEFINE k == NewDispatcher("connected")
            m == Accept(x.links["app"])
            x1 == SetLink(x, "app", m)
            x2 == SetObject(x1, "CD", k)
            y == AsVisitor(x2, "CD")
<1>1. /\ Steady(x) /\ Base(x) /\ x \in Proxy /\ "app" \in LinkNames /\ Link("CD") = "app"
      /\ "CD" \in Objects /\ "CD" \in Dispatchers /\ x.links["app"] \in Wire
  BY Names, ProxyFields DEF Sound, Steady, Base, LinkNames, Dispatchers
<1>2. m \in Wire
  BY <1>1, OtherLinkCalls
<1>3. k \in Object /\ Fresh(k, "CD") /\ k.life = "live" /\ k.hands = "none"
  BY <1>1, NewDispatcherFacts
<1>4. AsVisitor(Made([x EXCEPT !.links["app"] = Accept(@)], "CD", k), "CD") = y
  BY DEF Made, SetLink, SetObject
<1>. HIDE DEF k
<1>5. x1 \in Proxy /\ x1.objects = x.objects /\ x1.hosts = x.hosts
  <2>. HIDE DEF m
  <2>. QED  BY <1>1, <1>2, LinkSet
<1>5a. x1.links["app"] = m /\ \A l \in LinkNames : l # "app" => x1.links[l] = x.links[l]
  <2>. HIDE DEF m
  <2>. QED  BY <1>1, <1>2, LinkSet
<1>6. /\ x2 \in Proxy /\ x2.links = x1.links /\ x2.hosts = x.hosts
      /\ x2.objects = SetObject(x, "CD", k).objects
  <2>1. SetObject(x, "CD", k).objects = [x.objects EXCEPT !["CD"] = k]
    BY <1>1, <1>3, SetFacts
  <2>. HIDE DEF x1
  <2>2. x2 \in Proxy /\ x2.links = x1.links /\ x2.hosts = x1.hosts /\ x2.objects = [x1.objects EXCEPT !["CD"] = k]
    BY <1>1, <1>3, <1>5, SetFacts
  <2>. QED  BY <1>5, <2>1, <2>2
<1>7. y \in Proxy /\ y.links = x2.links /\ y.objects = x2.objects /\ Visiting(x, y, "CD")
  <2>. HIDE DEF x2
  <2>. QED  BY <1>1, <1>6, AsVisitorFacts
<1>. HIDE DEF x2, y
<1>8. /\ x.objects["CD"].life = "none" /\ Born(x, y, "CD") /\ y.objects["CD"] = k
      /\ NoMore(x.links["relay"], y.links["relay"])
  <2>1. y.links = SetLink(x, Link("CD"), Accept(x.links[Link("CD")])).links
    BY <1>1, <1>6, <1>7
  <2>. HIDE DEF x1
  <2>. QED  BY <1>1, <1>3, <1>6, <1>7, <2>1, AcceptBorn
<1>9. Steady(y)
  BY <1>1, <1>3, <1>8, BirthSteady
<1>10. \A t \in Objects : t # "CD" => y.objects[t] = x.objects[t]
  BY <1>8 DEF Born, Others
<1>11. x.objects["CH"].life = "none"
  BY <1>1, <1>8 DEF Base, InTurn
<1>12. Pair(y, "CH")
  BY <1>3, <1>8, <1>10, <1>11, Names DEF Pair, Fresh
<1>13. Pair(y, "SH") /\ Reaching(y)
  BY <1>10, Names DEF Pair, Reaching, Sound, Hands
<1>14. Sound(y)
  BY <1>9, <1>12, <1>13 DEF Sound, Hands
<1>15. y.objects["CH"].life = "none"
  BY <1>10, <1>11, Names
<1>16. Others(x, y, "CD") /\ Fresh(y.objects["CD"], "CD")
  BY <1>3, <1>8 DEF Born
<1>17. y.links["app"] = m /\ \A l \in LinkNames : l # "app" => y.links[l] = x.links[l]
  BY <1>6, <1>7, <1>5a
<1>. QED  BY <1>3, <1>4, <1>8, <1>14, <1>15, <1>16, <1>17 DEF k

\* The callee accepts and makes a hand.
LEMMA CreateCalleeSound ==
  ASSUME NEW x, Sound(x), StateOf(x, "SH") = "queued"
  PROVE  LET y == CreateCallee(x)
         IN  /\ Sound(y) /\ Others(x, y, "SH") /\ Fresh(y.objects["SH"], "SH")
             /\ y.links["relay"] = Accept(x.links["relay"])
             /\ \A l \in LinkNames : l # "relay" => y.links[l] = x.links[l]
<1>. DEFINE k == [NewHand EXCEPT !.status = "connected"]
            m == Accept(x.links["relay"])
            x1 == SetLink(x, "relay", m)
            y == CreateCallee(x)
<1>1. /\ Steady(x) /\ Base(x) /\ x \in Proxy /\ "relay" \in LinkNames /\ Link("SH") = "relay"
      /\ "SH" \in Objects /\ "SH" \notin Dispatchers /\ x.links["relay"] \in Wire
  BY Names, ProxyFields DEF Sound, Steady, Base, LinkNames, Dispatchers
<1>2. m \in Wire
  BY <1>1, OtherLinkCalls
<1>3. k \in Object /\ Fresh(k, "SH") /\ k.life = "live" /\ ~ k.dispatcher
  <2>1. k = [NewHand EXCEPT !.status = "connected"]
    OBVIOUS
  <2>2. NewHand \in Object /\ NewHand.wb = <<>> /\ NewHand.life = "live"
        /\ ~ NewHand.dispatcher /\ ~ NewHand.alarm /\ ~ NewHand.meta /\ ~ NewHand.ack
    BY NewHandRecord
  <2>. HIDE DEF k
  <2>3. /\ k \in Object /\ k.wb = <<>> /\ k.life = "live"
        /\ ~ k.dispatcher /\ ~ k.alarm /\ ~ k.meta /\ ~ k.ack
    BY <2>1, <2>2 DEF Object
  <2>. QED  BY <2>3 DEF Fresh
<1>4. y = SetObject(x1, "SH", k)
  BY DEF CreateCallee, Made, SetLink, SetObject
<1>. HIDE DEF k, y
<1>5. x1 \in Proxy /\ x1.objects = x.objects /\ x1.hosts = x.hosts
  <2>. HIDE DEF m
  <2>. QED  BY <1>1, <1>2, LinkSet
<1>5a. x1.links["relay"] = m /\ \A l \in LinkNames : l # "relay" => x1.links[l] = x.links[l]
  <2>. HIDE DEF m
  <2>. QED  BY <1>1, <1>2, LinkSet
<1>6. /\ y \in Proxy /\ y.links = x1.links /\ y.hosts = x.hosts
      /\ y.objects = SetObject(x, "SH", k).objects
  <2>1. SetObject(x, "SH", k).objects = [x.objects EXCEPT !["SH"] = k]
    BY <1>1, <1>3, SetFacts
  <2>. HIDE DEF x1
  <2>2. y \in Proxy /\ y.links = x1.links /\ y.hosts = x1.hosts /\ y.objects = [x1.objects EXCEPT !["SH"] = k]
    BY <1>1, <1>3, <1>4, <1>5, SetFacts
  <2>. QED  BY <1>5, <2>1, <2>2
<1>7. Visiting(x, y, "SH")
  BY <1>1, <1>6 DEF Visiting
<1>8. /\ x.objects["SH"].life = "none" /\ Born(x, y, "SH") /\ y.objects["SH"] = k
      /\ NoMore(x.links["relay"], y.links["relay"])
  <2>1. y.links = SetLink(x, Link("SH"), Accept(x.links[Link("SH")])).links
    BY <1>1, <1>6
  <2>. HIDE DEF x1
  <2>. QED  BY <1>1, <1>3, <1>6, <1>7, <2>1, AcceptBorn
<1>9. Steady(y)
  BY <1>1, <1>3, <1>8, BirthSteady
<1>10. \A t \in Objects : t # "SH" => y.objects[t] = x.objects[t]
  BY <1>8 DEF Born, Others
<1>11. x.objects["SD"].life = "none"
  BY <1>1, <1>8 DEF Base, InTurn, Hands
<1>12. Pair(y, "SH") /\ Reaching(y)
  BY <1>3, <1>8, <1>10, <1>11, Names DEF Pair, Fresh, Reaching
<1>13. Pair(y, "CH")
  BY <1>10, Names DEF Pair, Sound, Hands
<1>14. Sound(y)
  BY <1>9, <1>12, <1>13 DEF Sound, Hands
<1>15. Others(x, y, "SH") /\ Fresh(y.objects["SH"], "SH")
  BY <1>3, <1>8 DEF Born
<1>16. y.links["relay"] = m /\ \A l \in LinkNames : l # "relay" => y.links[l] = x.links[l]
  BY <1>6, <1>5a
<1>. QED  BY <1>14, <1>15, <1>16 DEF y

\* The caller's hand connects, or its dispatcher closes.
LEMMA CreateSingleConnectionSound ==
  ASSUME NEW x, Sound(x), x.objects["CD"].life = "live", x.objects["CD"].hands = "none",
         x.objects["CH"].life = "none", NEW y \in CreateSingleConnection(x)
  PROVE  Sound(y)
<1>. DEFINE k == [WriteMeta(NewHand) EXCEPT !.dispatcher = TRUE]
            z == SetObject(x, "CH", k)
            f == FailAtOnce(z, "CH")
            c == [z EXCEPT !.links[Link("CH")] = Connecting]
            j == [c.objects["CD"] EXCEPT !.hands = "wait"]
            made(u) == IF HasSocket(u, "CH") THEN [u EXCEPT !.objects["CD"].hands = "wait"]
                       ELSE DispatcherConnClose(u, "CD", "conn_failed")
<1>1. /\ Steady(x) /\ Base(x) /\ x \in Proxy /\ "CH" \in Objects /\ "CD" \in Objects /\ "CD" \in Dispatchers
      /\ "CH" \notin Dispatchers /\ Link("CH") = "relay" /\ "relay" \in LinkNames
      /\ Pair(x, "SH") /\ Reaching(x)
  BY Names DEF Sound, Steady, Base, Dispatchers, LinkNames, Hands
<1>2. k \in Object /\ Fresh(k, "CH") /\ k.life = "live" /\ k.dispatcher
  <2>1. <<Meta>> \in Seq(Int) /\ Len(<<Meta>>) = 1
    BY DEF Meta
  <2>. DEFINE plain == NewHand
              w == WriteMeta(plain)
              wb == <<Meta>>
  <2>2. plain \in Object /\ plain.life = "live" /\ ~ plain.alarm /\ ~ plain.ack
    BY NewHandRecord
  <2>3. w = [plain EXCEPT !.wb = wb, !.meta = TRUE] /\ k = [w EXCEPT !.dispatcher = TRUE]
    BY DEF WriteMeta
  <2>. HIDE DEF plain, w, k, wb
  <2>4. w \in Object /\ w.life = "live" /\ ~ w.alarm /\ ~ w.ack /\ w.wb = wb /\ w.meta
    BY <2>1, <2>2, <2>3 DEF Object, wb
  <2>5. k \in Object /\ k.life = "live" /\ ~ k.alarm /\ ~ k.ack /\ k.wb = wb /\ k.meta /\ k.dispatcher
    BY <2>3, <2>4 DEF Object
  <2>. QED  BY <2>1, <2>5 DEF Fresh, wb
<1>. HIDE DEF k
<1>3. /\ z \in Proxy /\ z.links = x.links /\ z.hosts = x.hosts /\ z.objects["CH"] = k
      /\ \A t \in Objects : t # "CH" => z.objects[t] = x.objects[t]
  BY <1>1, <1>2, ObjectSet
<1>4. y = DispatcherConnClose(x, "CD", "conn_failed") \/ y = made(f) \/ y = made(c)
  BY DEF CreateSingleConnection, Made, AsynConnect, SetObject, k
<1>. HIDE DEF z
<1>5. Others(x, z, "CH") /\ Visiting(x, z, "CH") /\ z.objects["CH"].life = "live" /\ x.links["relay"] \in Wire
  BY <1>1, <1>2, <1>3, ProxyFields DEF Others, Visiting
<1>6. CASE y = DispatcherConnClose(x, "CD", "conn_failed")
  BY <1>1, <1>6, DispatcherConnCloseSound
<1>7. CASE y = made(f)
  <2>1. /\ Born(x, f, "CH") /\ Fallen(k, f.objects["CH"]) /\ ~ HasSocket(f, "CH")
        /\ \A e \in Ends : f.links["relay"][e].in = x.links["relay"][e].in
    BY <1>1, <1>3, <1>5, FailBorn
  <2>. HIDE DEF f
  <2>2. y = DispatcherConnClose(f, "CD", "conn_failed")
    BY <1>7, <2>1
  <2>3. Fresh(f.objects["CH"], "CH") /\ NoMore(x.links["relay"], f.links["relay"])
    BY <1>2, <2>1 DEF Fresh, Fallen, NoMore
  <2>4. Steady(f)
    BY <1>1, <2>1, <2>3, BirthSteady
  <2>5. \A t \in Objects : t # "CH" => f.objects[t] = x.objects[t]
    BY <2>1 DEF Born, Others
  <2>6. Pair(f, "CH")
    BY <2>1, <2>3, <2>5, Names DEF Pair, Fresh, Fallen
  <2>7. Pair(f, "SH") /\ Reaching(f)
    BY <1>1, <2>5, Names DEF Pair, Reaching
  <2>8. Sound(f) /\ f.objects["CD"].hands = "none"
    BY <1>1, <2>4, <2>5, <2>6, <2>7 DEF Sound, Hands
  <2>. QED  BY <1>1, <2>2, <2>8, DispatcherConnCloseSound
<1>8. CASE y = made(c)
  <2>1. /\ Born(x, c, "CH") /\ c.objects["CH"] = k /\ HasSocket(c, "CH")
        /\ c.links["relay"] = Connecting
    BY <1>1, <1>3, <1>5, ConnectBorn
  <2>. HIDE DEF c
  <2>2. y = SetObject(c, "CD", j)
    BY <1>8, <2>1 DEF SetObject
  <2>3. Steady(c)
    <3>1. NoMore(x.links["relay"], c.links["relay"])
      BY <1>5, <2>1, OtherNoMore
    <3>. QED  BY <1>1, <1>2, <2>1, <3>1, BirthSteady
  <2>4. \A t \in Objects : t # "CH" => c.objects[t] = x.objects[t]
    BY <2>1 DEF Born, Others
  <2>5. Mild(c.objects["CD"], j) /\ j.hands = "wait" /\ j.life = "live"
    <3>1. c.objects["CD"] \in Object /\ c.objects["CD"].life = "live"
      BY <1>1, <2>4, ProxyFields
    <3>. QED  BY <3>1 DEF Mild, Object
  <2>. HIDE DEF j
  <2>6. /\ Steady(y) /\ y.objects["CD"] = j /\ \A t \in Objects : t # "CD" => y.objects[t] = c.objects[t]
    BY <1>1, <2>2, <2>3, <2>5, MildSteady
  <2>7. y.objects["CH"] = k /\ y.objects["SH"] = x.objects["SH"] /\ y.objects["SD"] = x.objects["SD"]
    BY <2>1, <2>4, <2>6, Names
  <2>8. Pair(y, "CH")
    BY <1>2, <2>5, <2>6, <2>7, Names DEF Pair
  <2>9. Pair(y, "SH") /\ Reaching(y)
    BY <1>1, <2>7, Names DEF Pair, Reaching
  <2>. QED  BY <2>6, <2>8, <2>9 DEF Sound, Hands
<1>. QED  BY <1>4, <1>6, <1>7, <1>8

\* The caller accepts and makes a dispatcher, and its hand unless it cannot connect.
LEMMA CreateCallerSound ==
  ASSUME NEW x, Sound(x), StateOf(x, "CD") = "queued", NEW y \in CreateCaller(x)
  PROVE  Sound(y)
<1>. DEFINE a == AsVisitor(Made([x EXCEPT !.links["app"] = Accept(@)], "CD", NewDispatcher("connected")), "CD")
<1>1. Sound(a) /\ a.objects["CD"].life = "live" /\ a.objects["CD"].hands = "none" /\ a.objects["CH"].life = "none"
  BY CallerAccepted
<1>2. y \in CreateSingleConnection(a)
  BY DEF CreateCaller, NewDispatcher
<1>. HIDE DEF a
<1>. QED  BY <1>1, <1>2, CreateSingleConnectionSound

\* The answer, once the origin server is not waited for any more.
LEMMA SendMetaAckSound ==
  ASSUME NEW x, Sound(x), NEW answer \in Int, x.objects["SH"].meta,
         x.objects["SD"].life = "live" => x.objects["SD"].status # "connecting"
  PROVE  Sound(SendMetaAck(x, answer))
<1>. DEFINE y == SendMetaAck(x, answer)
<1>1. Steady(x) /\ Pair(x, "SH") /\ Pair(x, "CH")
  BY DEF Sound, Hands
<1>2. Steady(y) /\ Others(x, y, "SH") /\ OnlyAcked(x.objects["SH"], y.objects["SH"])
  BY <1>1, SendMetaAckSteady
<1>. HIDE DEF y
<1>3. y.objects["SD"] = x.objects["SD"] /\ y.objects["CH"] = x.objects["CH"] /\ y.objects["CD"] = x.objects["CD"]
  BY <1>2, Names DEF Others
<1>4. Pair(y, "SH") /\ Pair(y, "CH")
  BY <1>1, <1>2, <1>3, Names DEF Pair, OnlyAcked
<1>5. Reaching(y)
  BY <1>3 DEF Reaching
<1>. QED  BY <1>2, <1>4, <1>5 DEF Sound, Hands, y

\* The dispatcher of the callee is made, and its hand points to it.
LEMMA CalleeParseMetaSound ==
  ASSUME NEW x, Sound(x), x.objects["SH"].life = "live", ~ x.objects["SH"].meta, Heading(x) = 0,
         NEW y \in CalleeParseMeta(x)
  PROVE  Sound(y)
<1>. DEFINE j == [x.objects["SH"] EXCEPT !.meta = TRUE]
            p == SetObject(x, "SH", j)
            i == [p.objects["SH"] EXCEPT !.dispatcher = TRUE]
            q == SetObject(p, "SH", i)
            k == NewDispatcher("connecting")
            z == AsVisitor(SetObject(q, "SD", k), "SD")
            f == FailAtOnce(z, "SD")
            c == [z EXCEPT !.links[Link("SD")] = Connecting]
            made(u) == IF HasSocket(u, "SD") THEN RegisterHand(u, "SD") ELSE CalleeFails(u)
<1>1. /\ Steady(x) /\ Base(x) /\ Quiet(x) /\ x \in Proxy /\ "SH" \in Objects /\ "SD" \in Objects /\ "SD" \in Dispatchers
      /\ Pair(x, "SH") /\ Pair(x, "CH") /\ x.objects["SH"] \in Object
  BY Names, ProxyFields DEF Sound, Steady, Base, Dispatchers, Hands
<1>2. x.objects["SD"].life = "none" /\ ~ x.objects["SH"].ack
  BY <1>1 DEF Base, InTurn, Quiet
<1>3. y = CalleeFails(p) \/ y = made(f) \/ y = made(c)
  <2>1. p = [x EXCEPT !.objects["SH"].meta = TRUE]
    BY DEF SetObject
  <2>. HIDE DEF p
  <2>2. z = AsVisitor(Made([p EXCEPT !.objects["SH"].dispatcher = TRUE], "SD",
                           [NoObject EXCEPT !.life = "live", !.status = "connecting"]), "SD")
    BY DEF SetObject, Made, NewDispatcher
  <2>. HIDE DEF z
  <2>3. y \in {CalleeFails(p)} \cup {made(u) : u \in AsynConnect(z, "SD")}
    BY <2>1, <2>2 DEF CalleeParseMeta, CalleeFails
  <2>. QED  BY <2>3 DEF AsynConnect
<1>4. /\ j \in Object /\ j.life = "live" /\ j.meta /\ ~ j.ack /\ j.wb = x.objects["SH"].wb
      /\ j.alarm = x.objects["SH"].alarm /\ j.dispatcher = x.objects["SH"].dispatcher
  BY <1>1, <1>2 DEF Object
<1>. HIDE DEF j
<1>5. /\ Base(p) /\ p.links = x.links /\ p.hosts = x.hosts /\ p.objects["SH"] = j
      /\ \A t \in Objects : t # "SH" => p.objects[t] = x.objects[t]
  <2>1. j \in Object /\ j.life = x.objects["SH"].life /\ j.meta /\ j.life = "live"
    BY <1>4
  <2>. QED  BY <1>1, <2>1, ObjectBase
<1>. HIDE DEF p
<1>6. p.objects["SD"] = x.objects["SD"] /\ p.objects["CH"] = x.objects["CH"] /\ p.objects["CD"] = x.objects["CD"]
  BY <1>5, Names
<1>7. Quiet(p)
  <2>1. /\ ~ x.objects["CH"].ack => ~ x.objects["CD"].alarm
        /\ ~ x.objects["CH"].ack /\ x.links["relay"]["near"].in = <<>>
        /\ \A o \in {"SH", "SD"} : x.objects[o].wb = <<>> /\ ~ x.objects[o].alarm
    BY <1>1, <1>2 DEF Quiet
  <2>2. Heading(p) = 0
    BY <1>5, <1>6 DEF Heading
  <2>. QED  BY <1>4, <1>5, <1>6, <2>1, <2>2 DEF Quiet
<1>8. Pair(p, "SH") /\ Pair(p, "CH") /\ Reaching(p) /\ Steady(p) /\ Sound(p)
  <2>1. Pair(p, "SH") /\ Pair(p, "CH") /\ Reaching(p)
    BY <1>1, <1>2, <1>4, <1>5, <1>6, Names DEF Pair, Reaching
  <2>. QED  BY <1>5, <1>7, <2>1 DEF Sound, Steady, Hands
<1>9. CASE y = CalleeFails(p)
  <2>. DEFINE w == SendMetaAck(p, DstFailed)
  <2>1. DstFailed \in Int
    BY DEF DstFailed
  <2>2. Sound(w) /\ w.objects["SD"] = p.objects["SD"]
    <3>1. p.objects["SH"].meta /\ p.objects["SD"].life # "live"
      BY <1>2, <1>4, <1>5, <1>6
    <3>2. Others(p, w, "SH")
      BY <1>8, <2>1, <3>1, SendMetaAckSteady
    <3>. QED  BY <1>1, <1>8, <2>1, <3>1, <3>2, SendMetaAckSound DEF Others
  <2>. HIDE DEF w
  <2>3. w.objects["SD"].life # "live" /\ Mate("SH") = "SD" /\ "SH" \in Hands
    BY <1>2, <1>6, <2>2, Names DEF Hands
  <2>4. Sound(HandConnClose(w, "SH", "dst_failed"))
    BY <2>2, <2>3, HandConnCloseSound
  <2>. QED  BY <1>9, <2>4 DEF CalleeFails, w
<1>10. /\ i \in Object /\ i.life = "live" /\ i.meta /\ ~ i.ack /\ i.dispatcher /\ Mild(p.objects["SH"], i)
       /\ ~ i.alarm
  <2>1. p.objects["SH"] \in Object /\ p.objects["SH"].life = "live" /\ p.objects["SH"].meta /\ ~ p.objects["SH"].ack
        /\ ~ p.objects["SH"].alarm
    BY <1>1, <1>2, <1>4, <1>5 DEF Quiet
  <2>. QED  BY <2>1 DEF Object, Mild
<1>. HIDE DEF i
<1>11. /\ Steady(q) /\ q.links = p.links /\ q.hosts = p.hosts /\ q.objects["SH"] = i
       /\ \A t \in Objects : t # "SH" => q.objects[t] = p.objects[t]
  BY <1>1, <1>8, <1>10, MildSteady
<1>. HIDE DEF q
<1>12. q.objects["SD"] = x.objects["SD"] /\ q.objects["CH"] = x.objects["CH"] /\ q.objects["CD"] = x.objects["CD"]
       /\ Base(q) /\ q \in Proxy
  BY <1>1, <1>6, <1>11 , Names DEF Steady, Base
<1>13. k \in Object /\ Fresh(k, "SD") /\ k.life = "live" /\ k.status = "connecting"
  BY <1>1, NewDispatcherFacts
<1>. HIDE DEF k
<1>14. /\ z \in Proxy /\ z.links = q.links /\ z.objects["SD"] = k /\ Others(q, z, "SD") /\ Visiting(q, z, "SD")
  <2>. DEFINE v == SetObject(q, "SD", k)
  <2>1. /\ v \in Proxy /\ v.links = q.links /\ v.hosts = q.hosts /\ v.objects["SD"] = k
        /\ \A t \in Objects : t # "SD" => v.objects[t] = q.objects[t]
    BY <1>1, <1>12, <1>13, ObjectSet
  <2>. HIDE DEF v
  <2>2. LET u == AsVisitor(v, "SD")
        IN  u \in Proxy /\ u.links = v.links /\ u.objects = v.objects /\ Visiting(q, u, "SD")
    BY <1>1, <1>12, <2>1, AsVisitorFacts
  <2>3. z = AsVisitor(v, "SD")
    BY DEF v
  <2>. HIDE DEF z
  <2>. QED  BY <2>1, <2>2, <2>3 DEF Others
<1>. HIDE DEF z
<1>15. "relay" \in LinkNames /\ "relay" # Link("SD") /\ Mate("SH") = "SD" /\ Mate("CH") = "CD" /\ Hands = {"CH", "SH"}
  BY Names DEF LinkNames, Hands
<1>16. CASE y = made(f)
  <2>. DEFINE w == SendMetaAck(f, DstFailed)
  <2>1. /\ Born(q, f, "SD") /\ Fallen(k, f.objects["SD"]) /\ ~ HasSocket(f, "SD")
        /\ f.links["relay"] = q.links["relay"]
    BY <1>2, <1>12, <1>13, <1>14, <1>15, FailBorn
  <2>. HIDE DEF f
  <2>2. y = HandConnClose(w, "SH", "dst_failed")
    BY <1>16, <2>1 DEF CalleeFails
  <2>3. Fresh(f.objects["SD"], "SD") /\ NoMore(q.links["relay"], f.links["relay"]) /\ f.objects["SD"].life = "destroyed"
    BY <1>13, <2>1 DEF Fresh, Fallen, NoMore
  <2>4. q.objects["SH"].meta /\ q.objects["SD"].life = "none"
    BY <1>2, <1>10, <1>11, <1>12
  <2>5. Steady(f)
    BY <1>1, <1>11, <2>1, <2>3, <2>4, BirthSteady
  <2>6. f.objects["SH"] = i /\ f.objects["CH"] = x.objects["CH"] /\ f.objects["CD"] = x.objects["CD"]
    BY <1>11, <1>12, <2>1, Names DEF Born, Others
  <2>7. Steady(w) /\ Others(f, w, "SH") /\ OnlyAcked(i, w.objects["SH"])
    <3>1. DstFailed \in Int /\ f.objects["SH"].meta
      BY <1>10, <2>6 DEF DstFailed
    <3>. QED  BY <2>5, <2>6, <3>1, SendMetaAckSteady
  <2>. HIDE DEF w
  <2>8. HandGone(w, y, "SH", "dst_failed")
    <3>1. "SH" \in Hands /\ "dst_failed" \in Ending \cup {"dst_failed"}
      BY DEF Hands
    <3>. QED  BY <2>2, <2>7, <3>1, HandConnCloseDoes
  <2>9. y.objects["CH"] = x.objects["CH"] /\ y.objects["CD"] = x.objects["CD"] /\ y.objects["SD"].life = "destroyed"
        /\ y.objects["SH"].dispatcher = FALSE
    <3>1. y.objects["CH"] = w.objects["CH"] /\ y.objects["CD"] = w.objects["CD"] /\ y.objects["SD"] = w.objects["SD"]
      BY <1>15, <2>8, Names DEF HandGone, Ending
    <3>2. w.objects["CH"] = f.objects["CH"] /\ w.objects["CD"] = f.objects["CD"] /\ w.objects["SD"] = f.objects["SD"]
      BY <2>7, Names DEF Others
    <3>. QED  BY <2>3, <2>6, <2>8, <3>1, <3>2 DEF HandGone
  <2>10. Pair(y, "SH") /\ Pair(y, "CH") /\ Reaching(y)
    BY <1>1, <1>15, <2>9 DEF Pair, Reaching
  <2>. QED  BY <1>15, <2>8, <2>10 DEF Sound, HandGone
<1>17. CASE y = made(c)
  <2>. DEFINE w == [c.objects["SD"] EXCEPT !.hands = "wait"]
  <2>1. /\ Born(q, c, "SD") /\ c.objects["SD"] = k /\ HasSocket(c, "SD")
        /\ c.links["relay"] = q.links["relay"]
    BY <1>2, <1>12, <1>13, <1>14, <1>15, ConnectBorn
  <2>. HIDE DEF c
  <2>2. y = SetObject(c, "SD", w)
    BY <1>13, <1>17, <2>1 DEF SetObject, RegisterHand
  <2>3. NoMore(q.links["relay"], c.links["relay"])
    BY <2>1 DEF NoMore
  <2>4. q.objects["SH"].meta /\ q.objects["SD"].life = "none"
    BY <1>2, <1>10, <1>11, <1>12
  <2>5. Steady(c)
    BY <1>1, <1>11, <1>13, <2>1, <2>3, <2>4, BirthSteady
  <2>6. c.objects["SH"] = i /\ c.objects["CH"] = x.objects["CH"] /\ c.objects["CD"] = x.objects["CD"]
    BY <1>11, <1>12, <2>1, Names DEF Born, Others
  <2>7. Mild(c.objects["SD"], w) /\ w.hands = "wait" /\ w.life = "live"
    BY <1>13, <2>1 DEF Mild, Object
  <2>. HIDE DEF w
  <2>8. Steady(y) /\ y.objects["SD"] = w /\ \A t \in Objects : t # "SD" => y.objects[t] = c.objects[t]
    BY <1>1, <2>2, <2>5, <2>7, MildSteady
  <2>9. y.objects["SH"] = i /\ y.objects["CH"] = x.objects["CH"] /\ y.objects["CD"] = x.objects["CD"]
    BY <2>6, <2>8, Names
  <2>10. Pair(y, "SH") /\ Pair(y, "CH") /\ Reaching(y)
    BY <1>1, <1>10, <1>15, <2>7, <2>8, <2>9 DEF Pair, Reaching
  <2>. QED  BY <1>15, <2>8, <2>10 DEF Sound
<1>. QED  BY <1>3, <1>9, <1>16, <1>17

-------------------------------------------------------------------------------
(* A hand is served. *)

\* A hand reads an error or the end, or nothing.
LEMMA ReadOnSound ==
  ASSUME NEW x, Sound(x), NEW h \in Hands
  PROVE  Sound(ReadOn(x, h))
BY HandConnCloseSound DEF ReadOn, Ending

\* Data are sent or kept.
LEMMA SinkSound ==
  ASSUME NEW x, Sound(x), NEW o \in Objects, x.objects[o].life = "live",
         x.objects["SH"].ack \/ o = "CD", NEW data \in Seq(Int)
  PROVE  Sound(Sink(x, o, data))
BY SinkSteady, MovesSound DEF Sound

\* A hand hands data to its dispatcher, or the process ends.
LEMMA ToDispatcherSound ==
  ASSUME NEW x, Sound(x), NEW h \in Hands, x.objects[h].life = "live", x.objects["SH"].ack,
         NEW data \in Seq(Int)
  PROVE  Sound(ToDispatcher(x, h, data))
<1>1. Mate(h) \in Objects /\ Host(h) \in Hosts /\ Pair(x, h)
  BY Mates DEF Sound, Objects
<1>2. CASE x.objects[h].dispatcher
  BY <1>1, <1>2, SinkSound DEF ToDispatcher, Pair
<1>3. CASE ~ x.objects[h].dispatcher
  BY <1>1, <1>3, EndSound DEF ToDispatcher
<1>. QED  BY <1>2, <1>3

\* The caller's hand learns that it was answered.
LEMMA AckedSound ==
  ASSUME NEW x, Sound(x), x.objects["CH"].life = "live", x.objects["SH"].ack
  PROVE  LET y == [x EXCEPT !.objects["CH"].ack = TRUE]
         IN  /\ Sound(y) /\ y.objects["CH"].life = "live" /\ y.objects["CH"].ack
             /\ y.objects["CH"].dispatcher = x.objects["CH"].dispatcher
             /\ \A t \in Objects : t # "CH" => y.objects[t] = x.objects[t]
<1>. DEFINE k == [x.objects["CH"] EXCEPT !.ack = TRUE]
            y == SetObject(x, "CH", k)
<1>1. /\ Base(x) /\ Quiet(x) /\ "CH" \in Objects /\ x.objects["CH"] \in Object
      /\ Pair(x, "CH") /\ Pair(x, "SH") /\ Reaching(x)
  BY Names, PartsOf DEF Sound, Steady, Hands
<1>2. [x EXCEPT !.objects["CH"].ack = TRUE] = y
  BY DEF SetObject
<1>3. /\ k \in Object /\ k.life = "live" /\ k.meta = x.objects["CH"].meta /\ k.ack
      /\ k.dispatcher = x.objects["CH"].dispatcher /\ k.alarm = x.objects["CH"].alarm
  BY <1>1 DEF Object
<1>. HIDE DEF k
<1>4. /\ Base(y) /\ y.links = x.links /\ y.objects["CH"] = k
      /\ \A t \in Objects : t # "CH" => y.objects[t] = x.objects[t]
  BY <1>1, <1>3, ObjectBase
<1>. HIDE DEF y
<1>5. y.objects["SH"] = x.objects["SH"] /\ y.objects["SD"] = x.objects["SD"] /\ y.objects["CD"] = x.objects["CD"]
  BY <1>4, Names
<1>6. Quiet(y)
  BY <1>1, <1>3, <1>4, <1>5 DEF Quiet
<1>7. Pair(y, "CH") /\ Pair(y, "SH") /\ Reaching(y)
  BY <1>1, <1>3, <1>4, <1>5, Names DEF Pair, Reaching
<1>. QED  BY <1>2, <1>3, <1>4, <1>6, <1>7 DEF Sound, Steady, Hands

\* Its dispatcher is served from then on.
LEMMA ServedSound ==
  ASSUME NEW x, Sound(x), x.objects["CH"].life = "live", x.objects["CH"].dispatcher, x.objects["CH"].ack
  PROVE  LET y == DispatcherSignal(x, "CD", "dst_connected")
         IN  Sound(y) /\ y.objects["CD"].life = "live"
<1>. DEFINE k == [x.objects["CD"] EXCEPT !.hands = "ready", !.alarm = TRUE]
            y == SetObject(x, "CD", k)
<1>1. /\ Base(x) /\ Quiet(x) /\ "CD" \in Objects /\ x.objects["CD"] \in Object
      /\ Pair(x, "CH") /\ Pair(x, "SH") /\ Reaching(x)
  BY Names, PartsOf DEF Sound, Steady, Hands
<1>2. DispatcherSignal(x, "CD", "dst_connected") = y
  BY DEF SetObject, DispatcherSignal
<1>3. /\ k \in Object /\ k.life = x.objects["CD"].life /\ k.meta = x.objects["CD"].meta /\ k.ack = x.objects["CD"].ack
      /\ k.hands = "ready"
  BY <1>1 DEF Object
<1>. HIDE DEF k
<1>4. /\ Base(y) /\ y.links = x.links /\ y.objects["CD"] = k
      /\ \A t \in Objects : t # "CD" => y.objects[t] = x.objects[t]
  BY <1>1, <1>3, ObjectBase
<1>. HIDE DEF y
<1>5. y.objects["SH"] = x.objects["SH"] /\ y.objects["SD"] = x.objects["SD"] /\ y.objects["CH"] = x.objects["CH"]
  BY <1>4, Names
<1>6. Quiet(y)
  <2>1. Heading(y) = Heading(x)
    BY <1>4, <1>5 DEF Heading
  <2>. QED  BY <1>1, <1>4, <1>5, <2>1 DEF Quiet
<1>7. x.objects["CD"].life = "live"
  BY <1>1, Names DEF Pair
<1>8. Pair(y, "CH") /\ Pair(y, "SH") /\ Reaching(y)
  BY <1>1, <1>3, <1>4, <1>5, <1>7, Names DEF Pair, Reaching
<1>. QED  BY <1>2, <1>3, <1>4, <1>6, <1>7, <1>8 DEF Sound, Steady, Hands

\* The hand of the caller reads the answer or data.
LEMMA CallerReadsSound ==
  ASSUME NEW x, Sound(x), x.objects["CH"].life = "live", x.objects["SH"].ack,
         NEW data \in Seq(Int), data # <<>>
  PROVE  Sound(CallerReads(x, data))
<1>. DEFINE a == [x EXCEPT !.objects["CH"].ack = TRUE]
            z == DispatcherSignal(a, "CD", "dst_connected")
            y == CallerReads(x, data)
<1>1. "CH" \in Hands /\ "CD" \in Objects /\ Mate("CH") = "CD"
  BY Names DEF Hands
<1>2. CASE x.objects["CH"].ack
  BY <1>1, <1>2, ToDispatcherSound DEF CallerReads
<1>3. CASE ~ x.objects["CH"].ack
  <2>1. /\ Sound(a) /\ a.objects["CH"].life = "live" /\ a.objects["CH"].ack
        /\ \A t \in Objects : t # "CH" => a.objects[t] = x.objects[t]
    BY AckedSound
  <2>2. y = IF Head(data) = DstFailed THEN HandConnClose(a, "CH", "dst_failed")
            ELSE IF ~ a.objects["CH"].dispatcher THEN a
            ELSE IF Tail(data) = <<>> THEN z ELSE Sink(z, "CD", Tail(data))
    <3>. DEFINE then(u) == IF Tail(data) = <<>> THEN u ELSE Sink(u, "CD", Tail(data))
    <3>1. (CHOOSE u \in {then(v) : v \in {z}} : TRUE) = then(z)
      <4>1. \A u \in {then(v) : v \in {z}} : u = then(z)
        OBVIOUS
      <4>2. then(z) \in {then(v) : v \in {z}}
        OBVIOUS
      <4>. QED  BY <4>1, <4>2
    <3>. QED  BY <1>3, <3>1 DEF CallerReads, Then
  <2>. HIDE DEF a, y
  <2>3. a.objects["CD"] = x.objects["CD"] /\ ~ x.objects["CD"].alarm
    BY <1>1, <1>3, <2>1 DEF Sound, Steady, Quiet
  <2>4. CASE y = HandConnClose(a, "CH", "dst_failed")
    BY <1>1, <2>1, <2>3, <2>4, HandConnCloseSound DEF y
  <2>5. CASE y = a
    BY <2>1, <2>5 DEF y
  <2>6. CASE a.objects["CH"].dispatcher /\ y = IF Tail(data) = <<>> THEN z ELSE Sink(z, "CD", Tail(data))
    <3>1. Sound(z) /\ z.objects["CD"].life = "live"
      BY <2>1, <2>6, ServedSound
    <3>2. Tail(data) \in Seq(Int)
      OBVIOUS
    <3>. HIDE DEF z
    <3>. QED  BY <1>1, <2>6, <3>1, <3>2, SinkSound DEF y
  <2>. QED  BY <2>2, <2>4, <2>5, <2>6
<1>. QED  BY <1>2, <1>3

\* Whatever a hand reads, the pairs stay sound.
LEMMA HandReadSound ==
  ASSUME NEW x, Sound(x), NEW h \in Hands, x.objects[h].life = "live", NEW y \in HandRead(x, h)
  PROVE  Sound(y)
<1>. DEFINE l == x.links["relay"]
            data == l[EndOf(h)].in
            m == Consume(l, EndOf(h), Len(data))
            r == SetLink(x, "relay", m)
<1>1. /\ Steady(x) /\ Base(x) /\ Quiet(x) /\ x \in Proxy /\ h \in Objects /\ Link(h) = "relay" /\ "relay" \in LinkNames
      /\ EndOf(h) \in Ends /\ l \in Wire /\ data \in Seq(Int) /\ Len(data) \in Nat
      /\ "CH" \in Objects /\ "SH" \in Objects /\ EndOf("CH") = "near" /\ EndOf("SH") = "far"
  BY Names, Mates, PartsOf DEF Sound, Steady, Objects, LinkNames
<1>2. CASE data = <<>>
  BY <1>2, ReadOnSound DEF HandRead
<1>3. CASE data # <<>>
  <2>1. SameStates(l, m) /\ NoMore(l, m) /\ m[EndOf(h)].in = <<>>
    <3>1. Len(data) \in 0 .. Len(l[EndOf(h)].in)
      BY <1>1
    <3>2. SubSeq(data, Len(data) + 1, Len(data)) = <<>>
      <4>1. Len(SubSeq(data, Len(data) + 1, Len(data))) = 0 /\ SubSeq(data, Len(data) + 1, Len(data)) \in Seq(Int)
        BY <1>1, Split
      <4>. QED  BY <4>1, EmptySeq
    <3>3. m[EndOf(h)].in = <<>>
      <4>1. l[EndOf(h)] \in End
        BY <1>1 DEF Wire
      <4>. HIDE DEF data
      <4>2. l[EndOf(h)].in = data /\ l \in [Ends -> End]
        BY <1>1 DEF data, Wire
      <4>. HIDE DEF l
      <4>. QED  BY <1>1, <3>2, <4>1, <4>2 DEF Consume, End
    <3>. QED  BY <1>1, <3>1, <3>3, LinkData, OtherNoMore
  <2>. HIDE DEF m
  <2>2. Sound(r) /\ r.objects = x.objects /\ r.hosts = x.hosts /\ r.links["relay"] = m
    BY <1>1, <2>1, LinkSound
  <2>3. \E u \in (IF h = "CH" THEN {CallerReads(r, data)} ELSE CalleeReads(r, data)) :
          y = IF Gone(u, h) THEN u ELSE ReadOn(u, h)
    BY <1>3 DEF HandRead, SetLink, m
  <2>. HIDE DEF r
  <2>4. CASE h = "CH"
    <3>1. x.objects["SH"].ack
      BY <1>1, <1>3, <2>4 DEF Quiet
    <3>2. Sound(CallerReads(r, data))
      BY <1>1, <1>3, <2>2, <2>4, <3>1, CallerReadsSound
    <3>. QED  BY <2>3, <2>4, <3>2, ReadOnSound
  <2>5. CASE h = "SH"
    <3>1. ASSUME NEW u \in CalleeReads(r, data)  PROVE  Sound(u)
      <4>1. CASE x.objects["SH"].meta
        <5>1. x.objects["SH"].ack
          <6>1. SUFFICES ASSUME ~ x.objects["SH"].ack  PROVE  FALSE
            OBVIOUS
          <6>2. Heading(x) <= 0
            BY <1>1, <4>1, <6>1 DEF Quiet
          <6>3. Len(x.objects["CH"].wb) \in Nat /\ Len(data) > 0
            <7>1. Len(data) # 0
              BY <1>1, <1>3, EmptySeq
            <7>. QED  BY <1>1, <7>1, HeadingNat
          <6>4. Heading(x) = Len(x.objects["CH"].wb) + Len(data)
            BY <1>1, <2>5 DEF Heading
          <6>. DEFINE n == Len(x.objects["CH"].wb)
                      v == Len(data)
          <6>5. n \in Nat /\ v > 0 /\ n + v <= 0 /\ v \in Nat
            BY <1>1, <6>2, <6>3, <6>4
          <6>. HIDE DEF n, v
          <6>. QED  BY <6>5
        <5>. QED  BY <1>1, <2>2, <2>5, <3>1, <4>1, <5>1, ToDispatcherSound DEF CalleeReads
      <4>2. CASE ~ x.objects["SH"].meta /\ Len(data) > 1
        <5>1. "callee" \in Hosts
          BY DEF Hosts
        <5>. QED  BY <2>2, <3>1, <4>2, <5>1, EndSound DEF CalleeReads
      <4>3. CASE ~ x.objects["SH"].meta /\ ~ Len(data) > 1
        <5>1. Heading(x) <= 1
          <6>1. Heading(x) \in Nat
            BY <1>1, HeadingNat
          <6>2. Heading(x) <= 0 \/ Heading(x) <= 1
            BY <1>1, <4>3 DEF Quiet
          <6>. QED  BY <6>1, <6>2
        <5>. DEFINE n == Len(x.objects["CH"].wb)
                    v == Len(data)
        <5>2. n \in Nat /\ v \in Nat /\ v # 0 /\ Heading(x) = n + v
          BY <1>1, <1>3, <2>5, HeadingNat, EmptySeq DEF Heading
        <5>3. Heading(r) = n + 0
          <6>1. Len(<<>>) = 0
            OBVIOUS
          <6>2. r.links["relay"]["far"].in = <<>> /\ r.objects["CH"].wb = x.objects["CH"].wb
            BY <1>1, <2>1, <2>2, <2>5
          <6>. HIDE DEF n
          <6>3. Heading(r) = Len(r.objects["CH"].wb) + Len(r.links["relay"]["far"].in)
            BY DEF Heading
          <6>. QED  BY <6>1, <6>2, <6>3 DEF n
        <5>. HIDE DEF n, v
        <5>4. Heading(r) = 0
          BY <5>1, <5>2, <5>3
        <5>. QED  BY <2>2, <2>5, <3>1, <4>3, <5>4, CalleeParseMetaSound DEF CalleeReads
      <4>. QED  BY <4>1, <4>2, <4>3
    <3>. QED  BY <2>3, <2>5, <3>1, ReadOnSound
  <2>. QED  BY <2>4, <2>5 DEF Hands
<1>. QED  BY <1>2, <1>3

\* The hand of the caller is connected and flushes the address.
LEMMA HandConnectedSound ==
  ASSUME NEW x, Sound(x)
  PROVE  Sound(HandConnected(x))
<1>. DEFINE k == [x.objects["CH"] EXCEPT !.status = "connected"]
            y == SetObject(x, "CH", k)
<1>1. CASE ~ (HasSocket(x, "CH") /\ x.objects["CH"].status = "connecting")
  BY <1>1 DEF HandConnected
<1>2. CASE HasSocket(x, "CH") /\ x.objects["CH"].status = "connecting"
  <2>1. /\ Steady(x) /\ Base(x) /\ "CH" \in Objects /\ x.objects["CH"] \in Object
        /\ Pair(x, "CH") /\ Pair(x, "SH") /\ Reaching(x)
    BY Names, PartsOf DEF Sound, Steady, Hands
  <2>2. x.objects["CH"].life = "live"
    BY <1>2, <2>1, SocketLive
  <2>3. HandConnected(x) = FlushBuffer(y, "CH")
    BY <1>2 DEF HandConnected, SetObject
  <2>4. /\ Mild(x.objects["CH"], k) /\ k.life = "live" /\ k.dispatcher = x.objects["CH"].dispatcher
        /\ k.alarm = x.objects["CH"].alarm
    BY <2>1, <2>2 DEF Mild, Object
  <2>. HIDE DEF k
  <2>5. Steady(y) /\ y.objects["CH"] = k /\ \A t \in Objects : t # "CH" => y.objects[t] = x.objects[t]
    BY <2>1, <2>4, MildSteady
  <2>. HIDE DEF y
  <2>6. y.objects["SH"] = x.objects["SH"] /\ y.objects["SD"] = x.objects["SD"] /\ y.objects["CD"] = x.objects["CD"]
    BY <2>5, Names
  <2>7. Pair(y, "CH") /\ Pair(y, "SH") /\ Reaching(y)
    BY <2>1, <2>2, <2>4, <2>5, <2>6, Names DEF Pair, Reaching
  <2>8. Sound(y) /\ y.objects["CH"].life = "live"
    BY <2>4, <2>5, <2>7 DEF Sound, Hands
  <2>9. Moves(y, FlushBuffer(y, "CH"), "CH")
    BY <2>1, <2>5, <2>8, FlushSteady
  <2>. QED  BY <2>1, <2>3, <2>8, <2>9, MovesSound
<1>. QED  BY <1>1, <1>2

\* Whatever is reported of a hand is served soundly.
LEMMA HandOnEventSound ==
  ASSUME NEW x, Sound(x), NEW h \in Hands, x.objects[h].life = "live", NEW events,
         NEW y \in HandOnEvent(x, h, events)
  PROVE  Sound(y)
<1>1. CASE "HUP" \in events
  <2>. DEFINE code == IF x.objects[h].status = "connecting" THEN "conn_failed" ELSE "conn_disconn"
  <2>1. y = HandConnClose(x, h, code) /\ code \in Ending
    BY <1>1 DEF HandOnEvent, Ending
  <2>. HIDE DEF code
  <2>. QED  BY <2>1, HandConnCloseSound
<1>2. CASE "HUP" \notin events
  <2>1. PICK u \in (IF "IN" \in events THEN HandRead(x, h) ELSE {x}) :
          y = IF "OUT" \in events /\ ~ Gone(u, h) THEN HandConnected(u) ELSE u
    BY <1>2 DEF HandOnEvent
  <2>2. Sound(u)
    BY <2>1, HandReadSound
  <2>. QED  BY <2>1, <2>2, HandConnectedSound
<1>. QED  BY <1>1, <1>2

-------------------------------------------------------------------------------
(* The dispatcher of the callee reaches the origin server, or does not. *)

\* The origin server is reached.
LEMMA ReachedSound ==
  ASSUME NEW x, Sound(x), x.objects["SD"].life = "live", x.objects["SD"].status = "connecting"
  PROVE  Sound([HandSignal(x, "SH", "dst_connected") EXCEPT
                  !.objects["SD"].status = "connected", !.objects["SD"].hands = "ready",
                  !.objects["SD"].alarm = TRUE])
<1>. DEFINE a == SendMetaAck(x, DstConnected)
            k == [a.objects["SD"] EXCEPT !.status = "connected", !.hands = "ready", !.alarm = TRUE]
            y == SetObject(a, "SD", k)
<1>1. /\ Steady(x) /\ Base(x) /\ "SH" \in Objects /\ "SD" \in Objects /\ x.objects["SD"] \in Object
      /\ Pair(x, "CH") /\ Pair(x, "SH")
  BY Names, PartsOf DEF Sound, Steady, Hands
<1>2. /\ x.objects["SH"].life = "live" /\ x.objects["SH"].dispatcher /\ x.objects["SH"].meta
  BY <1>1 DEF Sound, Reaching, Base, InTurn
<1>3. /\ Steady(a) /\ Others(x, a, "SH") /\ OnlyAcked(x.objects["SH"], a.objects["SH"]) /\ a.objects["SH"].ack
  <2>1. DstConnected \in Int
    BY DEF DstConnected
  <2>. QED  BY <1>1, <1>2, <2>1, SendMetaAckSteady
<1>4. [HandSignal(x, "SH", "dst_connected") EXCEPT
         !.objects["SD"].status = "connected", !.objects["SD"].hands = "ready", !.objects["SD"].alarm = TRUE] = y
  <2>1. HandSignal(x, "SH", "dst_connected") = a
    BY DEF HandSignal
  <2>2. "SD" \in DOMAIN a.objects /\ a.objects["SD"] \in Object /\ a \in Proxy
    BY <1>1, <1>3, ProxyFields DEF Steady, Base
  <2>. HIDE DEF a
  <2>. QED  BY <2>1, <2>2 DEF SetObject, Object, Proxy
<1>. HIDE DEF a
<1>5. a.objects["SD"] = x.objects["SD"] /\ a.objects["CH"] = x.objects["CH"] /\ a.objects["CD"] = x.objects["CD"]
      /\ Base(a) /\ Quiet(a)
  BY <1>3, Names DEF Others, Steady
<1>6. /\ k \in Object /\ k.life = "live" /\ k.meta = a.objects["SD"].meta /\ k.ack = a.objects["SD"].ack
      /\ k.status = "connected" /\ k.hands = "ready"
  BY <1>1, <1>5 DEF Object
<1>. HIDE DEF k
<1>7. /\ Base(y) /\ y.links = a.links /\ y.objects["SD"] = k
      /\ \A t \in Objects : t # "SD" => y.objects[t] = a.objects[t]
  <2>1. k.life = a.objects["SD"].life /\ (a.objects["SD"].meta => k.meta)
    BY <1>5, <1>6
  <2>. QED  BY <1>1, <1>5, <1>6, <2>1, ObjectBase
<1>. HIDE DEF y
<1>8. y.objects["SH"] = a.objects["SH"] /\ y.objects["CH"] = a.objects["CH"] /\ y.objects["CD"] = a.objects["CD"]
  BY <1>7, Names
<1>9. Quiet(y)
  BY <1>3, <1>5, <1>8 DEF Quiet
<1>10. Pair(y, "CH") /\ Pair(y, "SH") /\ Reaching(y)
  <2>1. a.objects["SH"].life = "live" /\ a.objects["SH"].dispatcher
    BY <1>2, <1>3 DEF OnlyAcked
  <2>2. Pair(y, "SH") /\ Reaching(y)
    BY <1>6, <1>7, <1>8, <2>1, Names DEF Pair, Reaching
  <2>3. Pair(y, "CH")
    BY <1>1, <1>5, <1>8, Names DEF Pair
  <2>. QED  BY <2>2, <2>3
<1>. QED  BY <1>4, <1>7, <1>9, <1>10 DEF Sound, Steady, Hands

\* Whatever is reported of a dispatcher that connects is served soundly.
LEMMA DispatcherOnEventSound ==
  ASSUME NEW x, Sound(x), x.objects["SD"].life = "live", x.objects["SD"].status = "connecting", NEW events
  PROVE  Sound(DispatcherOnEvent(x, events))
<1>1. CASE "HUP" \in events
  <2>1. x.objects["SH"].meta /\ "SD" \in Dispatchers
    BY DEF Sound, Steady, Base, InTurn, Dispatchers
  <2>2. Sound(DispatcherConnClose(x, "SD", "dst_failed"))
    BY <2>1, DispatcherConnCloseSound
  <2>. QED  BY <1>1, <2>2 DEF DispatcherOnEvent
<1>2. CASE "HUP" \notin events /\ "OUT" \in events
  BY <1>2, ReachedSound DEF DispatcherOnEvent
<1>3. CASE "HUP" \notin events /\ "OUT" \notin events
  BY <1>3 DEF DispatcherOnEvent
<1>. QED  BY <1>1, <1>2, <1>3

-------------------------------------------------------------------------------
(* The alarms. *)

\* The bandwidth alarm of a hand goes off, of one that closed before too.
LEMMA OutBandwidthAlarmSound ==
  ASSUME NEW x, Sound(x), NEW h \in Hands
  PROVE  Sound(OutBandwidthAlarm(x, h))
<1>. DEFINE f == FlushBuffer(x, h)
            then(u) == IF ~ Gone(u, h) /\ u.objects[h].waitClose /\ u.objects[h].wb = <<>>
                       THEN HandConnClose(u, h, "conn_disconn") ELSE u
<1>1. OutBandwidthAlarm(x, h) = then(f)
  <2>1. (CHOOSE u \in {then(v) : v \in {f}} : TRUE) = then(f)
    <3>1. \A u \in {then(v) : v \in {f}} : u = then(f)
      OBVIOUS
    <3>2. then(f) \in {then(v) : v \in {f}}
      OBVIOUS
    <3>. QED  BY <3>1, <3>2
  <2>. QED  BY <2>1 DEF OutBandwidthAlarm, Then
<1>2. Steady(x) /\ Base(x) /\ h \in Objects /\ Host(h) \in Hosts
  BY Mates DEF Sound, Steady, Objects
<1>3. Sound(f)
  <2>1. CASE x.objects[h].wb = <<>> \/ x.objects[h].life = "live"
    BY <1>2, <2>1, FlushSteady, MovesSound
  <2>2. CASE x.objects[h].wb # <<>> /\ x.objects[h].life # "live"
    <3>1. ~ HasSocket(x, h)
      BY <1>2, <2>2, SocketLive
    <3>. QED  BY <1>2, <2>2, <3>1, EndSound DEF FlushBuffer
  <2>. QED  BY <2>1, <2>2
<1>. HIDE DEF f
<1>4. Sound(then(f))
  BY <1>3, HandConnCloseSound DEF Ending
<1>. QED  BY <1>1, <1>4

\* The dispatcher hands on what it read.
LEMMA HandSinkSound ==
  ASSUME NEW x, Sound(x), NEW h \in Hands, x.objects[h].life = "live", x.objects["SH"].ack,
         NEW data \in Seq(Int)
  PROVE  Sound(HandSink(x, h, data))
<1>. DEFINE y == HandSink(x, h, data)
            k == [x.objects[h] EXCEPT !.alarm = TRUE]
<1>1. /\ Steady(x) /\ Base(x) /\ h \in Objects /\ Mate(h) \in Objects /\ Mate(h) # h /\ x.objects[h] \in Object
      /\ Pair(x, "CH") /\ Pair(x, "SH") /\ Reaching(x)
  BY Mates, PartsOf DEF Sound, Steady, Objects, Hands
<1>2. Steady(y) /\ Others(x, y, h) /\ Alike(k, y.objects[h])
  BY <1>1, HandSinkSteady
<1>. HIDE DEF y
<1>3. /\ y.objects[h].life = "live" /\ y.objects[h].dispatcher = x.objects[h].dispatcher
      /\ y.objects[h].ack = x.objects[h].ack
  BY <1>1, <1>2 DEF Alike, Object
<1>4. \A t \in Objects : t # h => y.objects[t] = x.objects[t]
  BY <1>2 DEF Others
<1>5. Pair(y, h)
  <2>1. Pair(x, h) /\ y.objects[Mate(h)] = x.objects[Mate(h)]
    BY <1>1, <1>4 DEF Hands
  <2>. QED  BY <1>3, <2>1 DEF Pair
<1>6. \A g \in Hands : g # h => Pair(y, g)
  <2>1. \A g \in Hands : g # h => Pair(x, g) /\ g \in Objects /\ Mate(g) \in Objects /\ Mate(g) # h
    BY SoundParts
  <2>. QED  BY <1>4, <2>1, OtherPair
<1>7. Reaching(y)
  <2>1. y.objects["SD"] = x.objects["SD"] /\ "SH" \in Objects
    BY <1>4, Names DEF Hands
  <2>2. y.objects["SH"].life = x.objects["SH"].life /\ y.objects["SH"].dispatcher = x.objects["SH"].dispatcher
        /\ y.objects["SH"].ack = x.objects["SH"].ack
    BY <1>3, <1>4, <2>1
  <2>. QED  BY <1>1, <2>1, <2>2 DEF Reaching
<1>. QED  BY <1>2, <1>5, <1>6, <1>7 DEF Sound, y

\* The socket alarm of a dispatcher goes off.
LEMMA HandleSocketAlarmSound ==
  ASSUME NEW x, Sound(x), NEW d \in Dispatchers, x.objects[d].life = "live", x.objects[d].alarm, NEW b \in Nat
  PROVE  Sound(HandleSocketAlarm(x, d, b))
<1>. DEFINE l == x.links[Link(d)]
            in == l[EndOf(d)].in
            n == Min({b, Len(in)})
            data == SubSeq(in, 1, n)
            m == Consume(l, EndOf(d), Len(data))
            r == SetLink(x, Link(d), m)
            s == IF data = <<>> THEN r ELSE HandSink(r, Mate(d), data)
            y == HandleSocketAlarm(x, d, b)
<1>1. /\ Steady(x) /\ Base(x) /\ Quiet(x) /\ d \in Objects /\ Mate(d) \in Hands /\ Mate(Mate(d)) = d
      /\ Link(d) \in LinkNames /\ Link(d) # "relay" /\ EndOf(d) \in Ends /\ l \in Wire
      /\ in \in Seq(Int) /\ Len(in) \in Nat /\ Pair(x, Mate(d))
  <2>1. d \in Objects /\ Mate(d) \in Hands /\ Mate(Mate(d)) = d /\ Link(d) # "relay"
    BY Names DEF Dispatchers, Hands
  <2>. QED  BY <2>1, PartsOf DEF Sound, Steady
<1>2. CASE x.objects[d].hands # "ready"
  BY <1>2 DEF HandleSocketAlarm
<1>3. CASE x.objects[d].hands = "ready"
  <2>1. x.objects[Mate(d)].life = "live"
    BY <1>1, <1>3 DEF Pair
  <2>2. x.objects["SH"].ack
    BY <1>1, Names DEF Quiet, Dispatchers
  <2>3. n \in 0 .. Len(in)
    <3>. DEFINE v == Len(in)
    <3>1. v \in Nat /\ v \in Int /\ b \in Int
      BY <1>1
    <3>. HIDE DEF v
    <3>2. Min({b, v}) = IF b <= v THEN b ELSE v
      BY <3>1, MinOfTwo
    <3>3. Min({b, v}) \in 0 .. v
      BY <3>1, <3>2
    <3>. QED  BY <3>3 DEF v
  <2>. HIDE DEF n
  <2>4. data \in Seq(Int) /\ Len(data) = n
    BY <1>1, <2>3, Split
  <2>5. SameStates(l, m)
    <3>1. Len(data) \in 0 .. Len(in)
      BY <2>3, <2>4
    <3>. HIDE DEF data
    <3>. QED  BY <1>1, <3>1, LinkData
  <2>6. \/ y = DispatcherConnClose(s, d, "conn_disconn")
        \/ y = s
    BY <1>3 DEF HandleSocketAlarm, SetLink, n
  <2>. HIDE DEF m, data, y
  <2>7. Sound(r) /\ r.objects = x.objects
    BY <1>1, <2>5, LinkSound
  <2>. HIDE DEF r
  <2>8. Sound(s)
    BY <1>1, <2>1, <2>2, <2>4, <2>7, HandSinkSound
  <2>. HIDE DEF s
  <2>9. Sound(DispatcherConnClose(s, d, "conn_disconn"))
    BY <2>8, DispatcherConnCloseSound
  <2>. QED  BY <2>6, <2>8, <2>9 DEF y
<1>. QED  BY <1>2, <1>3

-------------------------------------------------------------------------------
(* Links and hosts by themselves. *)

\* The state of a link changes as the objects at its ends allow.
LEMMA LinkStatesSound ==
  ASSUME NEW x, Sound(x), NEW l \in LinkNames, NEW k \in Wire, Shaped(k),
         l = "relay" => NoMore(x.links[l], k),
         \A o \in Objects : Link(o) = l => Fits(x.links[l][EndOf(o)], k[EndOf(o)]),
         x.links[l]["near"].state = "none" => k["near"].state = "none"
  PROVE  Sound(SetLink(x, l, k))
<1>. DEFINE y == SetLink(x, l, k)
<1>1. /\ Base(x) /\ Quiet(x) /\ x \in Proxy /\ Reaching(x) /\ InTurn(x)
      /\ \A h \in Hands : Pair(x, h)
  BY DEF Sound, Steady, Base
<1>2. /\ y \in Proxy /\ y.objects = x.objects /\ y.hosts = x.hosts
      /\ y.links[l] = k /\ \A m \in LinkNames : m # l => y.links[m] = x.links[m]
  BY <1>1, LinkSet
<1>. HIDE DEF y
<1>3. \A o \in Objects : Own(y, o)
  <2>. SUFFICES ASSUME NEW o \in Objects  PROVE  Own(y, o)
    OBVIOUS
  <2>1. Own(x, o) /\ Link(o) \in LinkNames
    BY <1>1, Mates DEF Base
  <2>2. CASE Link(o) = l
    <3>1. Fits(x.links[l][EndOf(o)], y.links[l][EndOf(o)])
      BY <1>2, <2>2
    <3>. QED  BY <1>2, <2>1, <2>2, <3>1 DEF Own, StateOf, Fits
  <2>3. CASE Link(o) # l
    BY <1>2, <2>1, <2>3 DEF Own, StateOf
  <2>. QED  BY <2>2, <2>3
<1>4. InTurn(y)
  <2>1. ASSUME NEW o \in {"CH", "SD"}, y.objects[o].life = "none"  PROVE  StateOf(y, o) = "none"
    <3>1. StateOf(x, o) = "none" /\ EndOf(o) = "near" /\ Link(o) \in LinkNames
      BY <1>1, <1>2, <2>1, Names DEF InTurn, LinkNames
    <3>. QED  BY <1>2, <3>1 DEF StateOf
  <2>. QED  BY <1>1, <1>2, <2>1 DEF InTurn
<1>5. Base(y)
  BY <1>1, <1>2, <1>3, <1>4 DEF Base
<1>6. Calm(x, y)
  <2>1. NoMore(x.links["relay"], y.links["relay"])
    BY <1>2 DEF NoMore, LinkNames
  <2>. QED  BY <1>2, <2>1 DEF Calm, Marks
<1>7. Quiet(y)
  BY <1>1, <1>6, CalmQuiet
<1>8. Reaching(y) /\ \A h \in Hands : Pair(y, h)
  BY <1>1, <1>2 DEF Reaching, Pair
<1>. QED  BY <1>5, <1>7, <1>8 DEF Sound, Steady, y

\* An end that no object has is closed.
LEMMA PartyClosesSound ==
  ASSUME NEW x, Sound(x), NEW p \in Parties
  PROVE  Sound(SetLink(x, LinkOf(p), Close(x.links[LinkOf(p)], PartyEnd(p))))
<1>. DEFINE l == x.links[LinkOf(p)]
            e == PartyEnd(p)
            k == Close(l, e)
<1>1. /\ LinkOf(p) \in LinkNames /\ LinkOf(p) # "relay" /\ e \in Ends /\ l \in Wire /\ Shaped(l)
      /\ \A o \in Objects : Link(o) = LinkOf(p) => EndOf(o) = Peer(e)
  <2>1. x \in Proxy /\ LinkOf(p) \in LinkNames
    BY DEF LinkOf, LinkNames, Sound, Steady, Base
  <2>. QED  BY <2>1, Names, ProxyFields DEF LinkOf, PartyEnd, Parties, Ends, Peer, Sound, Steady, Base
<1>2. /\ k \in Wire /\ k[e].state = (IF HasFd(l, e) THEN "closed" ELSE l[e].state)
      /\ k[Peer(e)].state = l[Peer(e)].state /\ Peer("near") = "far" /\ Peer("far") = "near"
  BY <1>1, CloseStates DEF Peer
<1>. HIDE DEF k, l, e
<1>3. e \in {"near", "far"} /\ (HasFd(l, e) <=> l[e].state \in {"connecting", "open"})
  BY <1>1 DEF HasFd, Ends
<1>4. Shaped(k) /\ (l["near"].state = "none" => k["near"].state = "none")
  <2>1. CASE e = "near"
    BY <1>1, <1>2, <1>3, <2>1 DEF Shaped
  <2>2. CASE e = "far"
    BY <1>1, <1>2, <1>3, <2>2 DEF Shaped
  <2>. QED  BY <1>3, <2>1, <2>2
<1>5. \A o \in Objects : Link(o) = LinkOf(p) => Fits(l[EndOf(o)], k[EndOf(o)])
  BY <1>1, <1>2 DEF Fits
<1>. QED  BY <1>1, <1>2, <1>4, <1>5, LinkStatesSound DEF k, l, e

\* The origin server accepts.
LEMMA AcceptOriginSound ==
  ASSUME NEW x, Sound(x), x.links["org"]["far"].state = "queued"
  PROVE  Sound(SetLink(x, "org", Accept(x.links["org"])))
<1>. DEFINE l == x.links["org"]
            k == Accept(l)
<1>1. "org" \in LinkNames /\ l \in Wire /\ Shaped(l) /\ \A o \in Objects : Link(o) = "org" => EndOf(o) = "near"
  <2>1. x \in Proxy /\ "org" \in LinkNames
    BY DEF LinkNames, Sound, Steady, Base
  <2>. QED  BY <2>1, Names, ProxyFields DEF Sound, Steady, Base
<1>2. k \in Wire /\ k["far"].state = "open" /\ k["near"] = l["near"]
  BY <1>1, OtherLinkCalls
<1>. HIDE DEF k
<1>3. Shaped(k)
  BY <1>1, <1>2 DEF Shaped
<1>4. \A o \in Objects : Link(o) = "org" => Fits(l[EndOf(o)], k[EndOf(o)])
  BY <1>1, <1>2 DEF Fits
<1>. QED  BY <1>1, <1>2, <1>3, <1>4, LinkStatesSound DEF k

\* A connection is established.
LEMMA EstablishSound ==
  ASSUME NEW x, Sound(x), NEW l \in LinkNames, UnderWay(x.links[l])
  PROVE  Sound(SetLink(x, l, Establish(x.links[l])))
<1>. DEFINE j == x.links[l]
            k == Establish(j)
<1>1. j \in Wire /\ Shaped(j) /\ \A o \in Objects : EndOf(o) \in {"near", "far"}
  <2>1. x \in Proxy
    BY DEF Sound, Steady, Base
  <2>. QED  BY <2>1, Mates, ProxyFields DEF Sound, Steady, Base, Ends
<1>2. j["near"].state = "connecting" /\ j["far"].state = "none"
  BY <1>1 DEF UnderWay, Shaped
<1>3. k \in Wire /\ k["near"].state = "open" /\ k["far"].state = "queued" /\ NoMore(j, k)
  BY <1>1, OtherLinkCalls, OtherNoMore
<1>. HIDE DEF k, j
<1>4. Shaped(k)
  BY <1>3 DEF Shaped
<1>5. \A o \in Objects : Link(o) = l => Fits(j[EndOf(o)], k[EndOf(o)])
  BY <1>1, <1>2, <1>3 DEF Fits
<1>. QED  BY <1>2, <1>3, <1>4, <1>5, LinkStatesSound DEF k, j

\* A host is told to stop.
LEMMA SignalHostSound ==
  ASSUME NEW x, Sound(x), NEW h \in Hosts
  PROVE  Sound([x EXCEPT !.hosts[h] = Stop(@)])
<1>. DEFINE c == Stop(x.hosts[h])
            y == SetHost(x, h, c)
<1>1. Steady(x) /\ Base(x) /\ Quiet(x) /\ x \in Proxy /\ x.hosts[h] \in Context(Objects)
  BY ProxyFields DEF Sound, Steady, Base
<1>2. [x EXCEPT !.hosts[h] = Stop(@)] = y
  BY DEF SetHost
<1>3. c \in Context(Objects) /\ c.tasks = x.hosts[h].tasks /\ c.visitors = x.hosts[h].visitors
  BY <1>1 DEF Stop, Context
<1>. HIDE DEF c
<1>4. /\ y \in Proxy /\ y.links = x.links /\ y.objects = x.objects /\ y.hosts = [x.hosts EXCEPT ![h] = c]
  BY <1>1, <1>3, SetFacts
<1>5. \A g \in Hosts : TasksOf(y.hosts[g]) = TasksOf(x.hosts[g]) /\ y.hosts[g].visitors = x.hosts[g].visitors
  BY <1>1, <1>3, <1>4, ProxyFields DEF TasksOf
<1>. HIDE DEF y
<1>6. Base(y)
  <2>1. \A o \in Objects : Own(y, o)
    BY <1>1, <1>4, <1>5, Mates DEF Own, StateOf, Base
  <2>2. InTurn(y)
    BY <1>1, <1>4 DEF InTurn, StateOf, Base
  <2>. QED  BY <1>1, <1>4, <1>5, <2>1, <2>2 DEF Base
<1>7. Quiet(y) /\ Reaching(y) /\ \A g \in Hands : Pair(y, g)
  BY <1>1, <1>4 DEF Quiet, Heading, Reaching, Pair, Sound
<1>. QED  BY <1>2, <1>6, <1>7 DEF Sound, Steady

\* The objects whose deletion was posted are deleted.
LEMMA RunTasksSound ==
  ASSUME NEW x, Sound(x), NEW h \in Hosts
  PROVE  Sound([x EXCEPT
           !.objects = [o \in Objects |->
                          IF o \in TasksOf(x.hosts[h]) THEN [@[o] EXCEPT !.life = "deleted"] ELSE @[o]],
           !.hosts[h] = ExecuteTask(@)])
<1>. DEFINE t == TasksOf(x.hosts[h])
            c == ExecuteTask(x.hosts[h])
            objects == [o \in Objects |-> IF o \in t THEN [x.objects[o] EXCEPT !.life = "deleted"] ELSE x.objects[o]]
            y == [x EXCEPT !.objects = objects, !.hosts[h] = c]
<1>1. Steady(x) /\ Base(x) /\ Quiet(x) /\ x \in Proxy /\ x.hosts[h] \in Context(Objects) /\ t \subseteq ObjectsOf(h)
  BY ProxyFields DEF Sound, Steady, Base
<1>2. c \in Context(Objects) /\ TasksOf(c) = {} /\ c.visitors = x.hosts[h].visitors
  <2>1. <<>> \in Seq(Objects) /\ DOMAIN <<>> = {}
    OBVIOUS
  <2>2. c \in Context(Objects) /\ c.tasks = <<>> /\ c.visitors = x.hosts[h].visitors
    BY <1>1, <2>1 DEF ExecuteTask, Context
  <2>. QED  BY <2>1, <2>2 DEF TasksOf
<1>3. \A o \in t : x.objects[o].life = "destroyed" /\ o \in Objects /\ Host(o) = h
  BY <1>1 DEF ObjectsOf, Base, Own
<1>4. /\ objects \in [Objects -> Object]
      /\ \A o \in Objects :
           /\ objects[o].life = IF o \in t THEN "deleted" ELSE x.objects[o].life
           /\ o \notin t => objects[o] = x.objects[o]
           /\ objects[o].wb = x.objects[o].wb /\ objects[o].alarm = x.objects[o].alarm
           /\ objects[o].meta = x.objects[o].meta /\ objects[o].ack = x.objects[o].ack
  <2>1. ASSUME NEW o \in Objects
        PROVE  LET k == [x.objects[o] EXCEPT !.life = "deleted"]
               IN  /\ k \in Object /\ k.life = "deleted" /\ k.wb = x.objects[o].wb /\ k.alarm = x.objects[o].alarm
                   /\ k.meta = x.objects[o].meta /\ k.ack = x.objects[o].ack /\ x.objects[o] \in Object
    <3>. DEFINE j == x.objects[o]
    <3>1. j \in Object
      BY <1>1, ProxyFields
    <3>. HIDE DEF j
    <3>2. LET k == [j EXCEPT !.life = "deleted"]
          IN  /\ k \in Object /\ k.life = "deleted" /\ k.wb = j.wb /\ k.alarm = j.alarm
              /\ k.meta = j.meta /\ k.ack = j.ack
      BY <3>1 DEF Object
    <3>. QED  BY <3>1, <3>2 DEF j
  <2>. HIDE DEF t
  <2>. QED  BY <2>1
<1>5. [x EXCEPT
        !.objects = [o \in Objects |->
                       IF o \in TasksOf(x.hosts[h]) THEN [@[o] EXCEPT !.life = "deleted"] ELSE @[o]],
        !.hosts[h] = ExecuteTask(@)] = y
  OBVIOUS
<1>. HIDE DEF objects, c
<1>6. /\ y \in Proxy /\ y.links = x.links /\ y.objects = objects /\ y.hosts = [x.hosts EXCEPT ![h] = c]
  BY <1>1, <1>2, <1>4 DEF Proxy
<1>. HIDE DEF y
<1>7. /\ TasksOf(y.hosts[h]) = {} /\ y.hosts[h].visitors = x.hosts[h].visitors
      /\ \A g \in Hosts : g # h => y.hosts[g] = x.hosts[g]
  BY <1>1, <1>2, <1>6, ProxyFields
<1>8. \A o \in Objects : Own(y, o)
  <2>. SUFFICES ASSUME NEW o \in Objects  PROVE  Own(y, o)
    OBVIOUS
  <2>1. Own(x, o) /\ Host(o) \in Hosts /\ StateOf(y, o) = StateOf(x, o)
    BY <1>1, <1>6, Mates DEF Base, StateOf
  <2>2. CASE o \in t
    <3>1. y.objects[o].life = "deleted" /\ x.objects[o].life = "destroyed" /\ o \notin TasksOf(y.hosts[Host(o)])
      BY <1>3, <1>4, <1>6, <1>7, <2>2
    <3>. QED  BY <2>1, <3>1 DEF Own
  <2>3. CASE o \notin t
    <3>1. y.objects[o] = x.objects[o] /\ y.hosts[Host(o)].visitors = x.hosts[Host(o)].visitors
      BY <1>4, <1>6, <1>7, <2>1, <2>3
    <3>2. o \in TasksOf(y.hosts[Host(o)]) <=> o \in TasksOf(x.hosts[Host(o)])
      BY <1>7, <2>1, <2>3
    <3>. QED  BY <2>1, <3>1, <3>2 DEF Own
  <2>. QED  BY <2>2, <2>3
<1>9. \A o \in Objects : y.objects[o].life = "none" <=> x.objects[o].life = "none"
  BY <1>3, <1>4, <1>6
<1>10. Base(y)
  <2>1. InTurn(y)
    BY <1>1, <1>4, <1>6, <1>9, Names DEF InTurn, StateOf, Base, Hands
  <2>2. \A g \in Hosts : TasksOf(y.hosts[g]) \subseteq ObjectsOf(g)
    BY <1>1, <1>7 DEF Base
  <2>. QED  BY <1>1, <1>6, <1>8, <2>1, <2>2 DEF Base
<1>11. Calm(x, y)
  BY <1>4, <1>6 DEF Calm, Marks, NoMore
<1>12. Quiet(y)
  BY <1>1, <1>11, CalmQuiet
<1>13. ASSUME NEW o \in Objects  PROVE  y.objects[o].life \in {"live", "destroyed"} => y.objects[o] = x.objects[o]
  BY <1>4, <1>6
<1>14. ASSUME NEW g \in Hands  PROVE  Pair(y, g)
  <2>1. g \in Objects /\ Mate(g) \in Objects /\ Pair(x, g)
    BY Mates DEF Sound, Objects
  <2>2. ASSUME NEW o \in Objects, x.objects[o].life = "live"  PROVE  y.objects[o] = x.objects[o]
    BY <1>3, <1>4, <1>6, <2>2
  <2>. QED  BY <1>13, <2>1, <2>2 DEF Pair
<1>15. Reaching(y)
  <2>1. "SD" \in Objects /\ "SH" \in Objects
    BY Names
  <2>2. ASSUME x.objects["SH"].life = "live"  PROVE  y.objects["SH"] = x.objects["SH"]
    BY <1>3, <1>4, <1>6, <2>1, <2>2
  <2>. QED  BY <1>13, <2>1, <2>2 DEF Reaching, Sound
<1>. QED  BY <1>5, <1>10, <1>12, <1>14, <1>15 DEF Sound, Steady

-------------------------------------------------------------------------------
(* The invariant. *)

\* The invariant holds at first.
LEMMA OctopusInit == Init => OctopusInv
<1>. SUFFICES ASSUME Init  PROVE  OctopusInv
  OBVIOUS
<1>1. /\ NoObject \in Object /\ NoObject.life = "none" /\ NoObject.wb = <<>>
      /\ ~ NoObject.dispatcher /\ ~ NoObject.alarm /\ ~ NoObject.meta /\ ~ NoObject.ack
  BY NoObjectFacts
<1>2. /\ NoLink \in Wire /\ NoLink["near"].state = "none" /\ NoLink["far"].state = "none"
      /\ Dialled \in Wire /\ Dialled["near"].state = "open" /\ Dialled["far"].state = "queued"
  BY NewLinks, OtherLinkCalls DEF Dialled
<1>3. NewContext \in Context(Objects) /\ TasksOf(NewContext) = {}
  <2>1. <<>> \in Seq(Objects) /\ DOMAIN <<>> = {}
    OBVIOUS
  <2>2. NewContext \in Context(Objects) /\ NewContext.tasks = <<>>
    BY <2>1 DEF NewContext, Context
  <2>. QED  BY <2>1, <2>2 DEF TasksOf
<1>4. /\ ox.links = [app |-> Dialled, relay |-> NoLink, org |-> NoLink]
      /\ ox.objects = [o \in Objects |-> NoObject] /\ ox.hosts = [h \in Hosts |-> NewContext]
      /\ ox = [ links |-> [app |-> Dialled, relay |-> NoLink, org |-> NoLink],
                objects |-> [o \in Objects |-> NoObject], hosts |-> [h \in Hosts |-> NewContext] ]
  BY DEF Init
<1>5. NoLink["near"].in = <<>> /\ NoLink["far"].in = <<>>
  BY DEF NoLink, NoEnd, Ends
<1>. HIDE DEF NoObject, NoLink, Dialled, NewContext
<1>6. /\ ox.links \in [LinkNames -> Wire] /\ ox.links["app"] = Dialled
      /\ ox.links["relay"] = NoLink /\ ox.links["org"] = NoLink
  BY <1>2, <1>4 DEF LinkNames
<1>7. /\ ox.objects \in [Objects -> Object] /\ \A o \in Objects : ox.objects[o] = NoObject
      /\ ox.hosts \in [Hosts -> Context(Objects)] /\ \A h \in Hosts : ox.hosts[h] = NewContext
  BY <1>1, <1>3, <1>4
<1>8. ox \in Proxy
  BY <1>4, <1>6, <1>7 DEF Proxy
<1>9. \A o \in Objects : StateOf(ox, o) = IF o = "CD" THEN "queued" ELSE "none"
  BY <1>2, <1>6, Names DEF StateOf
<1>10. Base(ox)
  <2>1. \A l \in LinkNames : Shaped(ox.links[l])
    BY <1>2, <1>6 DEF Shaped, LinkNames
  <2>2. \A h \in Hosts : TasksOf(ox.hosts[h]) \subseteq ObjectsOf(h)
    BY <1>3, <1>7
  <2>3. \A o \in Objects : Own(ox, o)
    BY <1>1, <1>3, <1>7, <1>9, Mates DEF Own
  <2>4. InTurn(ox)
    BY <1>1, <1>7, <1>9, Names DEF InTurn, Hands
  <2>. QED  BY <1>8, <2>1, <2>2, <2>3, <2>4 DEF Base
<1>11. ox.objects["CH"] = NoObject /\ ox.objects["SH"] = NoObject /\ ox.objects["CD"] = NoObject
       /\ ox.objects["SD"] = NoObject
  BY <1>7, Names
<1>12. Quiet(ox)
  <2>1. Len(<<>>) = 0
    OBVIOUS
  <2>2. Heading(ox) = 0
    <3>1. ox.objects["CH"].wb = <<>> /\ ox.links["relay"]["far"].in = <<>>
      BY <1>1, <1>5, <1>6, <1>11
    <3>2. Heading(ox) = Len(<<>>) + Len(<<>>)
      BY <3>1 DEF Heading
    <3>. QED  BY <2>1, <3>2
  <2>. QED  BY <1>1, <1>5, <1>6, <1>11, <2>2 DEF Quiet
<1>13. Reaching(ox) /\ \A h \in Hands : Pair(ox, h)
  BY <1>1, <1>7, <1>11, Names DEF Reaching, Pair, Hands
<1>14. parties \in PartyTypes /\ resets \in 0 .. Resets
  <2>1. <<>> \in Seq(Int)
    OBVIOUS
  <2>. QED  BY <2>1, OctopusAssumption DEF Init, PartyTypes
<1>. QED  BY <1>10, <1>12, <1>13, <1>14 DEF OctopusInv, Sound, Steady

\* One round of the callbacks of a host.
LEMMA HostStep ==
  ASSUME OctopusInv, NEW h \in Hosts, HostServes(h)
  PROVE  OctopusInv'
<1>1. Sound(ox) /\ Base(ox) /\ parties \in PartyTypes /\ resets \in 0 .. Resets
  BY DEF OctopusInv, Sound, Steady
<1>2. \A o \in Objects : Link(o) \in LinkNames
  BY Mates
<1>3. ASSUME NEW y, NEW g, HostDoes(g, y), Sound(y)  PROVE  OctopusInv'
  BY <1>1, <1>3 DEF HostDoes, OctopusInv
<1>4. CASE h = "caller" /\ AcceptCaller
  <2>1. StateOf(ox, "CD") = "queued"
    BY <1>4, Names DEF AcceptCaller, StateOf
  <2>. QED  BY <1>1, <1>3, <1>4, <2>1, CreateCallerSound DEF AcceptCaller
<1>5. CASE h = "callee" /\ AcceptCallee
  <2>1. StateOf(ox, "SH") = "queued"
    BY <1>5, Names DEF AcceptCallee, StateOf
  <2>. QED  BY <1>1, <1>3, <1>5, <2>1, CreateCalleeSound DEF AcceptCallee
<1>6. CASE h = "callee" /\ DispatcherServed
  BY <1>1, <1>3, <1>6, DispatcherOnEventSound DEF DispatcherServed
<1>7. ASSUME NEW g \in Hands, HandServed(g)  PROVE  OctopusInv'
  BY <1>1, <1>3, <1>7, HandOnEventSound DEF HandServed
<1>8. ASSUME NEW g \in Hands, HandAlarm(g)  PROVE  OctopusInv'
  BY <1>1, <1>3, <1>8, OutBandwidthAlarmSound DEF HandAlarm
<1>9. ASSUME NEW d \in Dispatchers, DispatcherAlarm(d)  PROVE  OctopusInv'
  <2>. DEFINE f == FlushBuffer(ox, d)
  <2>1. /\ ox.objects[d].alarm /\ ox.objects[d].life = "live" /\ d \in Objects
        /\ \E b \in WriteBudgets(f, d) : HostDoes(Host(d), HandleSocketAlarm(f, d, b))
    BY <1>9 DEF DispatcherAlarm, Objects
  <2>2. Moves(ox, f, d)
    BY <1>1, <2>1, FlushSteady DEF Sound
  <2>. HIDE DEF f
  <2>3. Sound(f) /\ f.objects[d].alarm /\ f.objects[d].life = "live" /\ Base(f)
    BY <1>1, <2>1, <2>2, MovesSound DEF Moves, Alike, Steady
  <2>4. PICK b \in WriteBudgets(f, d) : HostDoes(Host(d), HandleSocketAlarm(f, d, b))
    BY <2>1
  <2>5. b \in Nat
    <3>1. Len(f.links[Link(d)][EndOf(d)].in) \in Nat
      BY <2>1, <2>3, PartsOf
    <3>. DEFINE n == Len(f.links[Link(d)][EndOf(d)].in)
                m == IF f.links["relay"][Peer(EndOf(Mate(d)))].in = <<>> THEN 1 ELSE 0
    <3>2. b \in m .. n + 1 /\ m \in {0, 1}
      BY <2>4 DEF WriteBudgets
    <3>. HIDE DEF n, m
    <3>. QED  BY <3>1, <3>2 DEF n
  <2>. QED  BY <1>3, <2>3, <2>4, <2>5, HandleSocketAlarmSound
<1>10. CASE RunTasks(h)
  BY <1>1, <1>3, <1>10, RunTasksSound DEF RunTasks
<1>11. CASE HostExits(h)
  BY <1>1, <1>3, <1>11, EndSound DEF HostExits
<1>. QED  BY <1>4, <1>5, <1>6, <1>7, <1>8, <1>9, <1>10, <1>11 DEF HostServes

\* A party sends, reads, accepts or closes.
LEMMA PartyStep ==
  ASSUME OctopusInv, NEW p \in Parties,
         PartySends(p) \/ PartyReads(p) \/ PartyCloses(p) \/ AcceptOrigin
  PROVE  OctopusInv'
<1>. DEFINE l == ox.links[LinkOf(p)]
            e == PartyEnd(p)
<1>1. Sound(ox) /\ parties \in PartyTypes /\ resets \in 0 .. Resets
  BY DEF OctopusInv
<1>2. /\ LinkOf(p) \in LinkNames /\ LinkOf(p) # "relay" /\ e \in Ends /\ l \in Wire
      /\ l[e].in \in Seq(Int) /\ Len(l[e].in) \in Nat
      /\ parties[p].sent \in Nat /\ parties[p].got \in Seq(Int)
  <2>1. ox \in Proxy /\ LinkOf(p) \in LinkNames /\ LinkOf(p) # "relay" /\ e \in Ends
    BY <1>1 DEF LinkOf, LinkNames, PartyEnd, Ends, Sound, Steady, Base
  <2>2. l \in Wire
    BY <2>1, ProxyFields
  <2>. QED  BY <1>1, <2>1, <2>2, WireFields DEF PartyTypes
<1>3. ASSUME NEW q \in Parties, NEW k, NEW party \in [sent : Nat, got : Seq(Int)],
             PartyDoes(q, k, party), Sound(SetLink(ox, LinkOf(q), k))
      PROVE  OctopusInv'
  <2>1. ox' = SetLink(ox, LinkOf(q), k)
    BY <1>3 DEF PartyDoes, SetLink
  <2>2. parties' \in PartyTypes /\ resets' = resets
    BY <1>1, <1>3 DEF PartyDoes, PartyTypes
  <2>. QED  BY <1>1, <1>3, <2>1, <2>2 DEF OctopusInv
<1>4. parties[p] \in [sent : Nat, got : Seq(Int)]
  BY <1>1 DEF PartyTypes
<1>5. CASE PartySends(p)
  <2>. DEFINE next == parties[p].sent + 1
              k == Send(l, e, <<next>>)
              party == [parties[p] EXCEPT !.sent = next]
  <2>1. PartyDoes(p, k, party)
    BY <1>5 DEF PartySends
  <2>2. <<next>> \in Seq(Int) /\ party \in [sent : Nat, got : Seq(Int)]
    BY <1>2, <1>4
  <2>3. SameStates(l, k)
    BY <1>2, <2>2, SendKeepsStates
  <2>. HIDE DEF k, party
  <2>4. Sound(SetLink(ox, LinkOf(p), k))
    BY <1>1, <1>2, <2>3, LinkSound
  <2>. QED  BY <1>3, <2>1, <2>2, <2>4
<1>6. CASE PartyReads(p) /\ l[e].in # <<>>
  <2>. DEFINE k == Consume(l, e, Len(l[e].in))
              party == [parties[p] EXCEPT !.got = @ \o l[e].in]
  <2>1. PartyDoes(p, k, party)
    BY <1>6 DEF PartyReads
  <2>2. party \in [sent : Nat, got : Seq(Int)]
    <3>1. parties[p].got \o l[e].in \in Seq(Int)
      BY <1>2, ConcatProperties
    <3>. HIDE DEF l, e
    <3>. QED  BY <1>4, <3>1
  <2>3. SameStates(l, k)
    <3>1. Len(l[e].in) \in 0 .. Len(l[e].in)
      BY <1>2
    <3>. QED  BY <1>2, <3>1, LinkData
  <2>. HIDE DEF k, party
  <2>4. Sound(SetLink(ox, LinkOf(p), k))
    BY <1>1, <1>2, <2>3, LinkSound
  <2>. QED  BY <1>3, <2>1, <2>2, <2>4
<1>7. CASE (PartyReads(p) /\ l[e].in = <<>>) \/ PartyCloses(p)
  <2>1. PartyDoes(p, Close(l, e), parties[p])
    BY <1>7 DEF PartyReads, PartyCloses
  <2>2. Sound(SetLink(ox, LinkOf(p), Close(l, e)))
    BY <1>1, PartyClosesSound
  <2>. QED  BY <1>3, <1>4, <2>1, <2>2
<1>8. CASE AcceptOrigin
  <2>1. "origin" \in Parties /\ LinkOf("origin") = "org"
    BY DEF Parties, LinkOf
  <2>2. PartyDoes("origin", Accept(ox.links["org"]), parties["origin"]) /\ ox.links["org"]["far"].state = "queued"
    BY <1>8 DEF AcceptOrigin
  <2>3. Sound(SetLink(ox, "org", Accept(ox.links["org"])))
    BY <1>1, <2>2, AcceptOriginSound
  <2>4. parties["origin"] \in [sent : Nat, got : Seq(Int)]
    BY <1>1, <2>1 DEF PartyTypes
  <2>. QED  BY <1>3, <2>1, <2>2, <2>3, <2>4
<1>. QED  BY <1>5, <1>6, <1>7, <1>8

\* The network answers, or resets a connection.
LEMMA NetworkStep ==
  ASSUME OctopusInv, NEW l \in LinkNames, Established(l) \/ Refused(l) \/ Breaks(l)
  PROVE  OctopusInv'
<1>1. Sound(ox) /\ parties \in PartyTypes /\ resets \in 0 .. Resets /\ Resets \in Nat
  BY OctopusAssumption DEF OctopusInv
<1>2. ox.links[l] \in Wire
  BY <1>1, ProxyFields DEF Sound, Steady, Base
<1>3. CASE Established(l)
  <2>1. ox' = SetLink(ox, l, Establish(ox.links[l])) /\ UnderWay(ox.links[l]) /\ UNCHANGED <<parties, resets>>
    BY <1>3 DEF Established, SetLink
  <2>. QED  BY <1>1, <2>1, EstablishSound DEF OctopusInv
<1>4. CASE Refused(l)
  <2>1. ox' = SetLink(ox, l, Refuse(ox.links[l])) /\ UNCHANGED <<parties, resets>>
    BY <1>4 DEF Refused, SetLink
  <2>2. Sound(SetLink(ox, l, Refuse(ox.links[l])))
    <3>1. "near" \in Ends
      BY DEF Ends
    <3>2. SameStates(ox.links[l], Refuse(ox.links[l])) /\ NoMore(ox.links[l], Refuse(ox.links[l]))
      BY <1>2, <3>1, LinkData, OtherNoMore
    <3>. QED  BY <1>1, <3>2, LinkSound
  <2>. QED  BY <1>1, <2>1, <2>2 DEF OctopusInv
<1>5. CASE Breaks(l)
  <2>1. ox' = SetLink(ox, l, Break(ox.links[l])) /\ resets < Resets /\ resets' = resets + 1 /\ UNCHANGED parties
    BY <1>5 DEF Breaks, SetLink
  <2>2. Sound(SetLink(ox, l, Break(ox.links[l])))
    <3>1. "near" \in Ends
      BY DEF Ends
    <3>2. SameStates(ox.links[l], Break(ox.links[l])) /\ NoMore(ox.links[l], Break(ox.links[l]))
      BY <1>2, <3>1, LinkData, OtherNoMore
    <3>. QED  BY <1>1, <3>2, LinkSound
  <2>3. resets' \in 0 .. Resets
    BY <1>1, <2>1
  <2>. QED  BY <1>1, <2>1, <2>2, <2>3 DEF OctopusInv
<1>. QED  BY <1>3, <1>4, <1>5

\* The invariant is inductive.
LEMMA OctopusStep == OctopusInv /\ [Next]_vars => OctopusInv'
<1>. SUFFICES ASSUME OctopusInv, [Next]_vars  PROVE  OctopusInv'
  OBVIOUS
<1>1. CASE UNCHANGED vars
  BY <1>1 DEF vars, OctopusInv
<1>2. ASSUME NEW h \in Hosts, HostServes(h)  PROVE  OctopusInv'
  BY <1>2, HostStep
<1>3. ASSUME NEW h \in Hosts, SignalHost(h)  PROVE  OctopusInv'
  BY <1>3, SignalHostSound DEF SignalHost, HostDoes, OctopusInv
<1>4. ASSUME NEW p \in Parties, PartySends(p) \/ PartyReads(p) \/ PartyCloses(p)  PROVE  OctopusInv'
  BY <1>4, PartyStep
<1>5. CASE AcceptOrigin
  <2>1. "origin" \in Parties
    BY DEF Parties
  <2>. QED  BY <1>5, <2>1, PartyStep
<1>6. ASSUME NEW l \in LinkNames, Established(l) \/ Refused(l) \/ Breaks(l)  PROVE  OctopusInv'
  BY <1>6, NetworkStep
<1>. QED  BY <1>1, <1>2, <1>3, <1>4, <1>5, <1>6 DEF Next, Progress, PartiesRead, NetworkAnswers

\* So it holds always.
LEMMA OctopusAlways == Spec => []OctopusInv
<1>. QED  BY OctopusInit, OctopusStep, PTL DEF Spec

\* The invariant implies the property.
LEMMA OctopusInvAgrees == OctopusInv => HandsAgree
<1>. SUFFICES ASSUME OctopusInv  PROVE  HandsAgree
  OBVIOUS
<1>1. Sound(ox) /\ Base(ox) /\ ox \in Proxy /\ \A h \in Hands : Pair(ox, h)
  BY DEF OctopusInv, Sound, Steady, Base
<1>2. TypeOK
  <2>1. \A l \in LinkNames : ox.links[l] \in [Ends -> End]
    BY <1>1, ProxyFields DEF Wire
  <2>2. ox.links \in [LinkNames -> [Ends -> End]]
    BY <1>1, <2>1, ProxyFields
  <2>. QED  BY <1>1, <2>2, ProxyFields DEF TypeOK, OctopusInv, PartyTypes
<1>3. \A h \in Hands :
        Live(h) /\ ox.objects[h].dispatcher => Live(Mate(h)) /\ ox.objects[Mate(h)].hands # "none"
  BY <1>1 DEF Pair, Live
<1>4. \A d \in Dispatchers :
        ox.objects[d].alarm /\ Live(d) /\ ox.objects[d].hands # "none" =>
          Live(Mate(d)) /\ ox.objects[Mate(d)].dispatcher
  <2>1. \A d \in Dispatchers : Mate(d) \in Hands /\ Mate(Mate(d)) = d
    BY Names DEF Dispatchers, Hands
  <2>. QED  BY <1>1, <2>1 DEF Pair, Live
<1>5. \A o \in Objects : /\ Live(o) <=> HasSocket(ox, o)
                         /\ ox.objects[o].life = "destroyed" <=> o \in TasksOf(ox.hosts[Host(o)])
  BY <1>1, SocketLive DEF Live, Base, Own
<1>6. \A d \in Dispatchers : Live(d) => d \in ox.hosts[Host(d)].visitors
  BY <1>1 DEF Live, Base, Own, Objects
<1>. QED  BY <1>2, <1>3, <1>4, <1>5, <1>6 DEF HandsAgree

\* Hands and dispatchers agree on who is there and who points to whom, on every link
\* and for as many units and resets as there may be.
THEOREM HandsAlwaysAgree == Spec => []HandsAgree
<1>. QED  BY OctopusAlways, OctopusInvAgrees, PTL

-------------------------------------------------------------------------------
(* The way of the data.  Each direction is a row of five buffers: the queue   *)
(* of the party that reads, then by turns the buffer of an object and the     *)
(* queue that its mate reads.  A queue is named by its reader.                *)

\* Names on the way of the data.
LEMMA Ways ==
  /\ \A r \in Readers : Opposite(r) \in Readers /\ Opposite(Opposite(r)) = r /\ Source(r) \in Parties
  /\ \A o \in Objects : /\ Source(Opposite(o)) = Source(Mate(o)) /\ Opposite(o) \in Readers /\ o \in Readers
                        /\ Mate(o) \in Objects /\ Mate(o) \in Readers /\ Opposite(o) # o
                        /\ Mate(o) # o /\ Mate(Mate(o)) = o
  /\ \A p \in Parties : Source(Opposite(p)) = p /\ Opposite(p) \in Objects /\ p \notin Objects /\ p \in Readers
<1>. Readers = {"CD", "CH", "SH", "SD", "application", "origin"} /\ Parties = {"application", "origin"}
  BY Names DEF Readers, Parties
<1>1. /\ Opposite("application") = "CD" /\ Opposite("CD") = "application" /\ Opposite("CH") = "SH"
      /\ Opposite("SH") = "CH" /\ Opposite("SD") = "origin" /\ Opposite("origin") = "SD"
  BY DEF Opposite
<1>2. /\ Source("CD") = "application" /\ Source("SH") = "application" /\ Source("origin") = "application"
      /\ Source("CH") = "origin" /\ Source("SD") = "origin" /\ Source("application") = "origin"
  BY DEF Source
<1>3. \A r \in Readers : Opposite(r) \in Readers /\ Opposite(Opposite(r)) = r /\ Source(r) \in Parties
  BY <1>1, <1>2
<1>4. \A o \in Objects : /\ Source(Opposite(o)) = Source(Mate(o)) /\ Opposite(o) \in Readers /\ o \in Readers
                         /\ Mate(o) \in Objects /\ Mate(o) \in Readers /\ Opposite(o) # o
                         /\ Mate(o) # o /\ Mate(Mate(o)) = o
  BY <1>1, <1>2, Names
<1>5. \A p \in Parties : Source(Opposite(p)) = p /\ Opposite(p) \in Objects /\ p \notin Objects /\ p \in Readers
  BY <1>1, <1>2, Names
<1>. QED  BY <1>3, <1>4, <1>5

\* What comes next, appended, is still in order, and parts of what is in order are.
LEMMA RunConcat ==
  ASSUME NEW u \in Seq(Int), NEW v \in Seq(Int), NEW a \in Int
  PROVE  /\ u \o v \in Seq(Int) /\ Len(u \o v) = Len(u) + Len(v) /\ Len(u) \in Nat /\ Len(v) \in Nat
         /\ Run(u \o v, a) <=> Run(u, a) /\ Run(v, a + Len(u))
<1>1. /\ Len(u) \in Nat /\ Len(v) \in Nat /\ Len(u \o v) = Len(u) + Len(v) /\ u \o v \in Seq(Int)
      /\ \A i \in 1 .. Len(u) + Len(v) : (u \o v)[i] = IF i <= Len(u) THEN u[i] ELSE v[i - Len(u)]
  BY ConcatProperties
<1>. DEFINE w == u \o v
<1>. HIDE DEF w
<1>2. ASSUME Run(u, a), Run(v, a + Len(u))  PROVE  Run(w, a)
  <2>1. ASSUME NEW i \in 1 .. Len(u) + Len(v)  PROVE  w[i] = a + i
    <3>1. CASE i <= Len(u)
      BY <1>1, <1>2, <3>1 DEF Run, w
    <3>2. CASE i > Len(u)
      <4>1. i - Len(u) \in 1 .. Len(v)
        BY <1>1, <3>2
      <4>2. v[i - Len(u)] = a + Len(u) + (i - Len(u))
        BY <1>2, <4>1 DEF Run
      <4>. QED  BY <1>1, <3>2, <4>1, <4>2 DEF w
    <3>. QED  BY <1>1, <3>1, <3>2
  <2>. QED  BY <1>1, <2>1 DEF Run, w
<1>3. ASSUME Run(w, a)  PROVE  Run(u, a)
  <2>1. ASSUME NEW i \in 1 .. Len(u)  PROVE  u[i] = a + i
    <3>1. i \in 1 .. Len(u) + Len(v) /\ i <= Len(u)
      BY <1>1
    <3>2. w[i] = u[i]
      BY <1>1, <3>1 DEF w
    <3>3. Len(w) = Len(u) + Len(v)
      BY <1>1 DEF w
    <3>. QED  BY <1>3, <3>1, <3>2, <3>3 DEF Run
  <2>. QED  BY <2>1 DEF Run
<1>4. ASSUME Run(w, a)  PROVE  Run(v, a + Len(u))
  <2>1. ASSUME NEW i \in 1 .. Len(v)  PROVE  v[i] = a + Len(u) + i
    <3>. DEFINE j == i + Len(u)
    <3>1. j \in 1 .. Len(u) + Len(v) /\ ~ (j <= Len(u)) /\ j - Len(u) = i
      BY <1>1
    <3>. HIDE DEF j
    <3>2. w[j] = v[i]
      BY <1>1, <3>1 DEF w
    <3>3. Len(w) = Len(u) + Len(v)
      BY <1>1 DEF w
    <3>4. w[j] = a + j
      BY <1>4, <3>1, <3>3 DEF Run
    <3>. QED  BY <1>1, <3>1, <3>2, <3>4 DEF j
  <2>. QED  BY <2>1 DEF Run
<1>. QED  BY <1>1, <1>2, <1>3, <1>4 DEF w

\* The first part of a buffer goes on to the queue before it, or is lost if that has ended.
LEMMA FlowSends ==
  ASSUME NEW q \in Queues, NEW k \in Buffers, NEW s, NEW g \in PartyTypes, Flow(q, k, s, g),
         NEW o \in Objects, NEW u \in Seq(Int), NEW v \in Seq(Int), k[o] = u \o v,
         NEW q2, NEW k2,
         k2[o] = v, \A t \in Objects : t # o => k2[t] = k[t],
         \A r \in Readers : r # Opposite(o) => q2[r] = q[r],
         q2[Opposite(o)] = IF s[Opposite(o)] THEN q[Opposite(o)] \o u ELSE q[Opposite(o)]
  PROVE  Flow(q2, k2, s, g)
<1>1. PICK a \in [Readers -> Int], b \in [Objects -> Int] : Lies(a, b, q, k, s, g)
  BY DEF Flow
<1>. DEFINE c == [b EXCEPT ![o] = b[o] + Len(u)]
            r == Opposite(o)
            n == g[Source(r)].sent
<1>2. /\ r \in Readers /\ Source(r) = Source(Mate(o)) /\ Source(r) \in Parties /\ n \in Int
      /\ a[r] \in Int /\ b[o] \in Int /\ q[r] \in Seq(Int) /\ k[o] \in Seq(Int)
      /\ \A t \in Objects : Opposite(t) = r => t = o
      /\ \A p \in Parties : Opposite(p) # r
  <2>1. r \in Readers /\ Source(r) = Source(Mate(o)) /\ Source(r) \in Parties /\ Opposite(r) = o
    BY Ways
  <2>2. \A t \in Objects : Opposite(t) = r => t = o
    BY <2>1, Ways
  <2>3. \A p \in Parties : Opposite(p) # r
    <3>1. \A p \in Parties : p # o /\ Opposite(Opposite(p)) = p
      BY Ways
    <3>. QED  BY <2>1, <3>1
  <2>4. n \in Int /\ a[r] \in Int /\ b[o] \in Int /\ q[r] \in Seq(Int) /\ k[o] \in Seq(Int)
    BY <2>1 DEF Queues, Buffers, PartyTypes
  <2>. QED  BY <2>1, <2>2, <2>3, <2>4
<1>. HIDE DEF n, r
<1>3. /\ Run(u, b[o]) /\ Run(v, b[o] + Len(u)) /\ Len(u) \in Nat /\ Len(v) \in Nat
      /\ Len(k[o]) = Len(u) + Len(v) /\ b[o] + Len(u) + Len(v) <= n
  <2>1. Run(k[o], b[o]) /\ b[o] + Len(k[o]) <= n
    BY <1>1, <1>2 DEF Lies, n
  <2>2. Run(u \o v, b[o])
    BY <2>1
  <2>3. /\ Run(u, b[o]) /\ Run(v, b[o] + Len(u)) /\ Len(u) \in Nat /\ Len(v) \in Nat
        /\ Len(k[o]) = Len(u) + Len(v)
    BY <1>2, <2>2, RunConcat
  <2>. QED  BY <1>2, <2>1, <2>3
<1>4. c \in [Objects -> Int] /\ c[o] = b[o] + Len(u) /\ \A t \in Objects : t # o => c[t] = b[t]
  BY <1>2, <1>3
<1>. HIDE DEF c
<1>5. /\ Run(q2[r], a[r]) /\ a[r] + Len(q2[r]) <= n
      /\ s[r] => a[r] + Len(q2[r]) = c[o]
  <2>1. CASE s[r]
    <3>1. q2[r] = q[r] \o u /\ a[r] + Len(q[r]) = b[o] /\ Run(q[r], a[r])
      BY <1>1, <1>2, <2>1 DEF Lies, r
    <3>2. Run(q[r] \o u, a[r]) /\ Len(q[r] \o u) = Len(q[r]) + Len(u) /\ Len(q[r]) \in Nat
      BY <1>2, <1>3, <3>1, RunConcat
    <3>3. a[r] + (Len(q[r]) + Len(u)) = b[o] + Len(u) /\ b[o] + Len(u) <= n
      BY <1>2, <1>3, <3>1, <3>2
    <3>. QED  BY <1>4, <3>1, <3>2, <3>3
  <2>2. CASE ~ s[r]
    BY <1>1, <1>2, <2>2 DEF Lies, r, n
  <2>. QED  BY <2>1, <2>2
<1>6. \A t \in Readers : Run(q2[t], a[t]) /\ a[t] + Len(q2[t]) <= g[Source(t)].sent
  BY <1>1, <1>5 DEF Lies, r, n
<1>7. \A t \in Objects : Run(k2[t], c[t]) /\ c[t] + Len(k2[t]) <= g[Source(Mate(t))].sent
  <2>. TAKE t \in Objects
  <2>1. CASE t = o
    BY <1>2, <1>3, <1>4, <2>1 DEF n
  <2>2. CASE t # o
    BY <1>1, <1>4, <2>2 DEF Lies
  <2>. QED  BY <2>1, <2>2
<1>8. \A t \in Objects : s[Opposite(t)] => a[Opposite(t)] + Len(q2[Opposite(t)]) = c[t]
  <2>. TAKE t \in Objects
  <2>1. CASE t = o
    BY <1>5, <2>1 DEF r
  <2>2. CASE t # o
    BY <1>1, <1>2, <1>4, <2>2, Ways DEF Lies, r
  <2>. QED  BY <2>1, <2>2
<1>9. \A t \in Objects : s[t] => c[t] + Len(k2[t]) = a[Mate(t)]
  <2>. TAKE t \in Objects
  <2>1. CASE t = o
    <3>1. s[o] => b[o] + Len(k[o]) = a[Mate(o)]
      BY <1>1 DEF Lies
    <3>. QED  BY <1>2, <1>3, <1>4, <2>1, <3>1
  <2>2. CASE t # o
    BY <1>1, <1>4, <2>2 DEF Lies
  <2>. QED  BY <2>1, <2>2
<1>10. \A p \in Parties : s[Opposite(p)] => a[Opposite(p)] + Len(q2[Opposite(p)]) = g[p].sent
  BY <1>1, <1>2, Ways DEF Lies, r
<1>. QED  BY <1>1, <1>4, <1>6, <1>7, <1>8, <1>9, <1>10 DEF Flow, Lies

\* The first part of a queue goes on to the buffer before it, or is lost if that has ended.
LEMMA FlowReads ==
  ASSUME NEW q \in Queues, NEW k \in Buffers, NEW s, NEW g \in PartyTypes, Flow(q, k, s, g),
         NEW r \in Objects, NEW u \in Seq(Int), NEW v \in Seq(Int), q[r] = u \o v,
         NEW q2, NEW k2,
         q2[r] = v, \A t \in Readers : t # r => q2[t] = q[t],
         \A t \in Objects : t # Mate(r) => k2[t] = k[t],
         k2[Mate(r)] = IF s[Mate(r)] THEN k[Mate(r)] \o u ELSE k[Mate(r)]
  PROVE  Flow(q2, k2, s, g)
<1>1. PICK a \in [Readers -> Int], b \in [Objects -> Int] : Lies(a, b, q, k, s, g)
  BY DEF Flow
<1>. DEFINE c == [a EXCEPT ![r] = a[r] + Len(u)]
            o == Mate(r)
            n == g[Source(r)].sent
<1>2. /\ r \in Readers /\ o \in Objects /\ Mate(o) = r /\ Source(r) \in Parties /\ n \in Int
      /\ a[r] \in Int /\ b[o] \in Int /\ q[r] \in Seq(Int) /\ k[o] \in Seq(Int)
      /\ \A t \in Objects : Mate(t) = r => t = o
  <2>1. r \in Readers /\ o \in Objects /\ Mate(o) = r /\ Source(r) \in Parties
    BY Ways
  <2>2. \A t \in Objects : Mate(t) = r => t = o
    BY Ways
  <2>3. n \in Int /\ a[r] \in Int /\ b[o] \in Int /\ q[r] \in Seq(Int) /\ k[o] \in Seq(Int)
    BY <2>1 DEF Queues, Buffers, PartyTypes
  <2>. QED  BY <2>1, <2>2, <2>3
<1>. HIDE DEF n, o
<1>3. /\ Run(u, a[r]) /\ Run(v, a[r] + Len(u)) /\ Len(u) \in Nat /\ Len(v) \in Nat
      /\ Len(q[r]) = Len(u) + Len(v) /\ a[r] + Len(u) + Len(v) <= n
  <2>1. Run(q[r], a[r]) /\ a[r] + Len(q[r]) <= n
    BY <1>1, <1>2 DEF Lies, n
  <2>2. Run(u \o v, a[r])
    BY <2>1
  <2>3. /\ Run(u, a[r]) /\ Run(v, a[r] + Len(u)) /\ Len(u) \in Nat /\ Len(v) \in Nat
        /\ Len(q[r]) = Len(u) + Len(v)
    BY <1>2, <2>2, RunConcat
  <2>. QED  BY <1>2, <2>1, <2>3
<1>4. c \in [Readers -> Int] /\ c[r] = a[r] + Len(u) /\ \A t \in Readers : t # r => c[t] = a[t]
  BY <1>2, <1>3
<1>. HIDE DEF c
<1>5. /\ Run(k2[o], b[o]) /\ b[o] + Len(k2[o]) <= n
      /\ s[o] => b[o] + Len(k2[o]) = c[r]
  <2>1. CASE s[o]
    <3>1. k2[o] = k[o] \o u /\ b[o] + Len(k[o]) = a[r] /\ Run(k[o], b[o])
      BY <1>1, <1>2, <2>1 DEF Lies, o
    <3>2. Run(k[o] \o u, b[o]) /\ Len(k[o] \o u) = Len(k[o]) + Len(u) /\ Len(k[o]) \in Nat
      <4>1. Run(u, b[o] + Len(k[o]))
        BY <1>3, <3>1
      <4>. QED  BY <1>2, <3>1, <4>1, RunConcat
    <3>3. b[o] + (Len(k[o]) + Len(u)) = a[r] + Len(u) /\ a[r] + Len(u) <= n
      BY <1>2, <1>3, <3>1, <3>2
    <3>. QED  BY <1>4, <3>1, <3>2, <3>3
  <2>2. CASE ~ s[o]
    <3>1. k2[o] = k[o]
      BY <2>2 DEF o
    <3>. QED  BY <1>1, <1>2, <2>2, <3>1 DEF Lies, n
  <2>. QED  BY <2>1, <2>2
<1>6. \A t \in Readers : Run(q2[t], c[t]) /\ c[t] + Len(q2[t]) <= g[Source(t)].sent
  <2>. TAKE t \in Readers
  <2>1. CASE t = r
    BY <1>2, <1>3, <1>4, <2>1 DEF n
  <2>2. CASE t # r
    BY <1>1, <1>4, <2>2 DEF Lies
  <2>. QED  BY <2>1, <2>2
<1>7. \A t \in Objects : Run(k2[t], b[t]) /\ b[t] + Len(k2[t]) <= g[Source(Mate(t))].sent
  <2>. TAKE t \in Objects
  <2>1. CASE t = o
    BY <1>2, <1>5, <2>1 DEF n
  <2>2. CASE t # o
    BY <1>1, <2>2 DEF Lies, o
  <2>. QED  BY <2>1, <2>2
<1>8. \A t \in Readers : c[t] + Len(q2[t]) = a[t] + Len(q[t])
  <2>. TAKE t \in Readers
  <2>1. CASE t = r
    <3>1. a[r] + Len(u) + Len(v) = a[r] + (Len(u) + Len(v))
      BY <1>2, <1>3
    <3>2. c[r] + Len(q2[r]) = a[r] + Len(u) + Len(v)
      BY <1>4
    <3>. QED  BY <1>3, <2>1, <3>1, <3>2
  <2>2. CASE t # r
    BY <1>4, <2>2
  <2>. QED  BY <2>1, <2>2
<1>9. \A t \in Objects : s[Opposite(t)] => c[Opposite(t)] + Len(q2[Opposite(t)]) = b[t]
  BY <1>1, <1>8, Ways DEF Lies
<1>10. \A t \in Objects : s[t] => b[t] + Len(k2[t]) = c[Mate(t)]
  <2>. TAKE t \in Objects
  <2>1. CASE t = o
    BY <1>2, <1>5, <2>1
  <2>2. CASE t # o
    <3>1. Mate(t) # r /\ Mate(t) \in Readers /\ k2[t] = k[t]
      BY <1>2, <2>2, Ways DEF o
    <3>. QED  BY <1>1, <1>4, <3>1 DEF Lies
  <2>. QED  BY <2>1, <2>2
<1>11. \A p \in Parties : s[Opposite(p)] => c[Opposite(p)] + Len(q2[Opposite(p)]) = g[p].sent
  <2>. TAKE p \in Parties
  <2>1. Opposite(p) \in Readers
    BY Ways
  <2>. QED  BY <1>1, <1>8, <2>1 DEF Lies
<1>12. \A p \in Parties : c[p] = Len(g[p].got)
  <2>. TAKE p \in Parties
  <2>1. p # r /\ p \in Readers
    BY Ways
  <2>. QED  BY <1>1, <1>4, <2>1 DEF Lies
<1>. QED  BY <1>4, <1>6, <1>7, <1>9, <1>10, <1>11, <1>12 DEF Flow, Lies

\* The same numbers do for what is left.
LEMMA FlowFades ==
  ASSUME NEW q \in Queues, NEW k \in Buffers, NEW s, NEW g \in PartyTypes, Flow(q, k, s, g),
         NEW q2, NEW k2, NEW s2, Wanes(q, k, s, q2, k2, s2)
  PROVE  Flow(q2, k2, s2, g)
<1>1. PICK a \in [Readers -> Int], b \in [Objects -> Int] : Lies(a, b, q, k, s, g)
  BY DEF Flow
<1>2. \A r \in Readers : Run(q2[r], a[r]) /\ a[r] + Len(q2[r]) <= g[Source(r)].sent
  <2>. TAKE r \in Readers
  <2>. DEFINE n == g[Source(r)].sent
  <2>1. /\ Run(q[r], a[r]) /\ a[r] + Len(q[r]) <= n /\ q[r] \in Seq(Int) /\ Len(q[r]) \in Nat
        /\ a[r] \in Int /\ n \in Int
    BY <1>1, Ways DEF Lies, Queues, PartyTypes
  <2>2. Len(<<>>) = 0 /\ Run(<<>>, a[r])
    BY DEF Run
  <2>3. q2[r] = q[r] \/ q2[r] = <<>>
    BY DEF Wanes
  <2>. HIDE DEF n
  <2>4. CASE q2[r] = <<>>
    <3>1. Len(q2[r]) = 0 /\ Run(q2[r], a[r])
      BY <2>2, <2>4
    <3>2. a[r] + Len(q2[r]) <= n
      BY <2>1, <3>1
    <3>. QED  BY <3>1, <3>2 DEF n
  <2>. QED  BY <2>1, <2>3, <2>4 DEF n
<1>3. \A o \in Objects : Run(k2[o], b[o]) /\ b[o] + Len(k2[o]) <= g[Source(Mate(o))].sent
  <2>. TAKE o \in Objects
  <2>. DEFINE n == g[Source(Mate(o))].sent
  <2>1. Run(k[o], b[o]) /\ b[o] + Len(k[o]) <= n /\ b[o] \in Int /\ n \in Int
    BY <1>1, Ways DEF Lies, PartyTypes
  <2>2. CASE k2[o] = k[o]
    BY <2>1, <2>2
  <2>3. ASSUME k2[o] \in Seq(Int), NEW v \in Seq(Int), k[o] = k2[o] \o v
        PROVE  Run(k2[o], b[o]) /\ b[o] + Len(k2[o]) <= n
    <3>1. Run(k2[o] \o v, b[o])
      BY <2>1, <2>3
    <3>2. /\ Run(k2[o], b[o]) /\ Len(k2[o]) \in Nat /\ Len(v) \in Nat
          /\ Len(k2[o] \o v) = Len(k2[o]) + Len(v)
      BY <2>1, <2>3, <3>1, RunConcat
    <3>. HIDE DEF n
    <3>3. b[o] + (Len(k2[o]) + Len(v)) <= n
      BY <2>1, <2>3, <3>2
    <3>. QED  BY <2>1, <3>2, <3>3
  <2>. QED  BY <2>2, <2>3 DEF Wanes
<1>4. \A o \in Objects : s2[Opposite(o)] => a[Opposite(o)] + Len(q2[Opposite(o)]) = b[o]
  <2>. TAKE o \in Objects
  <2>1. Opposite(o) \in Readers
    BY Ways
  <2>. QED  BY <1>1, <2>1 DEF Lies, Wanes
<1>5. \A o \in Objects : s2[o] => b[o] + Len(k2[o]) = a[Mate(o)]
  <2>. TAKE o \in Objects
  <2>1. o \in Readers
    BY Ways
  <2>. QED  BY <1>1, <2>1 DEF Lies, Wanes
<1>6. \A p \in Parties : s2[Opposite(p)] => a[Opposite(p)] + Len(q2[Opposite(p)]) = g[p].sent
  <2>. TAKE p \in Parties
  <2>1. Opposite(p) \in Readers
    BY Ways DEF Readers
  <2>. QED  BY <1>1, <2>1 DEF Lies, Wanes
<1>7. \A p \in Parties : a[p] = Len(g[p].got)
  BY <1>1 DEF Lies
<1>. QED  BY <1>2, <1>3, <1>4, <1>5, <1>6, <1>7 DEF Flow, Lies

\* A party sends one more unit.
LEMMA FlowAdds ==
  ASSUME NEW q \in Queues, NEW k \in Buffers, NEW s, NEW g \in PartyTypes, Flow(q, k, s, g),
         NEW p \in Parties, NEW q2, NEW g2 \in PartyTypes,
         g2[p].sent = g[p].sent + 1, g2[p].got = g[p].got, \A c \in Parties : c # p => g2[c] = g[c],
         \A r \in Readers : r # Opposite(p) => q2[r] = q[r],
         q2[Opposite(p)] = IF s[Opposite(p)] THEN q[Opposite(p)] \o <<g[p].sent + 1>> ELSE q[Opposite(p)]
  PROVE  Flow(q2, k, s, g2)
<1>1. PICK a \in [Readers -> Int], b \in [Objects -> Int] : Lies(a, b, q, k, s, g)
  BY DEF Flow
<1>. DEFINE r == Opposite(p)
            n == g[p].sent
            u == <<n + 1>>
<1>2. /\ r \in Readers /\ r \in Objects /\ Source(r) = p /\ n \in Int /\ a[r] \in Int /\ q[r] \in Seq(Int)
      /\ \A t \in Objects : Opposite(t) # r
      /\ \A c \in Parties : c # p => Opposite(c) # r
  <2>1. r \in Readers /\ r \in Objects /\ Source(r) = p /\ Opposite(r) = p
    BY Ways
  <2>2. \A t \in Objects : Opposite(t) # r
    <3>1. \A t \in Objects : Opposite(Opposite(t)) = t /\ p \notin Objects
      BY Ways
    <3>. QED  BY <2>1, <3>1
  <2>3. \A c \in Parties : c # p => Opposite(c) # r
    <3>1. \A c \in Parties : Opposite(Opposite(c)) = c
      BY Ways
    <3>. QED  BY <2>1, <3>1
  <2>4. n \in Int /\ a[r] \in Int /\ q[r] \in Seq(Int)
    BY <2>1 DEF Queues, PartyTypes
  <2>. QED  BY <2>1, <2>2, <2>3, <2>4
<1>3. \A c \in Parties : g2[c].sent \in Int /\ g[c].sent \in Int /\ g[c].sent <= g2[c].sent
                         /\ g2[c].got = g[c].got
  <2>. TAKE c \in Parties
  <2>1. g2[c].sent \in Int /\ g[c].sent \in Int
    BY DEF PartyTypes
  <2>2. CASE c = p
    BY <2>1, <2>2
  <2>. QED  BY <2>1, <2>2
<1>4. u \in Seq(Int) /\ Len(u) = 1 /\ Run(u, n)
  <2>1. n + 1 \in Int
    BY <1>2
  <2>2. u \in Seq(Int) /\ Len(u) = 1 /\ u[1] = n + 1
    BY <2>1
  <2>. QED  BY <2>2 DEF Run
<1>. HIDE DEF r, u, n
<1>5. /\ Run(q2[r], a[r]) /\ a[r] + Len(q2[r]) <= n + 1
      /\ s[r] => a[r] + Len(q2[r]) = n + 1
  <2>0. Run(q[r], a[r]) /\ a[r] + Len(q[r]) <= n /\ Len(q[r]) \in Nat /\ (s[r] => a[r] + Len(q[r]) = n)
    BY <1>1, <1>2 DEF Lies, r, n
  <2>1. CASE s[r]
    <3>1. q2[r] = q[r] \o u /\ a[r] + Len(q[r]) = n
      BY <2>0, <2>1 DEF r, u, n
    <3>2. Run(u, a[r] + Len(q[r]))
      BY <1>4, <3>1
    <3>3. Run(q[r] \o u, a[r]) /\ Len(q[r] \o u) = Len(q[r]) + 1
      BY <1>2, <1>4, <2>0, <3>2, RunConcat
    <3>4. a[r] + (Len(q[r]) + 1) = n + 1
      BY <1>2, <2>0, <3>1
    <3>5. n + 1 <= n + 1
      BY <1>2
    <3>. QED  BY <3>1, <3>3, <3>4, <3>5
  <2>2. CASE ~ s[r]
    <3>1. q2[r] = q[r]
      BY <2>2 DEF r
    <3>. QED  BY <1>2, <2>0, <2>2, <3>1
  <2>. QED  BY <2>1, <2>2
<1>6. \A t \in Readers : Run(q2[t], a[t]) /\ a[t] + Len(q2[t]) <= g2[Source(t)].sent
  <2>. TAKE t \in Readers
  <2>1. CASE t = r
    BY <1>2, <1>5, <2>1 DEF n
  <2>2. CASE t # r
    <3>1. q2[t] = q[t] /\ Source(t) \in Parties
      BY <2>2, Ways DEF r
    <3>. DEFINE i == a[t] + Len(q[t])
    <3>2. i <= g[Source(t)].sent /\ Run(q[t], a[t]) /\ i \in Int
      <4>1. q[t] \in Seq(Int)
        BY DEF Queues
      <4>. QED  BY <1>1, <4>1 DEF Lies
    <3>. HIDE DEF i
    <3>3. i <= g2[Source(t)].sent
      BY <1>3, <3>1, <3>2
    <3>. QED  BY <3>1, <3>2, <3>3 DEF i
  <2>. QED  BY <2>1, <2>2
<1>7. \A o \in Objects : Run(k[o], b[o]) /\ b[o] + Len(k[o]) <= g2[Source(Mate(o))].sent
  <2>. TAKE o \in Objects
  <2>. DEFINE i == b[o] + Len(k[o])
  <2>1. i <= g[Source(Mate(o))].sent /\ Run(k[o], b[o]) /\ i \in Int /\ Source(Mate(o)) \in Parties
    <3>1. k[o] \in Seq(Int) /\ Mate(o) \in Readers
      BY Ways DEF Buffers
    <3>2. Source(Mate(o)) \in Parties
      BY <3>1, Ways
    <3>3. Len(k[o]) \in Nat /\ b[o] \in Int
      BY <3>1
    <3>. QED  BY <1>1, <3>2, <3>3 DEF Lies
  <2>. HIDE DEF i
  <2>2. i <= g2[Source(Mate(o))].sent
    BY <1>3, <2>1
  <2>. QED  BY <2>1, <2>2 DEF i
<1>8. \A o \in Objects : s[Opposite(o)] => a[Opposite(o)] + Len(q2[Opposite(o)]) = b[o]
  <2>. TAKE o \in Objects
  <2>1. Opposite(o) # r /\ Opposite(o) \in Readers
    BY <1>2, Ways
  <2>. QED  BY <1>1, <2>1 DEF Lies, r
<1>9. \A o \in Objects : s[o] => b[o] + Len(k[o]) = a[Mate(o)]
  BY <1>1 DEF Lies
<1>10. \A c \in Parties : s[Opposite(c)] => a[Opposite(c)] + Len(q2[Opposite(c)]) = g2[c].sent
  <2>. TAKE c \in Parties
  <2>1. CASE c = p
    BY <1>5, <2>1 DEF r, n
  <2>2. CASE c # p
    <3>1. Opposite(c) # r /\ Opposite(c) \in Readers
      BY <1>2, <2>2, Ways DEF Readers
    <3>. QED  BY <1>1, <2>2, <3>1 DEF Lies, r
  <2>. QED  BY <2>1, <2>2
<1>11. \A c \in Parties : a[c] = Len(g2[c].got)
  BY <1>1, <1>3 DEF Lies
<1>. QED  BY <1>6, <1>7, <1>8, <1>9, <1>10, <1>11 DEF Flow, Lies

\* Then it has what comes next, and the flow goes on.
LEMMA FlowTakes ==
  ASSUME NEW q, NEW k, NEW s, NEW g, NEW p \in Parties, NEW q2, NEW g2, Takes(q, k, s, g, p, q2, g2)
  PROVE  Flow(q2, k, s, g2) /\ Run(g2[p].got, 0)
<1>0. /\ q \in Queues /\ k \in Buffers /\ g \in PartyTypes /\ g2 \in PartyTypes /\ Flow(q, k, s, g)
      /\ Run(g[p].got, 0)
      /\ g2[p].sent = g[p].sent /\ g2[p].got = g[p].got \o q[p] /\ \A c \in Parties : c # p => g2[c] = g[c]
      /\ q2[p] = <<>> /\ \A r \in Readers : r # p => q2[r] = q[r]
  BY DEF Takes
<1>. USE <1>0
<1>1. PICK a \in [Readers -> Int], b \in [Objects -> Int] : Lies(a, b, q, k, s, g)
  BY DEF Flow
<1>. DEFINE u == q[p]
            w == g[p].got
            c == [a EXCEPT ![p] = a[p] + Len(u)]
<1>2. /\ p \in Readers /\ p \notin Objects /\ a[p] = Len(w) /\ u \in Seq(Int) /\ w \in Seq(Int) /\ Run(u, a[p])
      /\ a[p] + Len(u) <= g[Source(p)].sent /\ Source(p) \in Parties /\ Len(<<>>) = 0
      /\ g[Source(p)].sent \in Int /\ a[p] \in Int
  BY <1>1, Ways DEF Lies, Queues, PartyTypes
<1>. HIDE DEF u, w
<1>3. Run(w, 0) /\ 0 + Len(w) = a[p] /\ g2[p].got = w \o u
  BY <1>2 DEF u, w
<1>4. Run(w \o u, 0) /\ Len(w \o u) = Len(w) + Len(u) /\ Len(u) \in Nat
  BY <1>2, <1>3, RunConcat
<1>5. c \in [Readers -> Int] /\ c[p] = a[p] + Len(u) /\ \A r \in Readers : r # p => c[r] = a[r]
  BY <1>2, <1>4
<1>. HIDE DEF c
<1>6. \A r \in Parties : g2[r].sent = g[r].sent
  OBVIOUS
<1>7. \A t \in Readers : c[t] + Len(q2[t]) = a[t] + Len(q[t])
  <2>. TAKE t \in Readers
  <2>1. CASE t = p
    BY <1>2, <1>4, <1>5, <2>1 DEF u
  <2>2. CASE t # p
    BY <1>5, <2>2
  <2>. QED  BY <2>1, <2>2
<1>8. \A t \in Readers : Run(q2[t], c[t]) /\ c[t] + Len(q2[t]) <= g2[Source(t)].sent
  <2>. TAKE t \in Readers
  <2>1. Source(t) \in Parties /\ a[t] + Len(q[t]) <= g[Source(t)].sent /\ Run(q[t], a[t])
    BY <1>1, Ways DEF Lies
  <2>2. Run(q2[t], c[t])
    <3>1. CASE t = p
      BY <3>1, <1>2 DEF Run
    <3>2. CASE t # p
      BY <1>5, <2>1, <3>2
    <3>. QED  BY <3>1, <3>2
  <2>. QED  BY <1>6, <1>7, <2>1, <2>2
<1>9. \A o \in Objects : Run(k[o], b[o]) /\ b[o] + Len(k[o]) <= g2[Source(Mate(o))].sent
  <2>. TAKE o \in Objects
  <2>1. Source(Mate(o)) \in Parties
    BY Ways
  <2>. QED  BY <1>1, <1>6, <2>1 DEF Lies
<1>10. \A o \in Objects : s[Opposite(o)] => c[Opposite(o)] + Len(q2[Opposite(o)]) = b[o]
  BY <1>1, <1>7, Ways DEF Lies
<1>11. \A o \in Objects : s[o] => b[o] + Len(k[o]) = c[Mate(o)]
  <2>. TAKE o \in Objects
  <2>1. Mate(o) # p /\ Mate(o) \in Readers
    <3>1. Mate(o) \in Objects /\ Mate(o) \in Readers
      BY Ways
    <3>. QED  BY <1>2, <3>1
  <2>. QED  BY <1>1, <1>5, <2>1 DEF Lies
<1>12. \A t \in Parties : s[Opposite(t)] => c[Opposite(t)] + Len(q2[Opposite(t)]) = g2[t].sent
  <2>. TAKE t \in Parties
  <2>1. Opposite(t) \in Readers
    BY Ways DEF Readers
  <2>. QED  BY <1>1, <1>6, <1>7, <2>1 DEF Lies
<1>13. \A t \in Parties : c[t] = Len(g2[t].got)
  <2>. TAKE t \in Parties
  <2>1. CASE t = p
    BY <1>2, <1>3, <1>4, <1>5, <2>1
  <2>2. CASE t # p
    <3>1. t \in Readers
      BY Ways
    <3>. QED  BY <1>1, <1>5, <2>2, <3>1 DEF Lies
  <2>. QED  BY <2>1, <2>2
<1>14. Flow(q2, k, s, g2)
  BY <1>5, <1>8, <1>9, <1>10, <1>11, <1>12, <1>13 DEF Flow, Lies
<1>. QED  BY <1>3, <1>4, <1>14

-------------------------------------------------------------------------------
(* The buffers of the proxy. *)

\* The names of the ends.
LEMMA WayNames ==
  /\ \A r \in Readers : /\ WayLink(r) \in LinkNames /\ WayEnd(r) \in Ends
                        /\ WayLink(Opposite(r)) = WayLink(r) /\ WayEnd(Opposite(r)) = Peer(WayEnd(r))
                        /\ \A t \in Readers : WayLink(t) = WayLink(r) /\ WayEnd(t) = WayEnd(r) => t = r
  /\ \A o \in Objects : WayLink(o) = Link(o) /\ WayEnd(o) = EndOf(o)
  /\ \A p \in Parties : WayLink(p) = LinkOf(p) /\ WayEnd(p) = PartyEnd(p)
<1>. /\ Readers = {"CD", "CH", "SH", "SD", "application", "origin"} /\ Parties = {"application", "origin"}
     /\ "app" \in LinkNames /\ "relay" \in LinkNames /\ "org" \in LinkNames
     /\ "near" \in Ends /\ "far" \in Ends
  BY Names DEF Readers, Parties, LinkNames, Ends
<1>1. /\ Opposite("application") = "CD" /\ Opposite("CD") = "application" /\ Opposite("CH") = "SH"
      /\ Opposite("SH") = "CH" /\ Opposite("SD") = "origin" /\ Opposite("origin") = "SD"
  BY DEF Opposite
<1>2. /\ WayLink("CD") = "app" /\ WayLink("CH") = "relay" /\ WayLink("SH") = "relay"
      /\ WayLink("SD") = "org" /\ WayLink("application") = "app" /\ WayLink("origin") = "org"
  BY Names DEF WayLink, LinkOf, Parties
<1>3. /\ WayEnd("CD") = "far" /\ WayEnd("CH") = "near" /\ WayEnd("SH") = "far"
      /\ WayEnd("SD") = "near" /\ WayEnd("application") = "near" /\ WayEnd("origin") = "far"
  BY Names DEF WayEnd, PartyEnd, Parties
<1>4. Peer("near") = "far" /\ Peer("far") = "near"
  BY DEF Peer
<1>5. \A r \in Readers : /\ WayLink(r) \in LinkNames /\ WayEnd(r) \in Ends
                         /\ WayLink(Opposite(r)) = WayLink(r) /\ WayEnd(Opposite(r)) = Peer(WayEnd(r))
  BY <1>1, <1>2, <1>3, <1>4
<1>6. \A r \in Readers, t \in Readers : WayLink(t) = WayLink(r) /\ WayEnd(t) = WayEnd(r) => t = r
  BY <1>2, <1>3
<1>7. \A o \in Objects : WayLink(o) = Link(o) /\ WayEnd(o) = EndOf(o)
  BY Names DEF WayLink, WayEnd, Parties
<1>8. \A p \in Parties : WayLink(p) = LinkOf(p) /\ WayEnd(p) = PartyEnd(p)
  BY DEF WayLink, WayEnd
<1>. QED  BY <1>5, <1>6, <1>7, <1>8

-------------------------------------------------------------------------------
(* What loses data at most. *)

\* What can happen to one end without data being sent or read.
LEMMA EndsFade ==
  ASSUME NEW i \in WireEnd
  PROVE  /\ EndFades(i, i) /\ EndFades(i, ClosedEnd)
         /\ EndFades(i, [i EXCEPT !.error = FALSE]) /\ EndFades(i, [i EXCEPT !.eof = TRUE])
         /\ i.state # "none" => EndFades(i, ResetEnd(i))
         /\ \A v \in States : v \notin {"none", "closed"} /\ i.state # "closed"
              => EndFades(i, [i EXCEPT !.state = v])
<1>1. i \in End
  BY DEF WireEnd
<1>2. EndFades(i, i)
  BY DEF EndFades
<1>3. EndFades(i, ClosedEnd)
  BY DEF EndFades, ClosedEnd, NoEnd
<1>4. EndFades(i, [i EXCEPT !.error = FALSE]) /\ EndFades(i, [i EXCEPT !.eof = TRUE])
  BY <1>1 DEF EndFades, End
<1>5. i.state # "none" => EndFades(i, ResetEnd(i))
  BY <1>1 DEF EndFades, ResetEnd, End
<1>6. ASSUME NEW v \in States, v \notin {"none", "closed"}, i.state # "closed"
      PROVE  EndFades(i, [i EXCEPT !.state = v])
  BY <1>1, <1>6 DEF EndFades, End
<1>. QED  BY <1>2, <1>3, <1>4, <1>5, <1>6

\* EndFades is transitive.
LEMMA EndFadesTwice ==
  ASSUME NEW i, NEW j, NEW k, EndFades(i, j), EndFades(j, k)
  PROVE  EndFades(i, k)
BY DEF EndFades

\* Fades is transitive.
LEMMA FadesTwice ==
  ASSUME NEW l, NEW j, NEW k, Fades(l, j), Fades(j, k)
  PROVE  Fades(l, k)
<1>1. \A e \in Ends : EndFades(l[e], k[e])
  <2>. TAKE e \in Ends
  <2>1. EndFades(l[e], j[e]) /\ EndFades(j[e], k[e])
    BY DEF Fades
  <2>. QED  BY <2>1, EndFadesTwice
<1>. QED  BY <1>1 DEF Fades

\* One end of a link fades.
LEMMA OneEndFades ==
  ASSUME NEW l \in Wire, NEW e \in Ends, NEW k \in WireEnd, EndFades(l[e], k),
         k.state \in {l[e].state, "closed"}
  PROVE  Fades(l, [l EXCEPT ![e] = k])
<1>. DEFINE m == [l EXCEPT ![e] = k]
<1>1. /\ m \in Wire /\ m[e] = k /\ m[Peer(e)] = l[Peer(e)] /\ l[Peer(e)] \in WireEnd
      /\ Peer(e) \in Ends /\ \A f \in Ends : f = e \/ f = Peer(e)
  BY WireFields, EndChanges DEF Ends
<1>. HIDE DEF m
<1>2. EndFades(l[Peer(e)], m[Peer(e)])
  BY <1>1, EndsFade
<1>3. \A f \in Ends : EndFades(l[f], m[f])
  BY <1>1, <1>2
<1>4. Joined(l) => Joined(m)
  BY <1>1 DEF Joined, EndFades, Ends, Peer
<1>5. Fades(l, m)
  BY <1>1, <1>3, <1>4 DEF Fades
<1>. QED  BY <1>5 DEF m

\* An end is closed; what waited there may have been read before.
LEMMA CloseFades ==
  ASSUME NEW l \in Wire, NEW e \in Ends
  PROVE  Fades(l, Close(l, e))
<1>. DEFINE p == Peer(e)
            m == [l EXCEPT ![e] = ClosedEnd]
            j == [l[p] EXCEPT !.eof = TRUE]
<1>1. p \in Ends /\ p # e /\ l[p] \in WireEnd /\ l[e] \in WireEnd
  BY WireFields
<1>2. m \in Wire /\ m[p] = l[p]
  BY ConstantEnds, EndChanges
<1>3. Close(l, e) = IF ~ HasFd(l, e) THEN l
                    ELSE IF l[p].state \notin {"open", "queued"} THEN m
                    ELSE IF l[e].in # <<>> THEN [m EXCEPT ![p] = ResetEnd(l[p])]
                    ELSE [m EXCEPT ![p] = j]
  BY <1>2 DEF Close, ClosedEnd
<1>4. Fades(l, l)
  BY EndsFade, WireFields DEF Fades
<1>5. Fades(l, m)
  BY <1>1, ConstantEnds, EndsFade, OneEndFades
<1>6. /\ j \in WireEnd /\ j.state = l[p].state
      /\ ResetEnd(l[p]) \in WireEnd /\ ResetEnd(l[p]).state = l[p].state
  BY <1>1, ResetEndFacts, EndMarks
<1>7. EndFades(l[p], j) /\ (l[p].state # "none" => EndFades(l[p], ResetEnd(l[p])))
  BY <1>1, EndsFade
<1>. HIDE DEF j, m, p
<1>8. Fades(m, [m EXCEPT ![p] = j]) /\ (l[p].state # "none" => Fades(m, [m EXCEPT ![p] = ResetEnd(l[p])]))
  BY <1>1, <1>2, <1>6, <1>7, OneEndFades
<1>. QED  BY <1>3, <1>4, <1>5, <1>8, FadesTwice

\* The other calls on a link, and the network, lose data at most.
LEMMA CallsFade ==
  ASSUME NEW l \in Wire
  PROVE  /\ Fades(l, l) /\ Fades(l, Break(l)) /\ (Shaped(l) => Fades(l, Abandon(l)))
         /\ \A e \in Ends : Fades(l, ErrorRead(l, e))
         /\ l["near"].state # "none" => Fades(l, Refuse(l))
         /\ l["far"].state = "queued" => Fades(l, Accept(l))
         /\ l["near"].state = "connecting" /\ l["far"].state = "none" => Fades(l, Establish(l))
<1>0. /\ l["near"] \in WireEnd /\ l["far"] \in WireEnd /\ "near" \in Ends /\ "far" \in Ends
      /\ Peer("near") = "far" /\ Peer("far") = "near"
      /\ \A e \in Ends : l[e] \in WireEnd /\ (e = "near" \/ e = "far")
  BY WireFields DEF Ends
<1>1. Fades(l, l)
  BY <1>0, EndsFade DEF Fades
<1>2. Fades(l, Break(l))
  <2>1. Break(l) \in Wire /\ \A e \in Ends : Break(l)[e] = IF HasFd(l, e) THEN ResetEnd(l[e]) ELSE l[e]
    BY LinkData, <1>0 DEF SameStates, Break
  <2>2. \A e \in Ends : EndFades(l[e], Break(l)[e]) /\ Break(l)[e].state = l[e].state
    BY <1>0, <2>1, EndsFade, ResetEndFacts DEF HasFd
  <2>. QED  BY <1>0, <2>1, <2>2 DEF Fades, Joined
<1>3. Shaped(l) => Fades(l, Abandon(l))
  <2>. DEFINE m == [l EXCEPT !["near"] = ResetEnd(l["near"])]
              k == [m EXCEPT !["far"] = ClosedEnd]
              i == [l EXCEPT !["far"] = ClosedEnd]
  <2>1. Abandon(l) = IF l["far"].state # "queued" THEN l ELSE k
    BY DEF Abandon, ClosedEnd
  <2>2. CASE l["far"].state = "queued" /\ Shaped(l)
    <3>1. Fades(l, m) /\ m \in Wire
      <4>1. l["near"].state # "none"
        BY <2>2 DEF Shaped
      <4>. QED  BY <1>0, <4>1, ResetEndFacts, EndsFade, OneEndFades, EndChanges
    <3>2. m["far"] \in WireEnd
      BY <1>0, <3>1, WireFields
    <3>. HIDE DEF m
    <3>3. Fades(m, k)
      BY <1>0, <3>1, <3>2, ConstantEnds, EndsFade, OneEndFades
    <3>. QED  BY <2>1, <2>2, <3>1, <3>3, FadesTwice
  <2>. QED  BY <1>1, <2>1, <2>2
<1>4. \A e \in Ends : Fades(l, ErrorRead(l, e))
  <2>. TAKE e \in Ends
  <2>. DEFINE i == [l[e] EXCEPT !.error = FALSE]
  <2>1. ErrorRead(l, e) = [l EXCEPT ![e] = i]
    BY DEF ErrorRead
  <2>2. i \in WireEnd /\ i.state = l[e].state /\ EndFades(l[e], i)
    BY <1>0, EndMarks, EndsFade
  <2>. HIDE DEF i
  <2>. QED  BY <2>1, <2>2, OneEndFades
<1>5. l["near"].state # "none" => Fades(l, Refuse(l))
  BY <1>0, ResetEndFacts, EndsFade, OneEndFades DEF Refuse
<1>. DEFINE OpenFar == [l["far"] EXCEPT !.state = "open"]
            Queued == [l["far"] EXCEPT !.state = "queued"]
            OpenNear == [l["near"] EXCEPT !.state = "open"]
            m == [l EXCEPT !["near"] = OpenNear]
<1>6. /\ OpenFar \in WireEnd /\ OpenFar.state = "open" /\ Queued \in WireEnd /\ Queued.state = "queued"
      /\ OpenNear \in WireEnd /\ OpenNear.state = "open"
  BY <1>0, EndState DEF States
<1>7. /\ l["far"].state # "closed" => EndFades(l["far"], OpenFar) /\ EndFades(l["far"], Queued)
      /\ l["near"].state # "closed" => EndFades(l["near"], OpenNear)
  BY <1>0, EndsFade DEF States
<1>8. EndFades(l["near"], l["near"])
  BY <1>0, EndsFade
<1>. HIDE DEF OpenFar, Queued, OpenNear
<1>9. /\ m \in Wire /\ m["near"] = OpenNear /\ m["far"] = l["far"]
  BY <1>0, <1>6, EndChanges
<1>10. l["far"].state = "queued" => Fades(l, Accept(l))
  <2>. DEFINE k == [l EXCEPT !["far"] = OpenFar]
  <2>1. Accept(l) = k
    BY DEF Accept, OpenFar
  <2>2. k \in Wire /\ k["far"] = OpenFar /\ k["near"] = l["near"]
    BY <1>0, <1>6, EndChanges
  <2>. HIDE DEF k
  <2>. QED  BY <1>0, <1>6, <1>7, <1>8, <2>1, <2>2 DEF Fades, Joined
<1>11. l["near"].state = "connecting" /\ l["far"].state = "none" => Fades(l, Establish(l))
  <2>. DEFINE k == [m EXCEPT !["far"] = Queued]
  <2>1. Establish(l) = k
    BY DEF Establish, OpenNear, Queued
  <2>. HIDE DEF m
  <2>2. k \in Wire /\ k["far"] = Queued /\ k["near"] = OpenNear
    BY <1>0, <1>6, <1>9, EndChanges
  <2>. HIDE DEF k
  <2>. QED  BY <1>0, <1>6, <1>7, <1>8, <2>1, <2>2 DEF Fades, Joined
<1>. QED  BY <1>1, <1>2, <1>3, <1>4, <1>5, <1>10, <1>11

-------------------------------------------------------------------------------
(* A proxy that loses data at most. *)

\* The buffers of the ways.
LEMMA Cells ==
  ASSUME NEW x \in Proxy
  PROVE  /\ QOf(x) \in Queues /\ KOf(x) \in Buffers
         /\ \A r \in Readers : /\ QOf(x)[r] = Arrived(x, r) /\ Arrived(x, r) \in Seq(Int)
                               /\ SOf(x)[r] = Stands(x, r)
                               /\ At(x, r) \in WireEnd /\ At(x, r).in \in Seq(Int)
         /\ \A o \in Objects : /\ KOf(x)[o] = Kept(x, o) /\ Kept(x, o) \in Seq(Int)
                               /\ x.objects[o] \in Object /\ x.objects[o].wb \in Seq(Int)
                               /\ At(x, o) = x.links[Link(o)][EndOf(o)]
<1>1. \A r \in Readers : At(x, r) \in WireEnd /\ At(x, r).in \in Seq(Int)
  BY ProxyFields, WayNames, WireFields DEF At
<1>2. \A o \in Objects : /\ x.objects[o] \in Object /\ x.objects[o].wb \in Seq(Int)
                         /\ At(x, o) = x.links[Link(o)][EndOf(o)]
  BY ProxyFields, ObjectFields, WayNames DEF At
<1>3. \A u \in Seq(Int) : u # <<>> => Tail(u) \in Seq(Int)
  OBVIOUS
<1>4. <<>> \in Seq(Int)
  OBVIOUS
<1>5. \A r \in Readers : Arrived(x, r) \in Seq(Int)
  BY <1>1, <1>3, <1>4 DEF Arrived
<1>6. \A o \in Objects : Kept(x, o) \in Seq(Int)
  BY <1>2, <1>4 DEF Kept
<1>7. \A r \in Readers : QOf(x)[r] = Arrived(x, r) /\ SOf(x)[r] = Stands(x, r)
  BY DEF QOf, SOf
<1>8. \A o \in Objects : KOf(x)[o] = Kept(x, o)
  BY DEF KOf
<1>9. QOf(x) \in Queues /\ KOf(x) \in Buffers
  BY <1>5, <1>6 DEF QOf, KOf, Queues, Buffers
<1>. QED  BY <1>1, <1>2, <1>5, <1>6, <1>7, <1>8, <1>9

\* Fading is reflexive.
LEMMA FadingItself ==
  ASSUME NEW x \in Proxy  PROVE Fading(x, x)
<1>1. \A l \in LinkNames : Fades(x.links[l], x.links[l])
  BY ProxyFields, CallsFade
<1>. QED  BY <1>1 DEF Fading, Keeps

\* Fading is transitive.
LEMMA FadingTwice ==
  ASSUME NEW x, NEW y, NEW z, Fading(x, y), Fading(y, z)
  PROVE  Fading(x, z)
<1>1. \A l \in LinkNames : Fades(x.links[l], z.links[l])
  <2>. TAKE l \in LinkNames
  <2>1. Fades(x.links[l], y.links[l]) /\ Fades(y.links[l], z.links[l])
    BY DEF Fading
  <2>. QED  BY <2>1, FadesTwice
<1>. QED  BY <1>1 DEF Fading, Keeps

\* What fades still means the same.
LEMMA FadingMeant ==
  ASSUME NEW x, NEW y, Meant(x), Fading(x, y)
  PROVE  Meant(y)
<1>1. \A l \in LinkNames, e \in Ends : EndFades(x.links[l][e], y.links[l][e])
  BY DEF Fading, Fades
<1>2. \A l \in LinkNames : Joined(y.links[l])
  BY DEF Fading, Fades, Meant
<1>3. \A o \in Objects : Keeps(x.objects[o], y.objects[o])
  BY DEF Fading
<1>4. "CH" \in Objects /\ "SH" \in Objects /\ "relay" \in LinkNames /\ "near" \in Ends /\ "far" \in Ends
  BY Names DEF LinkNames, Ends
<1>5. /\ y.objects["CH"].wb = x.objects["CH"].wb /\ y.objects["CH"].ack = x.objects["CH"].ack
      /\ y.objects["SH"].ack = x.objects["SH"].ack /\ y.objects["SH"].meta = x.objects["SH"].meta
  BY <1>3, <1>4 DEF Keeps
<1>6. /\ EndFades(x.links["relay"]["near"], y.links["relay"]["near"])
      /\ EndFades(x.links["relay"]["far"], y.links["relay"]["far"])
  BY <1>1, <1>4
<1>7. AllMeta(<<>>)
  BY DEF AllMeta
<1>8. ~ y.objects["SH"].meta => AllMeta(y.objects["CH"].wb) /\ AllMeta(y.links["relay"]["far"].in)
  BY <1>5, <1>6, <1>7 DEF Meant, EndFades
<1>9. ASSUME ~ y.objects["CH"].ack
      PROVE  LET near == y.links["relay"]["near"]
                 far == y.links["relay"]["far"]
             IN  /\ near.in # <<>> => near.in[1] <= 0
                 /\ y.objects["SH"].ack /\ near.in = <<>> =>
                      near.state = "closed" \/ far.state = "closed" \/ (far.reset /\ far.state # "none")
  BY <1>5, <1>6, <1>9 DEF Meant, EndFades
<1>10. \A l \in LinkNames, e \in Ends : y.links[l][e].state \in {"none", "closed"} => y.links[l][e].in = <<>>
  <2>. TAKE l \in LinkNames, e \in Ends
  <2>1. x.links[l][e].state \in {"none", "closed"} => x.links[l][e].in = <<>>
    BY DEF Meant
  <2>2. EndFades(x.links[l][e], y.links[l][e])
    BY <1>1
  <2>. QED  BY <2>1, <2>2 DEF EndFades
<1>11. \A o \in Objects : y.objects[o].life = "none" => Blank(y.objects[o])
  BY <1>3 DEF Meant, Keeps, Blank
<1>. QED  BY <1>2, <1>8, <1>9, <1>10, <1>11 DEF Meant

\* What fades stays or ends.
LEMMA FadingCells ==
  ASSUME NEW x, NEW y, Meant(x), Fading(x, y)
  PROVE  /\ \A r \in Readers : /\ Stands(y, r) => Stands(x, r)
                               /\ Arrived(y, r) = Arrived(x, r) \/ (~ Stands(y, r) /\ Arrived(y, r) = <<>>)
                               /\ ~ Stands(y, r) => Arrived(y, r) = <<>>
         /\ \A o \in Objects : Kept(y, o) = Kept(x, o)
<1>1. \A r \in Readers : EndFades(At(x, r), At(y, r))
  BY WayNames DEF Fading, Fades, At
<1>2. /\ y.objects["CH"].wb = x.objects["CH"].wb /\ y.objects["CH"].ack = x.objects["CH"].ack
      /\ y.objects["SH"].meta = x.objects["SH"].meta
  BY Names DEF Fading, Keeps
<1>3. \A r \in Readers : At(y, r).state = "closed" => At(y, r).in = <<>>
  BY FadingMeant, WayNames DEF Meant, At
<1>4. \A o \in Objects : Kept(y, o) = Kept(x, o)
  BY <1>2 DEF Fading, Keeps, Kept
<1>5. ASSUME NEW r \in Readers
      PROVE  /\ Stands(y, r) => Stands(x, r)
             /\ Arrived(y, r) = Arrived(x, r) \/ (~ Stands(y, r) /\ Arrived(y, r) = <<>>)
             /\ ~ Stands(y, r) => Arrived(y, r) = <<>>
  <2>1. EndFades(At(x, r), At(y, r)) /\ (At(y, r).state = "closed" => At(y, r).in = <<>>)
    BY <1>1, <1>3
  <2>. QED  BY <1>2, <2>1 DEF EndFades, Stands, Arrived
<1>. QED  BY <1>4, <1>5

\* So the flow goes on: with what is on its way to a buffer, and without it once that buffer
\* cannot be emptied any more.
LEMMA FadingFlows ==
  ASSUME NEW x \in Proxy, NEW y, Fading(x, y), NEW g \in PartyTypes, NEW o \in Objects, NEW u \in Seq(Int),
         FlowsWith(x, g, o, u)
  PROVE  FlowsWith(y, g, o, u)
<1>. DEFINE k == [KOf(x) EXCEPT ![o] = @ \o u]
            k2 == [KOf(y) EXCEPT ![o] = @ \o u]
<1>1. y \in Proxy /\ Meant(x) /\ Meant(y) /\ Flow(QOf(x), k, SOf(x), g)
  BY FadingMeant DEF Fading, FlowsWith
<1>2. QOf(x) \in Queues /\ QOf(y) \in Queues /\ KOf(x) \in Buffers /\ KOf(y) \in Buffers
  BY <1>1, Cells
<1>3. KOf(y) = KOf(x)
  BY <1>1, FadingCells DEF KOf
<1>4. k \in Buffers /\ k2 = k
  <2>1. KOf(x)[o] \o u \in Seq(Int)
    BY <1>2 DEF Buffers
  <2>. QED  BY <1>2, <1>3, <2>1 DEF Buffers
<1>. HIDE DEF k, k2
<1>5. Wanes(QOf(x), k, SOf(x), QOf(y), k2, SOf(y))
  <2>1. \A r \in Readers : /\ QOf(x)[r] = Arrived(x, r) /\ QOf(y)[r] = Arrived(y, r)
                           /\ SOf(x)[r] = Stands(x, r) /\ SOf(y)[r] = Stands(y, r)
    BY <1>1, Cells
  <2>2. \A r \in Readers : /\ Stands(y, r) => Stands(x, r)
                           /\ Arrived(y, r) = Arrived(x, r) \/ (~ Stands(y, r) /\ Arrived(y, r) = <<>>)
    BY <1>1, FadingCells
  <2>. QED  BY <1>4, <2>1, <2>2 DEF Wanes
<1>6. Flow(QOf(y), k2, SOf(y), g)
  BY <1>1, <1>2, <1>4, <1>5, FlowFades
<1>. QED  BY <1>1, <1>6 DEF FlowsWith, k2

\* Nothing on its way to a buffer.
LEMMA WithNothing ==
  ASSUME NEW x \in Proxy, NEW g, NEW o \in Objects
  PROVE  FlowsWith(x, g, o, <<>>) <=> Flows(x, g)
<1>1. KOf(x) \in Buffers
  BY Cells
<1>2. KOf(x)[o] \in Seq(Int)
  BY <1>1 DEF Buffers
<1>3. KOf(x)[o] \o <<>> = KOf(x)[o]
  BY <1>2
<1>4. [KOf(x) EXCEPT ![o] = @ \o <<>>] = KOf(x)
  BY <1>1, <1>3 DEF Buffers
<1>. QED  BY <1>4 DEF FlowsWith, Flows

\* The flow goes on if nothing is on its way to a buffer.
LEMMA FadingStill ==
  ASSUME NEW x \in Proxy, NEW y, Fading(x, y), NEW g \in PartyTypes, Flows(x, g)
  PROVE  Flows(y, g)
<1>1. y \in Proxy /\ "CD" \in Objects /\ <<>> \in Seq(Int)
  BY Names DEF Fading
<1>2. FlowsWith(x, g, "CD", <<>>)
  BY <1>1, WithNothing
<1>3. FlowsWith(y, g, "CD", <<>>)
  BY <1>1, <1>2, FadingFlows
<1>. QED  BY <1>1, <1>3, WithNothing

\* What cannot be emptied any more may lose its end.
LEMMA Dropped ==
  ASSUME NEW x \in Proxy, NEW g \in PartyTypes, NEW o \in Objects, NEW u \in Seq(Int),
         FlowsWith(x, g, o, u), ~ Stands(x, o)
  PROVE  Flows(x, g)
<1>. DEFINE k == [KOf(x) EXCEPT ![o] = @ \o u]
<1>1. Flow(QOf(x), k, SOf(x), g) /\ Meant(x)
  BY DEF FlowsWith
<1>2. QOf(x) \in Queues /\ KOf(x) \in Buffers /\ ~ SOf(x)[o]
  <2>1. o \in Readers
    BY Ways
  <2>. QED  BY <2>1, Cells
<1>3. KOf(x)[o] \in Seq(Int) /\ KOf(x)[o] \o u \in Seq(Int)
  BY <1>2 DEF Buffers
<1>4. k \in Buffers /\ k[o] = KOf(x)[o] \o u /\ \A t \in Objects : t # o => KOf(x)[t] = k[t]
  BY <1>2, <1>3 DEF Buffers
<1>. HIDE DEF k
<1>5. Wanes(QOf(x), k, SOf(x), QOf(x), KOf(x), SOf(x))
  BY <1>2, <1>3, <1>4 DEF Wanes
<1>6. Flow(QOf(x), KOf(x), SOf(x), g)
  BY <1>1, <1>2, <1>4, <1>5, FlowFades
<1>. QED  BY <1>1, <1>6 DEF Flows

\* They are lost if r closes.
LEMMA LateLost ==
  ASSUME NEW x \in Proxy, NEW y, Fading(x, y), NEW g \in PartyTypes, NEW r \in Objects, NEW u \in Seq(Int),
         FlowsLate(x, g, r, u), ~ Stands(y, r)
  PROVE  Flows(y, g)
<1>. DEFINE q == [QOf(x) EXCEPT ![r] = u \o @]
<1>1. y \in Proxy /\ Meant(x) /\ Meant(y) /\ Flow(q, KOf(x), SOf(x), g) /\ r \in Readers
  BY FadingMeant, Ways DEF Fading, FlowsLate
<1>2. QOf(x) \in Queues /\ QOf(y) \in Queues /\ KOf(x) \in Buffers /\ KOf(y) \in Buffers
  BY <1>1, Cells
<1>3. KOf(y) = KOf(x)
  BY <1>1, FadingCells DEF KOf
<1>4. q \in Queues /\ \A t \in Readers : t # r => q[t] = QOf(x)[t]
  <2>1. u \o QOf(x)[r] \in Seq(Int)
    BY <1>1, <1>2 DEF Queues
  <2>. QED  BY <1>2, <2>1 DEF Queues
<1>. HIDE DEF q
<1>5. Wanes(q, KOf(x), SOf(x), QOf(y), KOf(y), SOf(y))
  <2>1. \A t \in Readers : /\ QOf(x)[t] = Arrived(x, t) /\ QOf(y)[t] = Arrived(y, t)
                           /\ SOf(x)[t] = Stands(x, t) /\ SOf(y)[t] = Stands(y, t)
    BY <1>1, Cells
  <2>2. \A t \in Readers : /\ Stands(y, t) => Stands(x, t)
                           /\ Arrived(y, t) = Arrived(x, t) \/ (~ Stands(y, t) /\ Arrived(y, t) = <<>>)
                           /\ ~ Stands(y, t) => Arrived(y, t) = <<>>
    BY <1>1, FadingCells
  <2>. QED  BY <1>3, <1>4, <2>1, <2>2 DEF Wanes
<1>6. Flow(QOf(y), KOf(y), SOf(y), g)
  BY <1>1, <1>2, <1>4, <1>5, FlowFades
<1>. QED  BY <1>1, <1>6 DEF Flows

\* They go to the mate of r, or nobody misses them.
LEMMA LateGoesOn ==
  ASSUME NEW x \in Proxy, NEW g \in PartyTypes, NEW r \in Objects, NEW u \in Seq(Int), FlowsLate(x, g, r, u)
  PROVE  IF Stands(x, Mate(r)) THEN FlowsWith(x, g, Mate(r), u) ELSE Flows(x, g)
<1>. DEFINE q == [QOf(x) EXCEPT ![r] = u \o @]
            o == Mate(r)
            k2 == IF SOf(x)[o] THEN [KOf(x) EXCEPT ![o] = @ \o u] ELSE KOf(x)
<1>1. Meant(x) /\ Flow(q, KOf(x), SOf(x), g)
  BY DEF FlowsLate
<1>2. r \in Readers /\ o \in Objects /\ o \in Readers
  BY Ways
<1>3. QOf(x) \in Queues /\ KOf(x) \in Buffers /\ SOf(x)[o] = Stands(x, o)
  BY <1>2, Cells
<1>4. KOf(x)[o] \in Seq(Int) /\ QOf(x)[r] \in Seq(Int) /\ u \o QOf(x)[r] \in Seq(Int)
  BY <1>2, <1>3 DEF Buffers, Queues
<1>5. /\ q \in Queues /\ q[r] = u \o QOf(x)[r] /\ \A t \in Readers : t # r => QOf(x)[t] = q[t]
  BY <1>2, <1>3, <1>4 DEF Queues
<1>6. /\ k2[o] = IF SOf(x)[o] THEN KOf(x)[o] \o u ELSE KOf(x)[o]
      /\ \A t \in Objects : t # o => k2[t] = KOf(x)[t]
  BY <1>2, <1>3 DEF Buffers
<1>. HIDE DEF q, k2
<1>7. Flow(QOf(x), k2, SOf(x), g)
  <2>. DEFINE v == QOf(x)[r]
              q2 == QOf(x)
              k == KOf(x)
              s == SOf(x)
  <2>1. /\ q \in Queues /\ k \in Buffers /\ v \in Seq(Int) /\ q[r] = u \o v /\ Flow(q, k, s, g)
        /\ q2[r] = v /\ (\A t \in Readers : t # r => q2[t] = q[t])
        /\ (\A t \in Objects : t # Mate(r) => k2[t] = k[t])
        /\ k2[Mate(r)] = IF s[Mate(r)] THEN k[Mate(r)] \o u ELSE k[Mate(r)]
    BY <1>1, <1>3, <1>4, <1>5, <1>6
  <2>. HIDE DEF v, q2, k, s
  <2>2. Flow(q2, k2, s, g)
    BY <2>1, FlowReads, ZenonT(60)
  <2>. QED  BY <2>2 DEF q2, s
<1>. QED  BY <1>1, <1>3, <1>7 DEF FlowsWith, Flows, k2

-------------------------------------------------------------------------------
(* The calls that lose data at most. *)

\* One link changes, and of the objects only what holds no data.
LEMMA OneFading ==
  ASSUME NEW x \in Proxy, NEW y \in Proxy, NEW l \in LinkNames, Fades(x.links[l], y.links[l]),
         \A m \in LinkNames : m # l => y.links[m] = x.links[m],
         \A o \in Objects : Keeps(x.objects[o], y.objects[o])
  PROVE  Fading(x, y)
<1>1. \A m \in LinkNames : Fades(x.links[m], y.links[m])
  BY ProxyFields, CallsFade
<1>. QED  BY <1>1 DEF Fading

\* Nothing of the links and of the data of the objects changes.
LEMMA StillFading ==
  ASSUME NEW x \in Proxy, NEW y \in Proxy, y.links = x.links,
         \A o \in Objects : Keeps(x.objects[o], y.objects[o])
  PROVE  Fading(x, y)
<1>1. \A m \in LinkNames : Fades(x.links[m], y.links[m])
  BY ProxyFields, CallsFade
<1>. QED  BY <1>1 DEF Fading

\* An object keeps what it has.
LEMMA KeepsItself ==
  \A k : Keeps(k, k)
BY DEF Keeps

\* One object changes.
LEMMA ObjectFading ==
  ASSUME NEW x \in Proxy, NEW o \in Objects, NEW k \in Object, Keeps(x.objects[o], k)
  PROVE  LET y == SetObject(x, o, k)
         IN  /\ Fading(x, y) /\ y \in Proxy /\ y.links = x.links /\ y.hosts = x.hosts
             /\ y.objects[o] = k /\ \A t \in Objects : t # o => y.objects[t] = x.objects[t]
<1>. DEFINE y == SetObject(x, o, k)
<1>1. /\ y \in Proxy /\ y.links = x.links /\ y.hosts = x.hosts
      /\ y.objects[o] = k /\ \A t \in Objects : t # o => y.objects[t] = x.objects[t]
  BY ObjectSet
<1>. HIDE DEF y
<1>2. \A t \in Objects : Keeps(x.objects[t], y.objects[t])
  BY <1>1, KeepsItself
<1>3. Fading(x, y)
  BY <1>1, <1>2, StillFading
<1>. QED  BY <1>1, <1>3 DEF y

\* One link changes.
LEMMA LinkFading ==
  ASSUME NEW x \in Proxy, NEW l \in LinkNames, NEW k, Fades(x.links[l], k)
  PROVE  Fading(x, SetLink(x, l, k))
<1>. DEFINE y == SetLink(x, l, k)
<1>1. k \in Wire
  BY DEF Fades
<1>2. /\ y \in Proxy /\ y.objects = x.objects /\ y.links[l] = k
      /\ \A m \in LinkNames : m # l => y.links[m] = x.links[m]
  BY <1>1, LinkSet
<1>. HIDE DEF y
<1>3. Fading(x, y)
  BY <1>2, KeepsItself, OneFading
<1>. QED  BY <1>3 DEF y

\* An object closes.
LEMMA CloseAloneFading ==
  ASSUME NEW x \in Proxy, NEW o \in Objects
  PROVE  /\ Fading(x, CloseAlone(x, o)) /\ CloseAlone(x, o) \in Proxy
         /\ Others(x, CloseAlone(x, o), o) /\ Closed(x.objects[o], CloseAlone(x, o).objects[o])
         /\ HasSocket(x, o) => ~ Stands(CloseAlone(x, o), o)
<1>. DEFINE y == CloseAlone(x, o)
<1>1. /\ y \in Proxy /\ y.links[Link(o)] = Close(x.links[Link(o)], EndOf(o))
      /\ \A m \in LinkNames : m # Link(o) => y.links[m] = x.links[m]
      /\ Others(x, y, o) /\ Closed(x.objects[o], y.objects[o])
  BY CloseAloneDoes
<1>. HIDE DEF y
<1>2. /\ Link(o) \in LinkNames /\ EndOf(o) \in Ends /\ x.links[Link(o)] \in Wire
  BY Mates, ProxyFields
<1>3. Fades(x.links[Link(o)], y.links[Link(o)])
  BY <1>1, <1>2, CloseFades
<1>4. \A t \in Objects : Keeps(x.objects[t], y.objects[t])
  <2>1. Keeps(x.objects[o], y.objects[o])
    BY <1>1 DEF Closed, Keeps
  <2>. QED  BY <1>1, <2>1, KeepsItself DEF Others
<1>5. Fading(x, y)
  BY <1>1, <1>2, <1>3, <1>4, OneFading
<1>6. HasSocket(x, o) => ~ Stands(y, o)
  BY <1>1, <1>2, CloseStates, WayNames DEF HasSocket, Stands, At
<1>. QED  BY <1>1, <1>5, <1>6 DEF y

\* The sockets of a host that ends.
LEMMA CloseSocketFades ==
  ASSUME NEW links, AllShaped(links), NEW o \in Objects
  PROVE  \A n \in LinkNames : Fades(links[n], CloseSocketOf(links, o)[n])
<1>. DEFINE e == EndOf(o)
            l == links[Link(o)]
            j == IF e = "far" THEN Abandon(l) ELSE l
            k == Close(j, e)
            y == CloseSocketOf(links, o)
<1>1. Link(o) \in LinkNames /\ e \in Ends /\ l \in Wire /\ Shaped(l) /\ links \in [LinkNames -> Wire]
  BY Mates DEF AllShaped
<1>2. y = [links EXCEPT ![Link(o)] = k]
  BY <1>1 DEF CloseSocketOf
<1>3. Fades(l, j)
  BY <1>1, CallsFade
<1>. HIDE DEF j
<1>4. Fades(j, k)
  BY <1>1, <1>3, CloseFades DEF Fades
<1>5. Fades(l, k)
  BY <1>3, <1>4, FadesTwice
<1>. HIDE DEF k
<1>6. y[Link(o)] = k /\ \A n \in LinkNames : n # Link(o) => y[n] = links[n]
  BY <1>1, <1>2
<1>. HIDE DEF y
<1>7. \A n \in LinkNames : Fades(links[n], links[n])
  BY <1>1, CallsFade
<1>. QED  BY <1>5, <1>6, <1>7 DEF y

\* Both of them.
LEMMA CloseSocketsFade ==
  ASSUME NEW links, AllShaped(links), NEW h \in Hosts
  PROVE  \A n \in LinkNames : Fades(links[n], CloseSocketsOf(links, h)[n])
<1>1. ASSUME NEW s \in Objects, NEW t \in Objects
      PROVE  \A n \in LinkNames : Fades(links[n], CloseSocketOf(CloseSocketOf(links, s), t)[n])
  <2>. DEFINE y == CloseSocketOf(links, s)
  <2>1. AllShaped(y) /\ \A n \in LinkNames : Fades(links[n], y[n])
    BY CloseSocketFacts, CloseSocketFades
  <2>. HIDE DEF y
  <2>. DEFINE z == CloseSocketOf(y, t)
  <2>2. \A n \in LinkNames : Fades(y[n], z[n])
    BY <2>1, CloseSocketFades
  <2>. HIDE DEF z
  <2>3. \A n \in LinkNames : Fades(links[n], z[n])
    <3>. TAKE n \in LinkNames
    <3>1. Fades(links[n], y[n]) /\ Fades(y[n], z[n])
      BY <2>1, <2>2
    <3>. QED  BY <3>1, FadesTwice
  <2>. QED  BY <2>3 DEF y, z
<1>. QED  BY <1>1, Names DEF CloseSocketsOf

\* The end of a host.
LEMMA EndFading ==
  ASSUME NEW x \in Proxy, NEW h \in Hosts, \A l \in LinkNames : Shaped(x.links[l])
  PROVE  /\ Fading(x, End_(x, h))
         /\ \A o \in Objects : Host(o) = h /\ StateOf(x, o) # "none" => ~ Stands(End_(x, h), o)
<1>. DEFINE links == CloseSocketsOf(x.links, h)
            y == End_(x, h)
<1>1. /\ y \in Proxy
      /\ \A t \in Objects : StateOf(y, t) = IF Host(t) = h THEN Shut(StateOf(x, t)) ELSE StateOf(x, t)
      /\ \A t \in Objects : IF Host(t) = h THEN Over(x.objects[t], y.objects[t])
                                           ELSE y.objects[t] = x.objects[t]
  BY EndDoes
<1>2. AllShaped(x.links)
  BY ProxyFields DEF AllShaped
<1>3. \A l \in LinkNames : Fades(x.links[l], links[l])
  BY <1>2, CloseSocketsFade
<1>4. y.links = links
  <2>. DEFINE objects == [t \in Objects |-> IF Host(t) = h THEN EndObject(x.objects[t]) ELSE x.objects[t]]
              c == Destroy(x.hosts[h])
  <2>1. y = [x EXCEPT !.links = links, !.objects = objects, !.hosts[h] = c]
    BY DEF End_
  <2>. HIDE DEF links, objects, c, y
  <2>. QED  BY <2>1 DEF Proxy
<1>. HIDE DEF links, y
<1>5. \A t \in Objects : Keeps(x.objects[t], y.objects[t])
  BY <1>1, KeepsItself DEF Over, Keeps
<1>6. Fading(x, y)
  BY <1>1, <1>3, <1>4, <1>5 DEF Fading
<1>7. \A o \in Objects : Host(o) = h /\ StateOf(x, o) # "none" => ~ Stands(y, o)
  BY <1>1, WayNames DEF Stands, At, StateOf, Shut
<1>. QED  BY <1>6, <1>7 DEF y

-------------------------------------------------------------------------------
(* Data that go on. *)

\* Parts of what is put together.
LEMMA Joints ==
  ASSUME NEW u \in Seq(Int)
  PROVE  /\ u \o <<>> = u /\ <<>> \o u = u /\ <<>> \in Seq(Int)
         /\ \A n \in 0 .. Len(u) : /\ SubSeq(u, 1, n) \in Seq(Int) /\ SubSeq(u, n + 1, Len(u)) \in Seq(Int)
                                   /\ SubSeq(u, 1, n) \o SubSeq(u, n + 1, Len(u)) = u
                                   /\ n = 0 => SubSeq(u, 1, n) = <<>>
         /\ SubSeq(u, 1, Len(u)) = u /\ SubSeq(u, Len(u) + 1, Len(u)) = <<>>
<1>1. u \o <<>> = u /\ <<>> \o u = u /\ <<>> \in Seq(Int)
  OBVIOUS
<1>2. Len(u) \in Nat
  BY LenProperties
<1>3. ASSUME NEW n \in 0 .. Len(u)
      PROVE  /\ SubSeq(u, 1, n) \in Seq(Int) /\ SubSeq(u, n + 1, Len(u)) \in Seq(Int)
             /\ SubSeq(u, 1, n) \o SubSeq(u, n + 1, Len(u)) = u
             /\ n = 0 => SubSeq(u, 1, n) = <<>>
  <2>1. /\ SubSeq(u, 1, n) \in Seq(Int) /\ Len(SubSeq(u, 1, n)) = n
        /\ SubSeq(u, n + 1, Len(u)) \in Seq(Int)
    BY Split
  <2>2. SubSeq(u, 1, n) \o SubSeq(u, n + 1, Len(u)) = u
    <3>1. 1 \in 1 .. Len(u) + 1 /\ n \in 1 - 1 .. Len(u) /\ Len(u) \in n .. Len(u)
      BY <1>2
    <3>2. SubSeq(u, 1, n) \o SubSeq(u, n + 1, Len(u)) = SubSeq(u, 1, Len(u))
      BY <3>1, ConcatAdjacentSubSeq
    <3>. QED  BY <3>2, SubSeqFull
  <2>3. n = 0 => SubSeq(u, 1, n) = <<>>
    BY <1>2
  <2>. QED  BY <2>1, <2>2, <2>3
<1>4. SubSeq(u, 1, Len(u)) = u /\ SubSeq(u, Len(u) + 1, Len(u)) = <<>>
  BY <1>2
<1>. QED  BY <1>1, <1>3, <1>4

\* What a call of send does to both ends.
LEMMA SendDoes ==
  ASSUME NEW l \in Wire, NEW e \in Ends, NEW data \in Seq(Int)
  PROVE  LET p == Peer(e)
             n == Taken(l, e, Len(data))
             k == Send(l, e, data)
         IN  /\ n \in 0 .. Len(data) /\ k \in Wire
             /\ n # 0 => l[e].state = "open" /\ ~ l[e].reset
             /\ k[e].in = l[e].in
             /\ k[p].in = IF l[p].state = "closed" THEN l[p].in ELSE l[p].in \o SubSeq(data, 1, n)
             /\ \A f \in Ends : k[f].state = l[f].state /\ (l[f].reset => k[f].reset)
<1>. DEFINE p == Peer(e)
            n == Taken(l, e, Len(data))
            k == Send(l, e, data)
            u == l[p].in \o SubSeq(data, 1, n)
            j == [l[e] EXCEPT !.error = FALSE]
            i == [l[p] EXCEPT !.in = u]
<1>1. /\ p \in Ends /\ p # e /\ l[e] \in WireEnd /\ l[p] \in WireEnd /\ Len(data) \in Nat
      /\ l[p].in \in Seq(Int) /\ (\A f \in Ends : f = e \/ f = p)
  BY WireFields DEF Ends
<1>2. n \in 0 .. Len(data) /\ k \in Wire /\ \A f \in Ends : k[f].state = l[f].state
  BY <1>1, LinkData, SendKeepsStates DEF SameStates
<1>3. n # 0 => l[e].state = "open" /\ ~ l[e].reset
  BY DEF Taken
<1>4. k = IF n = 0 THEN [l EXCEPT ![e] = j]
          ELSE IF l[p].state = "closed" THEN [l EXCEPT ![e] = ResetEnd(l[e])]
          ELSE [l EXCEPT ![p] = i]
  BY DEF Send
<1>5. n = 0 => u = l[p].in
  <2>1. n = 0 => SubSeq(data, 1, n) = <<>>
    BY <1>2, Joints
  <2>2. l[p].in \o <<>> = l[p].in
    BY <1>1, Joints
  <2>. QED  BY <2>1, <2>2
<1>. HIDE DEF n, k, u
<1>6. /\ ResetEnd(l[e]).in = l[e].in /\ ResetEnd(l[e]).reset
      /\ j.in = l[e].in /\ j.reset = l[e].reset
      /\ i.in = u /\ i.reset = l[p].reset
  BY <1>1 DEF ResetEnd, WireEnd, End
<1>. HIDE DEF i, j, p
<1>7. CASE n = 0
  <2>1. k[e] = j /\ k[p] = l[p]
    BY <1>1, <1>4, <1>7 DEF Wire
  <2>2. k[e].in = l[e].in /\ k[p].in = l[p].in /\ k[p].in = u /\ (l[e].reset => k[e].reset) /\ (l[p].reset => k[p].reset)
    BY <1>5, <1>6, <1>7, <2>1
  <2>. QED  BY <1>1, <1>2, <1>3, <2>2 DEF n, k, u, p
<1>8. CASE n # 0 /\ l[p].state = "closed"
  <2>1. k[e] = ResetEnd(l[e]) /\ k[p] = l[p]
    BY <1>1, <1>4, <1>8 DEF Wire
  <2>2. k[e].in = l[e].in /\ k[p].in = l[p].in /\ (l[e].reset => k[e].reset) /\ (l[p].reset => k[p].reset)
    BY <1>6, <1>8, <2>1
  <2>. QED  BY <1>1, <1>2, <1>3, <1>8, <2>2 DEF n, k, u, p
<1>9. CASE n # 0 /\ l[p].state # "closed"
  <2>1. k[p] = i /\ k[e] = l[e]
    BY <1>1, <1>4, <1>9 DEF Wire
  <2>2. k[e].in = l[e].in /\ k[p].in = u /\ (l[e].reset => k[e].reset) /\ (l[p].reset => k[p].reset)
    BY <1>6, <1>9, <2>1
  <2>. QED  BY <1>1, <1>2, <1>3, <1>9, <2>2 DEF n, k, u, p
<1>. QED  BY <1>7, <1>8, <1>9

\* The joints of a link after a send.
LEMMA SentLink ==
  ASSUME NEW x, Base(x), NEW o \in Objects, NEW data \in Seq(Int), NEW w, NEW y, Sends(x, y, o, data, w)
  PROVE  LET n == Taken(x.links[Link(o)], EndOf(o), Len(data))
             r == Opposite(o)
         IN  /\ n \in 0 .. Len(data) /\ r \in Readers /\ y \in Proxy
             /\ n # 0 => At(x, o).state = "open" /\ ~ At(x, o).reset
             /\ At(y, r).in = IF Stands(x, r) THEN At(x, r).in \o SubSeq(data, 1, n) ELSE At(x, r).in
             /\ \A t \in Readers : t # r => At(y, t).in = At(x, t).in
             /\ \A l \in LinkNames, e \in Ends : /\ y.links[l][e].state = x.links[l][e].state
                                                 /\ x.links[l][e].reset => y.links[l][e].reset
<1>. DEFINE l == x.links[Link(o)]
            e == EndOf(o)
            n == Taken(l, e, Len(data))
            r == Opposite(o)
            k == Send(l, e, data)
<1>1. /\ Link(o) \in LinkNames /\ e \in Ends /\ l \in Wire /\ o \in Readers /\ r \in Readers /\ Opposite(r) = o
  BY PartsOf, Ways
<1>2. /\ WayLink(r) = Link(o) /\ WayEnd(r) = Peer(e) /\ WayLink(o) = Link(o) /\ WayEnd(o) = e
      /\ \A t \in Readers : WayLink(t) = Link(o) /\ WayEnd(t) = e => t = o
      /\ \A t \in Readers : WayLink(t) = Link(o) /\ WayEnd(t) = Peer(e) => t = r
      /\ \A t \in Readers : WayLink(t) \in LinkNames /\ WayEnd(t) \in Ends
  BY <1>1, WayNames
<1>3. y.links[Link(o)] = k /\ (\A m \in LinkNames : m # Link(o) => y.links[m] = x.links[m]) /\ y \in Proxy
  BY DEF Sends, Base
<1>4. /\ n \in 0 .. Len(data)
      /\ n # 0 => l[e].state = "open" /\ ~ l[e].reset
      /\ k[e].in = l[e].in
      /\ k[Peer(e)].in = IF l[Peer(e)].state = "closed" THEN l[Peer(e)].in ELSE l[Peer(e)].in \o SubSeq(data, 1, n)
      /\ \A f \in Ends : k[f].state = l[f].state /\ (l[f].reset => k[f].reset)
  BY <1>1, SendDoes
<1>. HIDE DEF k, n
<1>5. At(y, r).in = IF Stands(x, r) THEN At(x, r).in \o SubSeq(data, 1, n) ELSE At(x, r).in
  BY <1>2, <1>3, <1>4 DEF At, Stands
<1>6. ASSUME NEW t \in Readers, t # r  PROVE At(y, t).in = At(x, t).in
  <2>1. CASE WayLink(t) # Link(o)
    BY <1>2, <1>3, <2>1 DEF At
  <2>2. CASE WayLink(t) = Link(o)
    <3>1. WayEnd(t) = e
      BY <1>1, <1>2, <1>6, <2>2 DEF Ends, Peer
    <3>. QED  BY <1>2, <1>3, <1>4, <2>2, <3>1 DEF At
  <2>. QED  BY <2>1, <2>2
<1>7. \A m \in LinkNames, f \in Ends : /\ y.links[m][f].state = x.links[m][f].state
                                       /\ x.links[m][f].reset => y.links[m][f].reset
  BY <1>3, <1>4
<1>8. n # 0 => At(x, o).state = "open" /\ ~ At(x, o).reset
  BY <1>2, <1>4 DEF At
<1>. QED  BY <1>1, <1>3, <1>4, <1>5, <1>6, <1>7, <1>8 DEF n

\* The address and nothing else, put together and in parts.
LEMMA AllMetaParts ==
  ASSUME NEW u \in Seq(Int), AllMeta(u)
  PROVE  /\ \A v \in Seq(Int) : AllMeta(v) => AllMeta(u \o v)
         /\ \A n \in 0 .. Len(u) : AllMeta(SubSeq(u, 1, n)) /\ AllMeta(SubSeq(u, n + 1, Len(u)))
<1>1. ASSUME NEW v \in Seq(Int), AllMeta(v)  PROVE AllMeta(u \o v)
  <2>. DEFINE w == u \o v
  <2>1. /\ Len(u) \in Nat /\ Len(v) \in Nat /\ Len(w) = Len(u) + Len(v)
        /\ \A i \in 1 .. Len(u) + Len(v) : w[i] = IF i <= Len(u) THEN u[i] ELSE v[i - Len(u)]
    BY ConcatProperties
  <2>. HIDE DEF w
  <2>2. ASSUME NEW i \in 1 .. Len(u) + Len(v)  PROVE w[i] = Meta
    <3>1. CASE i <= Len(u)
      BY <2>1, <3>1 DEF AllMeta
    <3>2. CASE i > Len(u)
      <4>1. i - Len(u) \in 1 .. Len(v)
        BY <2>1, <3>2
      <4>. QED  BY <1>1, <2>1, <3>2, <4>1 DEF AllMeta
    <3>. QED  BY <2>1, <3>1, <3>2
  <2>. QED  BY <2>1, <2>2 DEF AllMeta, w
<1>2. ASSUME NEW n \in 0 .. Len(u)
      PROVE  AllMeta(SubSeq(u, 1, n)) /\ AllMeta(SubSeq(u, n + 1, Len(u)))
  <2>1. Len(u) \in Nat
    BY LenProperties
  <2>. QED  BY <2>1 DEF AllMeta
<1>. QED  BY <1>1, <1>2

\* The address and its answer mean the same after a send.
LEMMA SendMeant ==
  ASSUME NEW x, Steady(x), Meant(x), NEW o \in Objects, NEW data \in Seq(Int), NEW w, NEW y,
         Sends(x, y, o, data, w), x.objects[o].life # "none", o = "SH" => x.objects["SH"].ack,
         o = "CH" /\ ~ x.objects["SH"].meta => AllMeta(data) /\ AllMeta(w)
  PROVE  Meant(y)
<1>. DEFINE n == Taken(x.links[Link(o)], EndOf(o), Len(data))
            r == Opposite(o)
            s == SubSeq(data, 1, n)
<1>1. /\ n \in 0 .. Len(data) /\ r \in Readers /\ y \in Proxy /\ x \in Proxy /\ Base(x)
      /\ n # 0 => At(x, o).state = "open" /\ ~ At(x, o).reset
      /\ At(y, r).in = IF Stands(x, r) THEN At(x, r).in \o s ELSE At(x, r).in
      /\ \A t \in Readers : t # r => At(y, t).in = At(x, t).in
      /\ \A l \in LinkNames, e \in Ends : /\ y.links[l][e].state = x.links[l][e].state
                                          /\ x.links[l][e].reset => y.links[l][e].reset
  BY SentLink DEF Steady, Base
<1>2. /\ y.objects[o].wb = w /\ (\A t \in Objects : t # o => y.objects[t] = x.objects[t])
      /\ \A t \in Objects : /\ y.objects[t].life = x.objects[t].life /\ y.objects[t].meta = x.objects[t].meta
                            /\ y.objects[t].ack = x.objects[t].ack
  <2>1. y.objects[o].wb = w /\ Others(x, y, o) /\ Alike(x.objects[o], y.objects[o])
    BY DEF Sends
  <2>2. Marks(x, y) /\ \A t \in Objects : y.objects[t].life = x.objects[t].life
    BY <1>1, <2>1, AlikeFacts
  <2>. QED  BY <2>1, <2>2 DEF Others, Marks
<1>3. s \in Seq(Int) /\ (n = 0 => s = <<>>)
  BY <1>1, Joints
<1>. HIDE DEF n, s
<1>4. /\ "CH" \in Objects /\ "SH" \in Objects /\ "CH" \in Readers /\ "SH" \in Readers
      /\ Opposite("SH") = "CH" /\ Opposite("CH") = "SH" /\ Opposite("CD") # "SH" /\ Opposite("SD") # "SH"
      /\ Opposite("CD") # "CH" /\ Opposite("SD") # "CH"
      /\ At(x, "CH") = x.links["relay"]["near"] /\ At(y, "CH") = y.links["relay"]["near"]
      /\ At(x, "SH") = x.links["relay"]["far"] /\ At(y, "SH") = y.links["relay"]["far"]
      /\ "relay" \in LinkNames /\ "near" \in Ends /\ "far" \in Ends
      /\ At(x, "CH").in \in Seq(Int) /\ At(x, "SH").in \in Seq(Int)
      /\ o \in {"CD", "CH", "SH", "SD"}
  <2>1. "CH" \in Objects /\ "SH" \in Objects /\ "CH" \in Readers /\ "SH" \in Readers /\ o \in {"CD", "CH", "SH", "SD"}
    BY Names DEF Readers
  <2>2. /\ Opposite("SH") = "CH" /\ Opposite("CH") = "SH" /\ Opposite("CD") # "SH" /\ Opposite("SD") # "SH"
        /\ Opposite("CD") # "CH" /\ Opposite("SD") # "CH"
        /\ "relay" \in LinkNames /\ "near" \in Ends /\ "far" \in Ends
    BY DEF Opposite, LinkNames, Ends
  <2>3. /\ At(x, "CH") = x.links["relay"]["near"] /\ At(y, "CH") = y.links["relay"]["near"]
        /\ At(x, "SH") = x.links["relay"]["far"] /\ At(y, "SH") = y.links["relay"]["far"]
    BY <2>1, WayNames, Names DEF At
  <2>4. At(x, "CH").in \in Seq(Int) /\ At(x, "SH").in \in Seq(Int)
    BY <1>1, <2>1, Cells
  <2>. QED  BY <2>1, <2>2, <2>3, <2>4
<1>5. ASSUME ~ y.objects["SH"].meta
      PROVE  AllMeta(y.objects["CH"].wb) /\ AllMeta(y.links["relay"]["far"].in)
  <2>1. ~ x.objects["SH"].meta /\ AllMeta(x.objects["CH"].wb) /\ AllMeta(At(x, "SH").in)
    BY <1>2, <1>4, <1>5 DEF Meant
  <2>2. CASE o = "CH"
    <3>1. AllMeta(w) /\ AllMeta(s) /\ r = "SH"
      BY <1>1, <1>4, <2>1, <2>2, AllMetaParts DEF s
    <3>2. AllMeta(At(x, "SH").in \o s)
      BY <1>3, <1>4, <2>1, <3>1, AllMetaParts
    <3>. QED  BY <1>1, <1>2, <1>4, <2>1, <2>2, <3>1, <3>2
  <2>3. CASE o # "CH"
    <3>1. r # "SH"
      BY <1>4, <2>3
    <3>. QED  BY <1>1, <1>2, <1>4, <2>1, <2>3, <3>1
  <2>. QED  BY <2>2, <2>3
<1>6. ASSUME ~ y.objects["CH"].ack
      PROVE  /\ At(y, "CH").in # <<>> => At(y, "CH").in[1] <= 0
             /\ y.objects["SH"].ack /\ At(y, "CH").in = <<>> =>
                  At(y, "CH").state = "closed" \/ At(y, "SH").state = "closed"
                    \/ (At(y, "SH").reset /\ At(y, "SH").state # "none")
  <2>1. /\ At(x, "CH").in # <<>> => At(x, "CH").in[1] <= 0
        /\ x.objects["SH"].ack /\ At(x, "CH").in = <<>> =>
             At(x, "CH").state = "closed" \/ At(x, "SH").state = "closed"
               \/ (At(x, "SH").reset /\ At(x, "SH").state # "none")
    BY <1>2, <1>4, <1>6 DEF Meant
  <2>2. /\ At(y, "CH").state = At(x, "CH").state /\ At(y, "SH").state = At(x, "SH").state
        /\ At(x, "SH").reset => At(y, "SH").reset
    BY <1>1, <1>4
  <2>3. CASE At(y, "CH").in = At(x, "CH").in
    BY <1>2, <1>4, <2>1, <2>2, <2>3
  <2>4. CASE At(y, "CH").in # At(x, "CH").in
    <3>1. r = "CH" /\ o = "SH" /\ Stands(x, "CH") /\ At(y, "CH").in = At(x, "CH").in \o s
      BY <1>1, <1>4, <2>4
    <3>2. n # 0
      <4>1. At(x, "CH").in \o <<>> = At(x, "CH").in
        BY <1>4, Joints
      <4>. QED  BY <1>3, <2>4, <3>1, <4>1
    <3>3. x.objects["SH"].ack /\ At(x, "SH").state = "open" /\ ~ At(x, "SH").reset /\ At(x, "CH").state # "closed"
      BY <1>1, <3>1, <3>2 DEF Stands
    <3>4. At(x, "CH").in # <<>> /\ At(x, "CH").in[1] <= 0
      BY <2>1, <3>3
    <3>5. At(y, "CH").in # <<>> /\ At(y, "CH").in[1] = At(x, "CH").in[1]
      <4>. DEFINE u == At(x, "CH").in
      <4>1. u \in Seq(Int) /\ u # <<>>
        BY <1>4, <3>4
      <4>. HIDE DEF u
      <4>2. u \o s # <<>> /\ (u \o s)[1] = u[1]
        BY <1>3, <4>1
      <4>. QED  BY <3>1, <4>2 DEF u
    <3>. QED  BY <3>4, <3>5
  <2>. QED  BY <2>3, <2>4
<1>7. \A l \in LinkNames : Joined(y.links[l])
  BY <1>1, <1>4 DEF Joined, Meant
<1>8. ASSUME NEW l \in LinkNames, NEW e \in Ends, y.links[l][e].state \in {"none", "closed"}
      PROVE  y.links[l][e].in = <<>>
  <2>1. x.links[l][e].state \in {"none", "closed"} /\ x.links[l][e].in = <<>>
    BY <1>1, <1>8 DEF Meant
  <2>2. \A t \in Readers : WayLink(t) = l /\ WayEnd(t) = e => At(y, t).in = <<>>
    <3>. TAKE t \in Readers
    <3>. HAVE WayLink(t) = l /\ WayEnd(t) = e
    <3>1. At(x, t).in = <<>> /\ At(x, t).state \in {"none", "closed"}
      BY <2>1 DEF At
    <3>2. CASE t # r
      BY <1>1, <3>1, <3>2
    <3>3. CASE t = r
      <4>1. n = 0 \/ At(x, r).state # "none"
        <5>1. /\ WayLink(o) \in LinkNames /\ WayEnd(o) \in Ends /\ o \in Readers
              /\ WayLink(r) = WayLink(o) /\ WayEnd(r) = Peer(WayEnd(o))
          BY Ways, WayNames
        <5>2. Joined(x.links[WayLink(o)]) /\ Shaped(x.links[WayLink(o)])
          BY <1>1, <5>1 DEF Meant, Base
        <5>. QED  BY <1>1, <5>1, <5>2 DEF At, Joined, Shaped, Ends, Peer
      <4>2. Stands(x, r) => s = <<>>
        BY <1>3, <3>1, <3>3, <4>1 DEF Stands
      <4>3. <<>> \o <<>> = <<>>
        OBVIOUS
      <4>. QED  BY <1>1, <3>1, <3>3, <4>2, <4>3
    <3>. QED  BY <3>2, <3>3
  <2>3. \E t \in Readers : WayLink(t) = l /\ WayEnd(t) = e
    <3>1. /\ WayLink("CD") = "app" /\ WayLink("CH") = "relay" /\ WayLink("SH") = "relay"
          /\ WayLink("SD") = "org" /\ WayLink("application") = "app" /\ WayLink("origin") = "org"
          /\ WayEnd("CD") = "far" /\ WayEnd("CH") = "near" /\ WayEnd("SH") = "far"
          /\ WayEnd("SD") = "near" /\ WayEnd("application") = "near" /\ WayEnd("origin") = "far"
          /\ Readers = {"CD", "CH", "SH", "SD", "application", "origin"}
      BY Names DEF WayLink, LinkOf, Parties, WayEnd, PartyEnd, Readers
    <3>. QED  BY <3>1 DEF LinkNames, Ends
  <2>. QED  BY <2>2, <2>3 DEF At
<1>9. \A t \in Objects : y.objects[t].life = "none" => Blank(y.objects[t])
  <2>. TAKE t \in Objects
  <2>. HAVE y.objects[t].life = "none"
  <2>1. Blank(x.objects[t]) /\ t # o
    BY <1>2 DEF Meant
  <2>. QED  BY <1>2, <2>1
<1>. QED  BY <1>4, <1>5, <1>6, <1>7, <1>8, <1>9 DEF Meant

\* What was on its way to a buffer goes through it to the queue of the other end.
LEMMA FlowPasses ==
  ASSUME NEW q, NEW k, NEW s, NEW g \in PartyTypes, Flow(q, k, s, g),
         NEW o, NEW u, NEW v, NEW q2, NEW k2, Passes(q, k, s, o, u, v, q2, k2)
  PROVE  Flow(q2, k2, s, g)
<1>1. /\ q \in Queues /\ k \in Buffers /\ o \in Objects /\ u \in Seq(Int) /\ v \in Seq(Int)
      /\ k[o] = u \o v /\ k2[o] = v /\ \A t \in Objects : t # o => k2[t] = k[t]
      /\ \A r \in Readers : r # Opposite(o) => q2[r] = q[r]
      /\ q2[Opposite(o)] = IF s[Opposite(o)] THEN q[Opposite(o)] \o u ELSE q[Opposite(o)]
  BY DEF Passes
<1>. QED  BY <1>1, FlowSends, ZenonT(60)

\* The cells of the flow after a send: what was sent has left one buffer for the next queue,
\* except that nobody sees the address.
LEMMA SendCells ==
  ASSUME NEW x, Steady(x), Meant(x), NEW o \in Objects, NEW data \in Seq(Int), NEW w, NEW y,
         Sends(x, y, o, data, w), o = "SH" => x.objects["SH"].ack
  PROVE  LET n == Taken(x.links[Link(o)], EndOf(o), Len(data))
             r == Opposite(o)
             seen == o # "CH" \/ x.objects["SH"].meta
         IN  /\ n \in 0 .. Len(data) /\ y \in Proxy /\ SOf(y) = SOf(x)
             /\ \A t \in Readers : t # r => QOf(y)[t] = QOf(x)[t]
             /\ \A t \in Objects : t # o => KOf(y)[t] = KOf(x)[t]
             /\ seen => /\ QOf(y)[r] = IF SOf(x)[r] THEN QOf(x)[r] \o SubSeq(data, 1, n) ELSE QOf(x)[r]
                        /\ KOf(x)[o] = x.objects[o].wb /\ KOf(y)[o] = w
             /\ ~ seen => QOf(y)[r] = QOf(x)[r] /\ KOf(y)[o] = KOf(x)[o]
<1>. DEFINE n == Taken(x.links[Link(o)], EndOf(o), Len(data))
            r == Opposite(o)
            s == SubSeq(data, 1, n)
            seen == o # "CH" \/ x.objects["SH"].meta
<1>1. /\ n \in 0 .. Len(data) /\ r \in Readers /\ y \in Proxy /\ x \in Proxy /\ Base(x)
      /\ n # 0 => At(x, o).state = "open" /\ ~ At(x, o).reset
      /\ At(y, r).in = IF Stands(x, r) THEN At(x, r).in \o s ELSE At(x, r).in
      /\ \A t \in Readers : t # r => At(y, t).in = At(x, t).in
      /\ \A l \in LinkNames, e \in Ends : y.links[l][e].state = x.links[l][e].state
  BY SentLink DEF Steady, Base
<1>2. /\ y.objects[o].wb = w /\ (\A t \in Objects : t # o => y.objects[t].wb = x.objects[t].wb)
      /\ \A t \in Objects : /\ y.objects[t].meta = x.objects[t].meta
                            /\ y.objects[t].ack = x.objects[t].ack
  <2>1. y.objects[o].wb = w /\ Others(x, y, o) /\ Alike(x.objects[o], y.objects[o])
    BY DEF Sends
  <2>2. Marks(x, y)
    BY <1>1, <2>1, AlikeFacts
  <2>. QED  BY <2>1, <2>2 DEF Others, Marks
<1>3. s \in Seq(Int) /\ (n = 0 => s = <<>>)
  BY <1>1, Joints
<1>4. \A t \in Readers : At(y, t).state = At(x, t).state /\ (Stands(y, t) <=> Stands(x, t))
  BY <1>1, WayNames DEF At, Stands
<1>5. /\ \A t \in Readers : /\ QOf(x)[t] = Arrived(x, t) /\ QOf(y)[t] = Arrived(y, t)
                            /\ SOf(x)[t] = Stands(x, t) /\ At(x, t).in \in Seq(Int)
      /\ \A t \in Objects : KOf(x)[t] = Kept(x, t) /\ KOf(y)[t] = Kept(y, t)
  BY <1>1, Cells
<1>6. SOf(y) = SOf(x)
  BY <1>4 DEF SOf, Stands
<1>7. y.objects["SH"].meta = x.objects["SH"].meta /\ y.objects["CH"].ack = x.objects["CH"].ack
  BY <1>2, Names
<1>. HIDE DEF n, s
<1>8. \A t \in Readers : t # r => QOf(y)[t] = QOf(x)[t]
  BY <1>1, <1>5, <1>7 DEF Arrived
<1>9. \A t \in Objects : t # o => KOf(y)[t] = KOf(x)[t]
  BY <1>2, <1>5, <1>7 DEF Kept
<1>10. Opposite("SH") = "CH" /\ Opposite("CH") = "SH" /\ (r = "CH" => o = "SH") /\ (r = "SH" => o = "CH")
  BY Names DEF Opposite
<1>11. ASSUME seen
       PROVE  /\ QOf(y)[r] = IF SOf(x)[r] THEN QOf(x)[r] \o s ELSE QOf(x)[r]
              /\ KOf(x)[o] = x.objects[o].wb /\ KOf(y)[o] = w
  <2>1. KOf(x)[o] = x.objects[o].wb /\ KOf(y)[o] = w
    BY <1>2, <1>5, <1>7, <1>11 DEF Kept
  <2>2. CASE r = "CH" /\ ~ x.objects["CH"].ack
    <3>1. /\ o = "SH" /\ x.objects["SH"].ack
      BY <1>10, <2>2
    <3>. DEFINE u == At(x, r).in
    <3>2. u \in Seq(Int)
      BY <1>1, <1>5
    <3>3. CASE u # <<>>
      <4>. HIDE DEF u
      <4>1. u \o s # <<>> /\ Tail(u \o s) = Tail(u) \o s
        BY <1>3, <3>2, <3>3
      <4>2. Arrived(x, r) = Tail(u)
        BY <2>2, <3>3 DEF Arrived, u
      <4>3. At(y, r).in = IF Stands(x, r) THEN u \o s ELSE u
        BY <1>1 DEF u
      <4>4. Arrived(y, r) = IF Stands(x, r) THEN Tail(u) \o s ELSE Tail(u)
        BY <1>7, <2>2, <3>3, <4>1, <4>3 DEF Arrived
      <4>. QED  BY <1>1, <1>5, <2>1, <4>2, <4>4
    <3>4. CASE u = <<>>
      <4>1. At(x, "CH") = x.links["relay"]["near"] /\ At(x, "SH") = x.links["relay"]["far"]
        BY WayNames, Names DEF At
      <4>2. \/ ~ Stands(x, "CH")
            \/ n = 0
        BY <1>1, <2>2, <3>1, <3>4, <4>1 DEF Meant, Stands
      <4>3. u \o <<>> = u
        BY <3>2, Joints
      <4>4. At(y, r).in = u
        BY <1>1, <1>3, <2>2, <4>2, <4>3
      <4>5. Arrived(y, r) = <<>> /\ Arrived(x, r) = <<>>
        BY <1>7, <2>2, <3>4, <4>4 DEF Arrived
      <4>6. SOf(x)[r] => <<>> \o s = <<>>
        BY <1>1, <1>3, <1>5, <2>2, <4>2
      <4>. QED  BY <1>1, <1>5, <2>1, <4>5, <4>6
    <3>. QED  BY <3>3, <3>4
  <2>3. CASE ~ (r = "CH" /\ ~ x.objects["CH"].ack)
    <3>1. Arrived(x, r) = At(x, r).in /\ Arrived(y, r) = At(y, r).in
      BY <1>7, <1>10, <1>11, <2>3 DEF Arrived
    <3>. QED  BY <1>1, <1>5, <2>1, <3>1
  <2>. QED  BY <2>2, <2>3
<1>12. ASSUME ~ seen
       PROVE  QOf(y)[r] = QOf(x)[r] /\ KOf(y)[o] = KOf(x)[o]
  <2>1. r = "SH" /\ o = "CH" /\ ~ x.objects["SH"].meta
    BY <1>10, <1>12
  <2>2. Arrived(y, r) = <<>> /\ Arrived(x, r) = <<>> /\ Kept(y, o) = <<>> /\ Kept(x, o) = <<>>
    BY <1>7, <2>1 DEF Arrived, Kept
  <2>. QED  BY <1>1, <1>5, <2>2
<1>13. n \in 0 .. Len(data) /\ y \in Proxy
  BY <1>1
<1>. QED  BY <1>6, <1>8, <1>9, <1>11, <1>12, <1>13 DEF n, s

\* So a send takes the flow on: rest is what is left of what was on its way to the buffer.
LEMMA SendFlows ==
  ASSUME NEW x, Steady(x), Meant(x), NEW o \in Objects, NEW data \in Seq(Int), NEW w, NEW y,
         Sends(x, y, o, data, w), x.objects[o].life # "none", o = "SH" => x.objects["SH"].ack,
         o = "CH" => x.objects["SH"].meta,
         NEW g \in PartyTypes, NEW k \in Buffers, Flow(QOf(x), k, SOf(x), g),
         NEW rest \in Seq(Int),
         k[o] = SubSeq(data, 1, Taken(x.links[Link(o)], EndOf(o), Len(data))) \o rest,
         \A t \in Objects : t # o => k[t] = KOf(x)[t],
         NEW k2, k2[o] = rest, \A t \in Objects : t # o => k2[t] = KOf(y)[t]
  PROVE  Meant(y) /\ Flow(QOf(y), k2, SOf(y), g)
<1>. DEFINE n == Taken(x.links[Link(o)], EndOf(o), Len(data))
            s == SubSeq(data, 1, n)
<1>1. Meant(y)
  BY SendMeant
<1>2. /\ n \in 0 .. Len(data) /\ y \in Proxy /\ SOf(y) = SOf(x)
      /\ \A t \in Readers : t # Opposite(o) => QOf(y)[t] = QOf(x)[t]
      /\ \A t \in Objects : t # o => KOf(y)[t] = KOf(x)[t]
      /\ QOf(y)[Opposite(o)] = IF SOf(x)[Opposite(o)] THEN QOf(x)[Opposite(o)] \o s ELSE QOf(x)[Opposite(o)]
  BY SendCells
<1>3. s \in Seq(Int) /\ QOf(x) \in Queues
  <2>1. s \in Seq(Int)
    BY <1>2, Joints
  <2>2. x \in Proxy
    BY DEF Steady, Base
  <2>. QED  BY <2>1, <2>2, Cells
<1>. DEFINE q == QOf(x)
            q2 == QOf(y)
            t == SOf(x)
<1>4. /\ q \in Queues /\ Flow(q, k, t, g) /\ s \in Seq(Int) /\ k[o] = s \o rest
      /\ k2[o] = rest /\ (\A m \in Objects : m # o => k2[m] = k[m])
      /\ (\A r \in Readers : r # Opposite(o) => q2[r] = q[r])
      /\ q2[Opposite(o)] = IF t[Opposite(o)] THEN q[Opposite(o)] \o s ELSE q[Opposite(o)]
  BY <1>2, <1>3
<1>. HIDE DEF q, q2, t, s
<1>5. Flow(q2, k2, t, g)
  <2>1. Passes(q, k, t, o, s, rest, q2, k2)
    BY <1>4 DEF Passes
  <2>. QED  BY <1>4, <2>1, FlowPasses
<1>. QED  BY <1>1, <1>2, <1>5 DEF q2, t

\* Sequences are joined in either order.
LEMMA Joining ==
  \A u, v, w : u \in Seq(Int) /\ v \in Seq(Int) /\ w \in Seq(Int) => (u \o v) \o w = u \o (v \o w)
<1>. SUFFICES ASSUME NEW u \in Seq(Int), NEW v \in Seq(Int), NEW w \in Seq(Int)
              PROVE  (u \o v) \o w = u \o (v \o w)
  OBVIOUS
<1>. QED  BY ConcatAssociative

\* A flush takes the flow on, whatever else is on its way to the buffer.
LEMMA FlushFlows ==
  ASSUME NEW x, Steady(x), NEW o \in Objects, x.objects[o].wb = <<>> \/ x.objects[o].life = "live",
         NEW g \in PartyTypes, NEW u \in Seq(Int), FlowsWith(x, g, o, u)
  PROVE  FlowsWith(FlushBuffer(x, o), g, o, u)
<1>1. CASE x.objects[o].wb = <<>>
  BY <1>1 DEF FlushBuffer
<1>2. CASE x.objects[o].wb # <<>>
  <2>. DEFINE data == x.objects[o].wb
              n == Taken(x.links[Link(o)], EndOf(o), Len(data))
              s == SubSeq(data, 1, n)
              v == SubSeq(data, n + 1, Len(data))
              y == FlushBuffer(x, o)
              k == [KOf(x) EXCEPT ![o] = @ \o u]
              k2 == [KOf(y) EXCEPT ![o] = @ \o u]
  <2>1. Base(x) /\ x \in Proxy /\ data \in Seq(Int) /\ x.objects[o].life = "live" /\ Quiet(x)
    BY <1>2, PartsOf DEF Steady
  <2>2. n \in 0 .. Len(data) /\ v \in Seq(Int) /\ Sends(x, y, o, data, v)
    BY <1>2, <2>1, FlushDoes
  <2>3. s \in Seq(Int) /\ s \o v = data /\ (o = "CH" /\ AllMeta(data) => AllMeta(v))
    BY <2>1, <2>2, Joints, AllMetaParts
  <2>4. o = "SH" => x.objects["SH"].ack
    BY <1>2, <2>1 DEF Quiet
  <2>5. Meant(x) /\ Flow(QOf(x), k, SOf(x), g)
    BY DEF FlowsWith
  <2>. HIDE DEF y, v, s
  <2>6. /\ y \in Proxy /\ SOf(y) = SOf(x)
        /\ \A t \in Readers : t # Opposite(o) => QOf(y)[t] = QOf(x)[t]
        /\ \A t \in Objects : t # o => KOf(y)[t] = KOf(x)[t]
        /\ o # "CH" \/ x.objects["SH"].meta => KOf(x)[o] = data /\ KOf(y)[o] = v
        /\ ~ (o # "CH" \/ x.objects["SH"].meta) =>
             QOf(y)[Opposite(o)] = QOf(x)[Opposite(o)] /\ KOf(y)[o] = KOf(x)[o]
    BY <2>1, <2>2, <2>4, <2>5, SendCells
  <2>7. KOf(x) \in Buffers /\ KOf(y) \in Buffers /\ QOf(x) \in Queues /\ QOf(y) \in Queues
    BY <2>1, <2>6, Cells
  <2>8. KOf(x)[o] \in Seq(Int) /\ KOf(x)[o] \o u \in Seq(Int) /\ v \o u \in Seq(Int)
    BY <2>2, <2>7 DEF Buffers
  <2>9. /\ k \in Buffers /\ k[o] = KOf(x)[o] \o u /\ (\A t \in Objects : t # o => k[t] = KOf(x)[t])
        /\ k2[o] = KOf(y)[o] \o u /\ (\A t \in Objects : t # o => k2[t] = KOf(y)[t])
    BY <2>7, <2>8 DEF Buffers
  <2>10. CASE o # "CH" \/ x.objects["SH"].meta
    <3>1. k[o] = s \o (v \o u)
      <4>1. (s \o v) \o u = s \o (v \o u)
        <5>1. s \in Seq(Int) /\ v \in Seq(Int) /\ u \in Seq(Int)
          BY <2>2, <2>3
        <5>. QED  BY <5>1, Joining, SMTT(30)
      <4>. QED  BY <2>3, <2>6, <2>9, <2>10, <4>1
    <3>2. k2[o] = v \o u
      BY <2>6, <2>9, <2>10
    <3>. HIDE DEF k, k2
    <3>. DEFINE rest == v \o u
    <3>3. /\ k \in Buffers /\ rest \in Seq(Int) /\ k2[o] = rest
          /\ k[o] = SubSeq(data, 1, Taken(x.links[Link(o)], EndOf(o), Len(data))) \o rest
          /\ (\A t \in Objects : t # o => k[t] = KOf(x)[t])
          /\ (\A t \in Objects : t # o => k2[t] = KOf(y)[t])
          /\ o = "CH" => x.objects["SH"].meta
      BY <2>8, <2>9, <2>10, <3>1, <3>2 DEF s
    <3>. HIDE DEF rest
    <3>4. Meant(y) /\ Flow(QOf(y), k2, SOf(y), g)
      <4>1. x.objects[o].life # "none"
        BY <2>1
      <4>. HIDE DEF data
      <4>. QED  BY <2>1, <2>2, <2>4, <2>5, <3>3, <4>1, SendFlows
    <3>. QED  BY <3>4 DEF FlowsWith, k2, y
  <2>11. CASE ~ (o # "CH" \/ x.objects["SH"].meta)
    <3>1. AllMeta(data)
      BY <2>5, <2>11 DEF Meant
    <3>2. Meant(y)
      <4>1. x.objects[o].life # "none" /\ AllMeta(v)
        BY <2>1, <2>3, <2>11, <3>1
      <4>. HIDE DEF data
      <4>. QED  BY <2>1, <2>2, <2>4, <2>5, <3>1, <4>1, SendMeant
    <3>3. QOf(y) = QOf(x) /\ KOf(y) = KOf(x)
      BY <2>6, <2>7, <2>11 DEF Queues, Buffers
    <3>. QED  BY <2>5, <2>6, <3>2, <3>3 DEF FlowsWith, y
  <2>. QED  BY <2>10, <2>11
<1>. QED  BY <1>1, <1>2

\* What Sink can send goes on, and the rest is kept.
LEMMA SendOrKeepFlows ==
  ASSUME NEW x, Steady(x), NEW o \in Objects, x.objects[o].life = "live", x.objects[o].wb = <<>>,
         x.objects["SH"].ack \/ o = "CD",
         NEW g \in PartyTypes, NEW data \in Seq(Int), FlowsWith(x, g, o, data)
  PROVE  Flows(SendOrKeep(x, o, data), g)
<1>. DEFINE n == Taken(x.links[Link(o)], EndOf(o), Len(data))
            s == SubSeq(data, 1, n)
            v == SubSeq(data, n + 1, Len(data))
            w == x.objects[o].wb \o v
            y == SendOrKeep(x, o, data)
            k == [KOf(x) EXCEPT ![o] = @ \o data]
            k2 == KOf(y)
<1>1. Base(x) /\ Quiet(x) /\ x \in Proxy /\ Meant(x) /\ Flow(QOf(x), k, SOf(x), g)
  BY PartsOf DEF Steady, FlowsWith
<1>2. n \in 0 .. Len(data) /\ v \in Seq(Int) /\ w \in Seq(Int) /\ Sends(x, y, o, data, w)
  BY <1>1, SendOrKeepDoes
<1>3. s \in Seq(Int) /\ s \o v = data /\ <<>> \o v = v /\ <<>> \o data = data
  BY <1>2, Joints
<1>. HIDE DEF v, s, y
<1>4. w = v
  BY <1>3
<1>5. (o = "SH" => x.objects["SH"].ack) /\ (o = "CH" => x.objects["SH"].meta)
  BY <1>1 DEF Quiet
<1>6. y \in Proxy /\ KOf(x)[o] = x.objects[o].wb /\ KOf(y)[o] = v
  BY <1>1, <1>2, <1>4, <1>5, SendCells
<1>7. KOf(x) \in Buffers
  BY <1>1, Cells
<1>8. k \in Buffers /\ k[o] = s \o v /\ \A t \in Objects : t # o => k[t] = KOf(x)[t]
  <2>1. k[o] = <<>> \o data /\ \A t \in Objects : t # o => k[t] = KOf(x)[t]
    BY <1>6, <1>7 DEF Buffers
  <2>2. k \in Buffers
    BY <1>3, <1>6, <1>7 DEF Buffers
  <2>. QED  BY <1>3, <2>1, <2>2
<1>. HIDE DEF k
<1>9. /\ k \in Buffers /\ v \in Seq(Int) /\ k2[o] = v
      /\ k[o] = SubSeq(data, 1, Taken(x.links[Link(o)], EndOf(o), Len(data))) \o v
      /\ (\A t \in Objects : t # o => k[t] = KOf(x)[t])
      /\ (\A t \in Objects : t # o => k2[t] = KOf(y)[t])
      /\ x.objects[o].life # "none"
  BY <1>2, <1>6, <1>8 DEF s
<1>. HIDE DEF k2
<1>10. Meant(y) /\ Flow(QOf(y), k2, SOf(y), g)
  <2>1. Sends(x, y, o, data, v)
    BY <1>2, <1>4
  <2>. QED  BY <1>1, <1>5, <1>9, <2>1, SendFlows
<1>. QED  BY <1>10 DEF Flows, k2, y

\* All of the data is kept.
LEMMA KeepMoreFlows ==
  ASSUME NEW x, Steady(x), NEW o \in Objects, x.objects[o].life = "live",
         x.objects["SH"].ack \/ o = "CD",
         NEW g \in PartyTypes, NEW data \in Seq(Int), FlowsWith(x, g, o, data)
  PROVE  Flows(KeepMore(x, o, data), g)
<1>. DEFINE y == KeepMore(x, o, data)
            k == [KOf(x) EXCEPT ![o] = @ \o data]
<1>1. Base(x) /\ Quiet(x) /\ x \in Proxy /\ Meant(x) /\ Flow(QOf(x), k, SOf(x), g)
  BY PartsOf DEF Steady, FlowsWith
<1>2. /\ y \in Proxy /\ y.links = x.links /\ y.hosts = x.hosts
      /\ Others(x, y, o) /\ Alike(x.objects[o], y.objects[o])
      /\ y.objects[o].wb = x.objects[o].wb \o data
  BY <1>1, KeepMoreDoes DEF Base
<1>. HIDE DEF y
<1>3. /\ y.objects["SH"].meta = x.objects["SH"].meta /\ y.objects["CH"].ack = x.objects["CH"].ack
      /\ y.objects["SH"].ack = x.objects["SH"].ack
      /\ \A t \in Objects : y.objects[t].life = x.objects[t].life
  <2>1. Marks(x, y) /\ \A t \in Objects : y.objects[t].life = x.objects[t].life
    BY <1>1, <1>2, AlikeFacts
  <2>. QED  BY <2>1, Names DEF Marks
<1>4. o = "CH" => x.objects["SH"].meta
  BY <1>1 DEF Quiet
<1>5. Meant(y)
  <2>1. ~ y.objects["SH"].meta => y.objects["CH"].wb = x.objects["CH"].wb
    BY <1>2, <1>3, <1>4, Names DEF Others
  <2>2. \A t \in Objects : y.objects[t].life = "none" => Blank(y.objects[t])
    <3>. TAKE t \in Objects
    <3>. HAVE y.objects[t].life = "none"
    <3>1. Blank(x.objects[t]) /\ t # o
      BY <1>1, <1>3 DEF Meant
    <3>. QED  BY <1>2, <3>1 DEF Others
  <2>. QED  BY <1>1, <1>2, <1>3, <2>1, <2>2 DEF Meant
<1>6. \A r \in Readers : At(y, r) = At(x, r)
  BY <1>2 DEF At
<1>7. QOf(y) = QOf(x) /\ SOf(y) = SOf(x)
  BY <1>3, <1>6 DEF QOf, SOf, Arrived, Stands
<1>8. KOf(y) = k
  <2>1. KOf(x) \in Buffers /\ KOf(y) \in Buffers
    BY <1>1, <1>2, Cells
  <2>2. \A t \in Objects : KOf(x)[t] = Kept(x, t) /\ KOf(y)[t] = Kept(y, t)
    BY <1>1, <1>2, Cells
  <2>3. \A t \in Objects : t # o => Kept(y, t) = Kept(x, t)
    BY <1>2, <1>3 DEF Kept, Others
  <2>4. Kept(y, o) = Kept(x, o) \o data
    BY <1>2, <1>3, <1>4 DEF Kept
  <2>. QED  BY <2>1, <2>2, <2>3, <2>4 DEF Buffers
<1>. QED  BY <1>1, <1>5, <1>7, <1>8 DEF Flows, y

\* Sink takes the data that were on their way to the buffer.
LEMMA SinkFlows ==
  ASSUME NEW x, Steady(x), NEW o \in Objects, x.objects[o].life = "live",
         x.objects["SH"].ack \/ o = "CD", ~ Gone(x, o),
         NEW g \in PartyTypes, NEW data \in Seq(Int), FlowsWith(x, g, o, data)
  PROVE  Flows(Sink(x, o, data), g)
<1>. DEFINE f == FlushBuffer(x, o)
<1>1. Moves(x, f, o) /\ FlowsWith(f, g, o, data)
  BY FlushSteady, FlushFlows
<1>. HIDE DEF f
<1>2. /\ Steady(f) /\ Base(f) /\ f.hosts = x.hosts /\ f.objects[o].life = "live"
      /\ f.objects["SH"].ack \/ o = "CD"
  <2>1. f.objects["SH"].ack = x.objects["SH"].ack
    BY <1>1, Names DEF Moves, Others, Alike
  <2>. QED  BY <1>1, <2>1 DEF Moves, Alike, Steady
<1>3. ~ Gone(f, o) /\ HasSocket(f, o)
  BY <1>2, SocketLive DEF Gone
<1>4. Sink(x, o, data) = IF f.objects[o].wb = <<>> THEN SendOrKeep(f, o, data) ELSE KeepMore(f, o, data)
  BY <1>3 DEF Sink, KeepMore, f
<1>. QED  BY <1>1, <1>2, <1>4, SendOrKeepFlows, KeepMoreFlows

\* A hand sets its alarm before.
LEMMA HandSinkFlows ==
  ASSUME NEW x, Steady(x), NEW h \in Hands, x.objects[h].life = "live",
         x.objects["SH"].ack, ~ Gone(x, h),
         NEW g \in PartyTypes, NEW data \in Seq(Int), FlowsWith(x, g, h, data)
  PROVE  Flows(HandSink(x, h, data), g)
<1>. DEFINE k == [x.objects[h] EXCEPT !.alarm = TRUE]
            x1 == SetObject(x, h, k)
<1>1. h \in Objects /\ Base(x) /\ Quiet(x) /\ x \in Proxy /\ x.objects[h] \in Object
  BY PartsOf DEF Steady, Objects
<1>2. HandSink(x, h, data) = Sink(x1, h, data)
  BY DEF HandSink, SetObject
<1>3. k \in Object /\ k.life = "live" /\ k.meta = x.objects[h].meta /\ k.ack = x.objects[h].ack /\ k.wb = x.objects[h].wb
  BY <1>1 DEF Object
<1>. HIDE DEF k
<1>4. /\ Base(x1) /\ x1.links = x.links /\ x1.hosts = x.hosts /\ x1.objects[h] = k
      /\ \A t \in Objects : t # h => x1.objects[t] = x.objects[t]
  BY <1>1, <1>3, ObjectBase
<1>5. Fading(x, x1)
  BY <1>1, <1>3, ObjectFading DEF Keeps
<1>. HIDE DEF x1
<1>6. /\ x1.objects["CD"] = x.objects["CD"] /\ x1.objects["CH"].ack = x.objects["CH"].ack
      /\ x1.objects["SH"].ack = x.objects["SH"].ack /\ x1.objects["SH"].meta = x.objects["SH"].meta
  BY <1>3, <1>4, Names DEF Hands
<1>7. Steady(x1) /\ ~ Gone(x1, h)
  BY <1>1, <1>4, <1>6 DEF Steady, Quiet, Gone
<1>8. FlowsWith(x1, g, h, data)
  BY <1>1, <1>5, FadingFlows
<1>9. Flows(Sink(x1, h, data), g)
  BY <1>1, <1>3, <1>4, <1>6, <1>7, <1>8, SinkFlows
<1>. QED  BY <1>2, <1>9

-------------------------------------------------------------------------------
(* Closing loses data at most. *)

\* Two changes that are silent follow each other.
LEMMA SilentTwice ==
  ASSUME NEW x, NEW y, NEW z, NEW o, Silent(x, y, o), Silent(y, z, o)
  PROVE  Silent(x, z, o)
<1>1. Fading(x, z)
  BY FadingTwice DEF Silent
<1>. QED  BY <1>1 DEF Silent

\* One object changes in what holds no data.
LEMMA ObjectSilent ==
  ASSUME NEW x \in Proxy, NEW o \in Objects, NEW k \in Object, Keeps(x.objects[o], k), NEW t
  PROVE  Silent(x, SetObject(x, o, k), t)
BY ObjectFading DEF Silent

\* The marks of an object that hold no data.
LEMMA ObjectMarks ==
  ASSUME NEW j \in Object
  PROVE  /\ [j EXCEPT !.waitClose = TRUE] \in Object /\ Keeps(j, [j EXCEPT !.waitClose = TRUE])
         /\ [j EXCEPT !.dispatcher = FALSE] \in Object /\ Keeps(j, [j EXCEPT !.dispatcher = FALSE])
         /\ [j EXCEPT !.hands = "none"] \in Object /\ Keeps(j, [j EXCEPT !.hands = "none"])
         /\ [j EXCEPT !.hands = "wait"] \in Object /\ Keeps(j, [j EXCEPT !.hands = "wait"])
         /\ [j EXCEPT !.status = "connected"] \in Object /\ Keeps(j, [j EXCEPT !.status = "connected"])
         /\ [j EXCEPT !.hands = "ready", !.alarm = TRUE] \in Object
         /\ Keeps(j, [j EXCEPT !.hands = "ready", !.alarm = TRUE])
         /\ [j EXCEPT !.status = "connected", !.hands = "ready", !.alarm = TRUE] \in Object
         /\ Keeps(j, [j EXCEPT !.status = "connected", !.hands = "ready", !.alarm = TRUE])
BY DEF Object, Keeps

\* An object told to close loses data at most.
LEMMA CloseOnceFlushedSilent ==
  ASSUME NEW x \in Proxy, NEW o \in Objects
  PROVE  Silent(x, CloseOnceFlushed(x, o), o)
<1>. DEFINE k == [x.objects[o] EXCEPT !.waitClose = TRUE]
            w == SetObject(x, o, k)
<1>1. x.objects[o] \in Object /\ k \in Object /\ Keeps(x.objects[o], k)
  BY ProxyFields, ObjectMarks
<1>2. CloseOnceFlushed(x, o) = IF w.objects[o].wb = <<>> THEN CloseAlone(w, o) ELSE w
  BY DEF CloseOnceFlushed, SetObject
<1>. HIDE DEF k
<1>3. Silent(x, w, o) /\ w \in Proxy
  BY <1>1, ObjectSilent DEF Silent, Fading
<1>. HIDE DEF w
<1>4. Silent(w, CloseAlone(w, o), o)
  BY <1>3, CloseAloneFading, CloseAloneDoes DEF Silent
<1>. QED  BY <1>2, <1>3, <1>4, SilentTwice

\* A signal to a dispatcher loses data at most.
LEMMA DispatcherSignalSilent ==
  ASSUME NEW x \in Proxy, NEW d \in Dispatchers, NEW code
  PROVE  Silent(x, DispatcherSignal(x, d, code), d)
<1>. DEFINE j == x.objects[d]
            k == [j EXCEPT !.hands = "ready", !.alarm = TRUE]
            i == [j EXCEPT !.hands = "none"]
            w == SetObject(x, d, i)
<1>1. d \in Objects /\ j \in Object
  BY ProxyFields DEF Objects
<1>2. \/ DispatcherSignal(x, d, code) = SetObject(x, d, k)
      \/ DispatcherSignal(x, d, code) = CloseOnceFlushed(w, d)
      \/ DispatcherSignal(x, d, code) = x
  <2>1. [x EXCEPT !.objects[d].hands = "ready", !.objects[d].alarm = TRUE] = SetObject(x, d, k)
    BY <1>1 DEF SetObject, Proxy, Object
  <2>2. [x EXCEPT !.objects[d].hands = "none"] = w
    BY DEF SetObject
  <2>. QED  BY <2>1, <2>2 DEF DispatcherSignal
<1>3. k \in Object /\ Keeps(j, k) /\ i \in Object /\ Keeps(j, i)
  BY <1>1, ObjectMarks
<1>. HIDE DEF k, i
<1>4. Silent(x, SetObject(x, d, k), d) /\ Silent(x, w, d) /\ w \in Proxy
  BY <1>1, <1>3, ObjectSilent DEF Silent, Fading
<1>. HIDE DEF w
<1>5. Silent(w, CloseOnceFlushed(w, d), d) /\ Silent(x, x, d)
  BY <1>1, <1>4, CloseOnceFlushedSilent, FadingItself DEF Silent
<1>. QED  BY <1>2, <1>4, <1>5, SilentTwice

\* A hand is told that its dispatcher is gone.
LEMMA HandSignalFading ==
  ASSUME NEW x \in Proxy, NEW h \in Hands
  PROVE  Silent(x, HandSignal(x, h, "conn_disconn"), h)
<1>. DEFINE k == [x.objects[h] EXCEPT !.dispatcher = FALSE]
            w == SetObject(x, h, k)
<1>1. h \in Objects /\ x.objects[h] \in Object /\ k \in Object /\ Keeps(x.objects[h], k)
  BY ProxyFields, ObjectMarks DEF Objects
<1>2. HandSignal(x, h, "conn_disconn") = CloseOnceFlushed(w, h)
  BY DEF HandSignal, SetObject
<1>. HIDE DEF k
<1>3. Silent(x, w, h) /\ w \in Proxy
  BY <1>1, ObjectSilent DEF Silent, Fading
<1>. HIDE DEF w
<1>. QED  BY <1>1, <1>2, <1>3, CloseOnceFlushedSilent, SilentTwice

\* A hand that closes loses data at most, and does not stand any more.
LEMMA HandConnCloseFading ==
  ASSUME NEW x \in Proxy, NEW h \in Hands, NEW code
  PROVE  LET y == HandConnClose(x, h, code)
         IN  Fading(x, y) /\ (HasSocket(x, h) => ~ Stands(y, h))
<1>. DEFINE d == Mate(h)
            s == DispatcherSignal(x, d, code)
            k == [s.objects[h] EXCEPT !.dispatcher = FALSE]
            w == SetObject(s, h, k)
            z == IF x.objects[h].dispatcher THEN w ELSE x
<1>1. h \in Objects /\ d \in Objects /\ d \in Dispatchers /\ Link(d) # Link(h) /\ Link(h) \in LinkNames
  <2>1. h \in {"CH", "SH"} /\ Objects = {"CD", "CH", "SH", "SD"}
    BY Names DEF Hands
  <2>. QED  BY <2>1, Names DEF Dispatchers, LinkNames
<1>2. Silent(x, s, d) /\ s \in Proxy
  BY <1>1, DispatcherSignalSilent DEF Silent, Fading
<1>. HIDE DEF s, d
<1>3. s.objects[h] \in Object /\ k \in Object /\ Keeps(s.objects[h], k)
  BY <1>1, <1>2, ProxyFields, ObjectMarks
<1>4. HandConnClose(x, h, code) = CloseAlone(z, h)
  BY DEF HandConnClose, SetObject, s, d
<1>. HIDE DEF k
<1>5. Fading(s, w) /\ w.links = s.links
  BY <1>1, <1>2, <1>3, ObjectFading
<1>. HIDE DEF w
<1>6. Fading(x, z) /\ z.links[Link(h)] = x.links[Link(h)] /\ z \in Proxy
  <2>1. Fading(x, w) /\ w.links[Link(h)] = x.links[Link(h)]
    BY <1>1, <1>2, <1>5, FadingTwice DEF Silent
  <2>. QED  BY <2>1, FadingItself DEF Fading
<1>. HIDE DEF z
<1>7. Fading(z, CloseAlone(z, h)) /\ (HasSocket(z, h) => ~ Stands(CloseAlone(z, h), h))
  BY <1>1, <1>6, CloseAloneFading
<1>8. HasSocket(z, h) <=> HasSocket(x, h)
  BY <1>6 DEF HasSocket
<1>9. Fading(x, CloseAlone(z, h))
  BY <1>6, <1>7, FadingTwice
<1>. QED  BY <1>4, <1>7, <1>8, <1>9

\* A dispatcher closes whose hand has nothing to answer.
LEMMA DispatcherConnCloseFading ==
  ASSUME NEW x \in Proxy, NEW d \in Dispatchers, NEW code,
         x.objects[d].hands = "none" \/ code = "conn_disconn"
  PROVE  Fading(x, DispatcherConnClose(x, d, code))
<1>. DEFINE s == IF x.objects[d].hands = "none" THEN x ELSE HandSignal(x, Mate(d), code)
            k == [s.objects[d] EXCEPT !.hands = "none"]
            w == SetObject(s, d, k)
<1>1. d \in Objects /\ Mate(d) \in Hands
  <2>1. d \in {"CD", "SD"} /\ Objects = {"CD", "CH", "SH", "SD"}
    BY Names DEF Dispatchers
  <2>. QED  BY <2>1, Names DEF Hands
<1>2. Fading(x, s) /\ s \in Proxy
  BY <1>1, HandSignalFading, FadingItself DEF Silent, Fading
<1>3. DispatcherConnClose(x, d, code) = CloseAlone(w, d)
  BY DEF DispatcherConnClose, SetObject
<1>. HIDE DEF s
<1>4. k \in Object /\ Keeps(s.objects[d], k)
  BY <1>1, <1>2, ProxyFields, ObjectMarks
<1>. HIDE DEF k
<1>5. Fading(s, w) /\ w \in Proxy
  BY <1>1, <1>2, <1>4, ObjectFading
<1>. HIDE DEF w
<1>6. Fading(w, CloseAlone(w, d))
  BY <1>1, <1>5, CloseAloneFading
<1>7. Fading(x, w)
  BY <1>2, <1>5, FadingTwice
<1>8. Fading(x, CloseAlone(w, d))
  BY <1>6, <1>7, FadingTwice
<1>. QED  BY <1>3, <1>8

-------------------------------------------------------------------------------
(* What is no data. *)

\* The answer goes back on a relay that carried nothing that way.
LEMMA AnswerLink ==
  ASSUME NEW l \in Wire, NEW answer \in Int, l["near"].in = <<>>, l["far"].state = "open"
  PROVE  LET k == Send(l, "far", <<answer>>)
         IN  /\ k \in Wire /\ k["far"].in = l["far"].in
             /\ k["near"].in = <<>> \/ k["near"].in = <<answer>>
             /\ k["near"].in = <<>> => l["near"].state = "closed" \/ l["far"].reset
             /\ l["near"].state = "closed" => k["near"].in = <<>>
             /\ \A f \in Ends : k[f].state = l[f].state /\ (l[f].reset => k[f].reset)
<1>. DEFINE data == <<answer>>
            k == Send(l, "far", data)
            n == Taken(l, "far", Len(data))
            s == SubSeq(data, 1, n)
<1>1. data \in Seq(Int) /\ Len(data) = 1 /\ "far" \in Ends /\ Peer("far") = "near" /\ l["near"].in \in Seq(Int)
  BY WireFields DEF Ends
<1>2. /\ n \in 0 .. 1 /\ k \in Wire /\ k["far"].in = l["far"].in
      /\ k["near"].in = IF l["near"].state = "closed" THEN l["near"].in ELSE l["near"].in \o s
      /\ \A f \in Ends : k[f].state = l[f].state /\ (l[f].reset => k[f].reset)
  <2>. HIDE DEF data
  <2>1. 0 .. Len(data) = 0 .. 1
    BY <1>1
  <2>2. n \in 0 .. Len(data) /\ k \in Wire
    BY <1>1, SendDoes
  <2>3. k["far"].in = l["far"].in
    BY <1>1, SendDoes
  <2>4. k["near"].in = IF l["near"].state = "closed" THEN l["near"].in ELSE l["near"].in \o s
    <3>. DEFINE e == "far"
                c == Send(l, e, data)
                u == SubSeq(data, 1, Taken(l, e, Len(data)))
    <3>0. e \in Ends /\ Peer(e) = "near" /\ data \in Seq(Int)
      BY <1>1
    <3>. HIDE DEF e
    <3>1. c[Peer(e)].in = IF l[Peer(e)].state = "closed" THEN l[Peer(e)].in ELSE l[Peer(e)].in \o u
      BY <3>0, SendDoes
    <3>2. c = k /\ u = s
      BY DEF e
    <3>. HIDE DEF k, s, c, u
    <3>. QED  BY <3>0, <3>1, <3>2
  <2>5. \A f \in Ends : k[f].state = l[f].state /\ (l[f].reset => k[f].reset)
    BY <1>1, SendDoes
  <2>. HIDE DEF n, k, s
  <2>. QED  BY <2>1, <2>2, <2>3, <2>4, <2>5
<1>3. n = 0 => l["far"].reset
  <2>1. Len(l["near"].in) = 0
    OBVIOUS
  <2>2. RoomFor(l, "far") = Room /\ Room \in Nat \ {0}
    BY <1>1, <2>1, RoomAssumption DEF RoomFor
  <2>3. Min({1, Room}) = 1
    BY <2>2, MinOfTwo
  <2>4. ~ l["far"].reset => n = 1
    BY <1>1, <2>2, <2>3 DEF Taken
  <2>. QED  BY <2>4
<1>4. s = IF n = 0 THEN <<>> ELSE data
  <2>. HIDE DEF data
  <2>1. SubSeq(data, 1, 1) = data
    <3>1. SubSeq(data, 1, Len(data)) = data
      BY <1>1, Joints
    <3>. QED  BY <1>1, <3>1
  <2>2. n = 0 => s = <<>>
    <3>1. n \in 0 .. Len(data)
      BY <1>1, <1>2
    <3>. QED  BY <1>1, <3>1, Joints
  <2>3. n = 0 \/ n = 1
    BY <1>2
  <2>. HIDE DEF n
  <2>. QED  BY <2>1, <2>2, <2>3
<1>5. <<>> \o <<>> = <<>> /\ <<>> \o data = data /\ data # <<>>
  OBVIOUS
<1>. HIDE DEF k, s, n, data
<1>6. /\ k["near"].in = <<>> \/ k["near"].in = data
      /\ k["near"].in = <<>> => l["near"].state = "closed" \/ l["far"].reset
      /\ l["near"].state = "closed" => k["near"].in = <<>>
  BY <1>2, <1>3, <1>4, <1>5
<1>. QED  BY <1>2, <1>6 DEF k, data

\* The hand of the callee answers.
LEMMA SendMetaAckFlows ==
  ASSUME NEW x, Steady(x), NEW answer \in Int, answer <= 0, x.objects["SH"].meta,
         NEW g \in PartyTypes, Flows(x, g)
  PROVE  Flows(SendMetaAck(x, answer), g)
<1>. DEFINE y == SendMetaAck(x, answer)
            l == x.links["relay"]
            m == Send(l, "far", <<answer>>)
<1>1. /\ "SH" \in Objects /\ Base(x) /\ Quiet(x) /\ x \in Proxy /\ l \in Wire /\ Shaped(l)
      /\ Link("SH") = "relay" /\ EndOf("SH") = "far" /\ "relay" \in LinkNames /\ Meant(x)
  BY Names, PartsOf DEF Steady, Base, Flows
<1>2. CASE ~ HasSocket(x, "SH") \/ x.objects["SH"].ack
  BY <1>2 DEF SendMetaAck
<1>3. CASE HasSocket(x, "SH") /\ ~ x.objects["SH"].ack
  <2>1. /\ Steady(y) /\ Others(x, y, "SH") /\ OnlyAcked(x.objects["SH"], y.objects["SH"])
    BY <1>1, SendMetaAckSteady
  <2>2. y.links["relay"] = m /\ \A n \in LinkNames : n # "relay" => y.links[n] = x.links[n]
    <3>1. y = [x EXCEPT !.objects["SH"].ack = TRUE, !.links["relay"] = m]
      BY <1>3 DEF SendMetaAck
    <3>. HIDE DEF y, m
    <3>. QED  BY <1>1, <3>1 DEF Proxy
  <2>. HIDE DEF y
  <2>3. y \in Proxy
    BY <2>1 DEF Steady, Base
  <2>4. ~ x.objects["CH"].ack /\ l["near"].in = <<>> /\ l["far"].state = "open"
    BY <1>1, <1>3 DEF Quiet, Shaped, HasSocket, HasFd
  <2>5. /\ m["near"].in = <<>> \/ m["near"].in = <<answer>>
        /\ m["near"].in = <<>> => l["near"].state = "closed" \/ l["far"].reset
        /\ l["near"].state = "closed" => m["near"].in = <<>>
        /\ \A f \in Ends : m[f].state = l[f].state /\ (l[f].reset => m[f].reset)
    BY <1>1, <2>4, AnswerLink
  <2>6. m["far"].in = l["far"].in
    BY <1>1, <2>4, AnswerLink
  <2>. HIDE DEF m
  <2>7. /\ y.objects["SH"].meta = x.objects["SH"].meta /\ y.objects["CH"] = x.objects["CH"]
        /\ \A o \in Objects : y.objects[o].wb = x.objects[o].wb /\ y.objects[o].life = x.objects[o].life
    BY <2>1, Names DEF Others, OnlyAcked
  <2>8. "near" \in Ends /\ "far" \in Ends /\ \A e \in Ends : e = "near" \/ e = "far"
    BY DEF Ends
  <2>9. Meant(y)
    <3>1. m["near"].in # <<>> => m["near"].in[1] <= 0
      <4>1. <<answer>>[1] = answer
        OBVIOUS
      <4>. QED  BY <2>5, <4>1
    <3>2. m["near"].in = <<>> => m["near"].state = "closed" \/ (m["far"].reset /\ m["far"].state # "none")
      BY <2>4, <2>5, <2>8
    <3>3. \A n \in LinkNames : Joined(y.links[n])
      <4>. TAKE n \in LinkNames
      <4>1. Joined(x.links[n])
        BY <1>1 DEF Meant
      <4>2. CASE n = "relay"
        BY <2>2, <2>5, <2>8, <4>1, <4>2 DEF Joined
      <4>. QED  BY <2>2, <4>1, <4>2
    <3>4. \A n \in LinkNames, e \in Ends : y.links[n][e].state \in {"none", "closed"} => y.links[n][e].in = <<>>
      <4>. TAKE n \in LinkNames, e \in Ends
      <4>1. x.links[n][e].state \in {"none", "closed"} => x.links[n][e].in = <<>>
        BY <1>1 DEF Meant
      <4>2. CASE n = "relay"
        <5>1. l["near"].state # "none"
          BY <1>1, <2>4 DEF Shaped
        <5>. QED  BY <2>2, <2>5, <2>6, <2>8, <4>1, <4>2, <5>1
      <4>. QED  BY <2>2, <4>1, <4>2
    <3>5. \A o \in Objects : y.objects[o].life = "none" => Blank(y.objects[o])
      <4>. TAKE o \in Objects
      <4>1. CASE o = "SH"
        <5>1. x.objects["SH"].life # "none"
          BY <1>1, <1>3, SocketLive
        <5>. QED  BY <2>7, <4>1, <5>1
      <4>2. CASE o # "SH"
        BY <1>1, <2>1, <4>2 DEF Others, Meant
      <4>. QED  BY <4>1, <4>2
    <3>. QED  BY <2>2, <2>4, <2>7, <3>1, <3>2, <3>3, <3>4, <3>5 DEF Meant
  <2>10. KOf(y) = KOf(x)
    BY <2>7 DEF KOf, Kept
  <2>11. \A r \in Readers : Stands(y, r) = Stands(x, r)
    <3>. TAKE r \in Readers
    <3>1. WayLink(r) \in LinkNames /\ WayEnd(r) \in Ends
      BY WayNames
    <3>2. At(y, r).state = At(x, r).state
      BY <2>2, <2>5, <3>1 DEF At
    <3>. QED  BY <3>2 DEF Stands
  <2>12. \A r \in Readers : Arrived(y, r) = Arrived(x, r)
    <3>. TAKE r \in Readers
    <3>1. At(x, "CH") = x.links["relay"]["near"] /\ At(y, "CH") = y.links["relay"]["near"]
      BY WayNames, Names DEF At
    <3>2. CASE r = "CH"
      <4>1. Tail(<<answer>>) = <<>>
        OBVIOUS
      <4>. QED  BY <2>2, <2>4, <2>5, <2>7, <3>1, <3>2, <4>1 DEF Arrived
    <3>3. CASE r # "CH"
      <4>1. /\ WayLink(r) \in LinkNames /\ WayEnd(r) \in Ends
            /\ WayLink("CH") = "relay" /\ WayEnd("CH") = "near" /\ "CH" \in Readers
            /\ WayLink("CH") = WayLink(r) /\ WayEnd("CH") = WayEnd(r) => r = "CH"
        BY WayNames, Names DEF Readers
      <4>2. At(y, r).in = At(x, r).in
        BY <2>2, <2>6, <2>8, <3>3, <4>1 DEF At
      <4>. QED  BY <2>7, <3>3, <4>2 DEF Arrived
    <3>. QED  BY <3>2, <3>3
  <2>13. QOf(y) = QOf(x) /\ SOf(y) = SOf(x)
    BY <2>11, <2>12 DEF QOf, SOf
  <2>. QED  BY <2>9, <2>10, <2>13 DEF Flows, y
<1>. QED  BY <1>2, <1>3

-------------------------------------------------------------------------------
(* Objects that come lose nothing. *)

\* A link on which nothing was begins, or fails to.
LEMMA ConnectFades ==
  ASSUME NEW l \in Wire, NEW k \in Wire,
         l["near"].state = "none", l["far"].state = "none", l["near"].in = <<>>, l["far"].in = <<>>,
         k["near"].state \in {"connecting", "closed"}, k["near"].in = <<>>,
         k["far"].state = "none", k["far"].in = <<>>
  PROVE  Fades(l, k)
<1>1. EndFades(l["near"], k["near"]) /\ EndFades(l["far"], k["far"])
  BY DEF EndFades
<1>. QED  BY <1>1 DEF Fades, Joined, Ends

\* A connect loses nothing.
LEMMA ConnectFading ==
  ASSUME NEW x, Base(x), Meant(x), NEW o \in {"CH", "SD"}, x.objects[o].life = "none",
         NEW z \in Proxy, z.links = x.links, Others(x, z, o), z.objects[o].life = "live", Visiting(x, z, o),
         NEW y \in AsynConnect(z, o)
  PROVE  Fading(z, y)
<1>. DEFINE l == x.links[Link(o)]
            f == FailAtOnce(z, o)
            c == [z EXCEPT !.links[Link(o)] = Connecting]
<1>1. /\ o \in Objects /\ Link(o) \in LinkNames /\ EndOf(o) = "near" /\ x \in Proxy
      /\ l \in Wire /\ Shaped(l) /\ "near" \in Ends /\ "far" \in Ends
  BY Names, PartsOf DEF Base, Ends
<1>2. l["near"].state = "none" /\ l["far"].state = "none"
  BY <1>1 DEF Base, InTurn, Shaped, StateOf
<1>3. l["near"].in = <<>> /\ l["far"].in = <<>>
  BY <1>1, <1>2 DEF Meant
<1>4. y = f \/ y = c
  BY DEF AsynConnect
<1>5. /\ Born(x, f, o) /\ Fallen(z.objects[o], f.objects[o])
      /\ \A e \in Ends : f.links[Link(o)][e].in = l[e].in
      /\ f.links[Link(o)]["far"] = l["far"]
      /\ \A n \in LinkNames : n # Link(o) => f.links[n] = x.links[n]
  BY FailBorn
<1>6. /\ Born(x, c, o) /\ c.objects[o] = z.objects[o]
      /\ c.links[Link(o)] = Connecting /\ \A n \in LinkNames : n # Link(o) => c.links[n] = x.links[n]
  BY ConnectBorn
<1>. HIDE DEF f, c
<1>7. y \in Proxy /\ y.links[Link(o)] \in Wire
  <2>1. y \in Proxy
    BY <1>4, <1>5, <1>6 DEF Born
  <2>. QED  BY <1>1, <2>1, ProxyFields
<1>8. \A n \in LinkNames : n # Link(o) => y.links[n] = z.links[n]
  BY <1>4, <1>5, <1>6
<1>9. Fades(l, y.links[Link(o)])
  <2>1. CASE y = f
    <3>1. y.links[Link(o)]["near"].state = "closed"
      <4>1. HasSocket(f, o) = FALSE /\ StateOf(f, o) \in {"connecting", "open", "closed"}
        BY <1>5, FailBorn DEF Born, f
      <4>. QED  BY <1>1, <2>1, <4>1 DEF HasSocket, HasFd, StateOf
    <3>2. /\ y.links[Link(o)]["near"].in = <<>> /\ y.links[Link(o)]["far"].in = <<>>
          /\ y.links[Link(o)]["far"].state = "none"
      BY <1>1, <1>2, <1>3, <1>5, <2>1
    <3>. QED  BY <1>1, <1>2, <1>3, <1>7, <3>1, <3>2, ConnectFades
  <2>2. CASE y = c
    <3>1. /\ Connecting["near"].state = "connecting" /\ Connecting["far"].state = "none"
          /\ Connecting["near"].in = <<>> /\ Connecting["far"].in = <<>>
      BY DEF Connecting, NoLink, NoEnd, Ends
    <3>. QED  BY <1>1, <1>2, <1>3, <1>6, <1>7, <2>2, <3>1, ConnectFades
  <2>. QED  BY <1>4, <2>1, <2>2
<1>10. \A t \in Objects : Keeps(z.objects[t], y.objects[t])
  <2>. TAKE t \in Objects
  <2>1. CASE t # o
    BY <1>4, <1>5, <1>6, <2>1, KeepsItself DEF Born, Others
  <2>2. CASE t = o
    BY <1>4, <1>5, <1>6, <2>2, KeepsItself DEF Fallen, Keeps
  <2>. QED  BY <2>1, <2>2
<1>. QED  BY <1>1, <1>7, <1>8, <1>9, <1>10, OneFading

\* Who is accepted has nothing to say yet.
LEMMA AcceptFading ==
  ASSUME NEW x \in Proxy, Meant(x), NEW o \in {"CD", "SH"}, x.objects[o].life = "none",
         x.links[Link(o)]["far"].state = "queued",
         NEW y \in Proxy, Others(x, y, o), Fresh(y.objects[o], o),
         y.links[Link(o)] = Accept(x.links[Link(o)]),
         \A l \in LinkNames : l # Link(o) => y.links[l] = x.links[l]
  PROVE  Fading(x, y)
<1>1. o \in Objects /\ Link(o) \in LinkNames /\ x.links[Link(o)] \in Wire
  BY Names, Mates, ProxyFields
<1>2. Fades(x.links[Link(o)], y.links[Link(o)])
  BY <1>1, CallsFade
<1>3. Keeps(x.objects[o], y.objects[o])
  <2>1. Blank(x.objects[o]) /\ Blank(y.objects[o])
    BY <1>1 DEF Meant, Fresh, Blank
  <2>2. x.objects[o] \in Object /\ y.objects[o] \in Object
    BY <1>1, ProxyFields
  <2>. QED  BY <2>1, <2>2, ObjectFields DEF Blank, Keeps
<1>4. \A t \in Objects : Keeps(x.objects[t], y.objects[t])
  BY <1>3, KeepsItself DEF Others
<1>. QED  BY <1>1, <1>2, <1>4, OneFading

\* The address that the hand of the caller brings is not counted until it is read.
LEMMA HandBornFlows ==
  ASSUME NEW x, Base(x), NEW g, Flows(x, g), x.objects["CH"].life = "none",
         NEW z \in Proxy, z.links = x.links, Others(x, z, "CH"),
         z.objects["CH"].life = "live", AllMeta(z.objects["CH"].wb), ~ z.objects["CH"].ack
  PROVE  Flows(z, g)
<1>1. "CH" \in Objects /\ "SH" \in Objects /\ x \in Proxy /\ Meant(x) /\ Shaped(x.links["relay"])
  BY Names DEF Base, Flows, LinkNames
<1>2. ~ x.objects["SH"].meta /\ ~ x.objects["CH"].ack /\ ~ x.objects["SH"].ack
  <2>1. StateOf(x, "CH") = "none"
    BY DEF Base, InTurn
  <2>2. StateOf(x, "SH") = "none"
    BY <1>1, <2>1, Names DEF StateOf, Shaped
  <2>3. x.objects["SH"].life = "none"
    BY <1>1, <2>2 DEF Base, Own
  <2>. QED  BY <2>3 DEF Base, InTurn, Hands
<1>3. /\ z.objects["SH"] = x.objects["SH"] /\ \A t \in Objects : t # "CH" => z.objects[t] = x.objects[t]
  BY Names DEF Others
<1>4. Meant(z)
  <2>1. \A t \in Objects : z.objects[t].life = "none" => Blank(z.objects[t])
    BY <1>1, <1>3 DEF Meant
  <2>. QED  BY <1>1, <1>2, <1>3, <2>1 DEF Meant
<1>5. QOf(z) = QOf(x) /\ SOf(z) = SOf(x)
  <2>1. \A r \in Readers : At(z, r) = At(x, r)
    BY DEF At
  <2>2. \A r \in Readers : Arrived(z, r) = Arrived(x, r) /\ Stands(z, r) = Stands(x, r)
    BY <1>2, <1>3, <2>1 DEF Arrived, Stands
  <2>. QED  BY <2>2 DEF QOf, SOf
<1>6. KOf(z) = KOf(x)
  <2>1. \A t \in Objects : Kept(z, t) = Kept(x, t)
    BY <1>2, <1>3 DEF Kept
  <2>. QED  BY <2>1 DEF KOf
<1>. QED  BY <1>4, <1>5, <1>6 DEF Flows

\* The record of the hand that the caller makes.
LEMMA CallerHandRecord ==
  LET k == [WriteMeta(NewHand) EXCEPT !.dispatcher = TRUE]
  IN  k \in Object /\ k.life = "live" /\ ~ k.ack /\ AllMeta(k.wb)
<1>. DEFINE plain == NewHand
            wb == <<Meta>>
            w == WriteMeta(plain)
            k == [w EXCEPT !.dispatcher = TRUE]
<1>1. <<Meta>> \in Seq(Int) /\ AllMeta(<<Meta>>)
  BY DEF Meta, AllMeta
<1>2. plain \in Object /\ plain.life = "live" /\ ~ plain.ack
  BY NewHandRecord
<1>3. w = [plain EXCEPT !.wb = wb, !.meta = TRUE]
  BY DEF WriteMeta
<1>. HIDE DEF plain, w, wb
<1>4. w \in Object /\ w.life = "live" /\ ~ w.ack /\ w.wb = wb
  BY <1>1, <1>2, <1>3 DEF Object, wb
<1>5. k \in Object /\ k.life = "live" /\ ~ k.ack /\ k.wb = wb
  BY <1>4 DEF Object
<1>. HIDE DEF k
<1>6. AllMeta(k.wb)
  BY <1>1, <1>5 DEF wb
<1>. QED  BY <1>5, <1>6 DEF k, w, plain

\* The hand of the caller is made.
LEMMA CreateSingleConnectionFlows ==
  ASSUME NEW x, Sound(x), x.objects["CD"].life = "live", x.objects["CD"].hands = "none",
         x.objects["CH"].life = "none", NEW g \in PartyTypes, Flows(x, g),
         NEW y \in CreateSingleConnection(x)
  PROVE  Flows(y, g)
<1>. DEFINE k == [WriteMeta(NewHand) EXCEPT !.dispatcher = TRUE]
            z == SetObject(x, "CH", k)
            j(u) == [u.objects["CD"] EXCEPT !.hands = "wait"]
            made(u) == IF HasSocket(u, "CH") THEN [u EXCEPT !.objects["CD"].hands = "wait"]
                       ELSE DispatcherConnClose(u, "CD", "conn_failed")
<1>1. /\ Base(x) /\ x \in Proxy /\ "CH" \in Objects /\ "CD" \in Objects /\ "CD" \in Dispatchers /\ "CD" # "CH"
      /\ "CH" \notin Dispatchers /\ "CH" \in {"CH", "SD"}
  BY Names DEF Sound, Steady, Base, Dispatchers
<1>2. k \in Object /\ k.life = "live" /\ ~ k.ack /\ AllMeta(k.wb)
  BY CallerHandRecord
<1>3. y = DispatcherConnClose(x, "CD", "conn_failed") \/ \E u \in AsynConnect(z, "CH") : y = made(u)
  BY DEF CreateSingleConnection, Made, SetObject
<1>. HIDE DEF k
<1>4. /\ z \in Proxy /\ z.links = x.links /\ z.hosts = x.hosts /\ z.objects["CH"] = k
      /\ \A t \in Objects : t # "CH" => z.objects[t] = x.objects[t]
  BY <1>1, <1>2, ObjectSet
<1>. HIDE DEF z
<1>5. Others(x, z, "CH") /\ Visiting(x, z, "CH") /\ z.objects["CH"].life = "live"
  BY <1>1, <1>2, <1>4 DEF Others, Visiting
<1>6. CASE y = DispatcherConnClose(x, "CD", "conn_failed")
  <2>1. Fading(x, y)
    BY <1>1, <1>6, DispatcherConnCloseFading
  <2>. QED  BY <1>1, <2>1, FadingStill
<1>7. ASSUME NEW u \in AsynConnect(z, "CH"), y = made(u)  PROVE Flows(y, g)
  <2>1. Flows(z, g)
    BY <1>1, <1>2, <1>4, <1>5, HandBornFlows
  <2>2. Fading(z, u)
    BY <1>1, <1>4, <1>5, ConnectFading DEF Flows
  <2>3. Fading(x, x) /\ u \in Proxy
    BY <1>1, <2>2, FadingItself DEF Fading
  <2>4. u.objects["CD"].hands = "none"
    <3>. DEFINE f == FailAtOnce(z, "CH")
                c == [z EXCEPT !.links[Link("CH")] = Connecting]
    <3>1. u = f \/ u = c
      BY DEF AsynConnect
    <3>2. Born(x, f, "CH")
      BY <1>1, <1>4, <1>5, FailBorn
    <3>3. Born(x, c, "CH")
      BY <1>1, <1>4, <1>5, ConnectBorn
    <3>. HIDE DEF f, c
    <3>. QED  BY <1>1, <3>1, <3>2, <3>3 DEF Born, Others
  <2>5. Fading(u, y)
    <3>1. CASE HasSocket(u, "CH")
      <4>1. y = SetObject(u, "CD", j(u))
        BY <1>7, <3>1 DEF SetObject
      <4>2. u.objects["CD"] \in Object /\ j(u) \in Object /\ Keeps(u.objects["CD"], j(u))
        BY <1>1, <2>3, ProxyFields, ObjectMarks
      <4>. HIDE DEF j
      <4>. QED  BY <1>1, <2>3, <4>1, <4>2, ObjectFading
    <3>2. CASE ~ HasSocket(u, "CH")
      BY <1>1, <1>7, <2>3, <2>4, <3>2, DispatcherConnCloseFading
    <3>. QED  BY <3>1, <3>2
  <2>6. Fading(z, y)
    BY <2>2, <2>5, FadingTwice
  <2>. QED  BY <1>4, <2>1, <2>6, FadingStill
<1>. QED  BY <1>3, <1>6, <1>7

\* The caller accepts and makes its objects.
LEMMA CreateCallerFlows ==
  ASSUME NEW x, Sound(x), StateOf(x, "CD") = "queued", NEW g \in PartyTypes, Flows(x, g),
         NEW y \in CreateCaller(x)
  PROVE  Flows(y, g)
<1>. DEFINE a == AsVisitor(Made([x EXCEPT !.links["app"] = Accept(@)], "CD", NewDispatcher("connected")), "CD")
<1>1. /\ Sound(a) /\ a.objects["CD"].life = "live" /\ a.objects["CD"].hands = "none"
      /\ a.objects["CH"].life = "none" /\ Others(x, a, "CD") /\ Fresh(a.objects["CD"], "CD")
      /\ a.links["app"] = Accept(x.links["app"]) /\ \A l \in LinkNames : l # "app" => a.links[l] = x.links[l]
  BY CallerAccepted
<1>2. y \in CreateSingleConnection(a)
  BY DEF CreateCaller, NewDispatcher
<1>. HIDE DEF a
<1>3. /\ Base(x) /\ x \in Proxy /\ a \in Proxy /\ Link("CD") = "app" /\ EndOf("CD") = "far"
      /\ "CD" \in {"CD", "SH"} /\ Meant(x) /\ "CD" \in Objects
  BY <1>1, Names DEF Sound, Steady, Base, Flows
<1>4. x.objects["CD"].life = "none" /\ x.links["app"]["far"].state = "queued"
  <2>1. x.links["app"]["far"].state = "queued"
    BY <1>3 DEF StateOf
  <2>2. Own(x, "CD")
    BY <1>3 DEF Base
  <2>. QED  BY <2>1, <2>2 DEF Own
<1>5. Fading(x, a)
  BY <1>1, <1>3, <1>4, AcceptFading
<1>6. Flows(a, g)
  BY <1>3, <1>5, FadingStill
<1>. QED  BY <1>1, <1>2, <1>6, CreateSingleConnectionFlows

\* The callee accepts and makes its hand.
LEMMA CreateCalleeFlows ==
  ASSUME NEW x, Sound(x), StateOf(x, "SH") = "queued", NEW g \in PartyTypes, Flows(x, g)
  PROVE  Flows(CreateCallee(x), g)
<1>. DEFINE a == CreateCallee(x)
<1>1. /\ Sound(a) /\ Others(x, a, "SH") /\ Fresh(a.objects["SH"], "SH")
      /\ a.links["relay"] = Accept(x.links["relay"]) /\ \A l \in LinkNames : l # "relay" => a.links[l] = x.links[l]
  BY CreateCalleeSound
<1>. HIDE DEF a
<1>3. /\ Base(x) /\ x \in Proxy /\ a \in Proxy /\ Link("SH") = "relay" /\ EndOf("SH") = "far"
      /\ "SH" \in {"CD", "SH"} /\ Meant(x) /\ "SH" \in Objects
  BY <1>1, Names DEF Sound, Steady, Base, Flows
<1>4. x.objects["SH"].life = "none" /\ x.links["relay"]["far"].state = "queued"
  <2>1. x.links["relay"]["far"].state = "queued"
    BY <1>3 DEF StateOf
  <2>2. Own(x, "SH")
    BY <1>3 DEF Base
  <2>. QED  BY <2>1, <2>2 DEF Own
<1>5. Fading(x, a)
  BY <1>1, <1>3, <1>4, AcceptFading
<1>6. Flows(a, g)
  BY <1>3, <1>5, FadingStill
<1>. QED  BY <1>6 DEF a

\* The address was read, and nothing follows it yet.
LEMMA ParsedFlows ==
  ASSUME NEW x \in Proxy, NEW g, Flows(x, g), ~ x.objects["SH"].meta,
         x.objects["CH"].wb = <<>>, x.links["relay"]["far"].in = <<>>,
         NEW y \in Proxy, y.links = x.links, Others(x, y, "SH"),
         y.objects["SH"].life = "live", y.objects["SH"].wb = x.objects["SH"].wb,
         y.objects["SH"].ack = x.objects["SH"].ack, y.objects["SH"].meta
  PROVE  Flows(y, g)
<1>1. /\ "CH" \in Objects /\ "SH" \in Objects /\ "CH" # "SH" /\ Meant(x)
      /\ \A t \in Objects : t # "SH" => y.objects[t] = x.objects[t]
  BY Names DEF Flows, Others
<1>2. y.objects["CH"] = x.objects["CH"]
  BY <1>1
<1>3. At(x, "SH").in = <<>>
  BY WayNames, Names DEF At
<1>4. Meant(y)
  <2>1. \A t \in Objects : y.objects[t].life = "none" => Blank(y.objects[t])
    BY <1>1 DEF Meant
  <2>. QED  BY <1>1, <1>2, <2>1 DEF Meant
<1>5. QOf(y) = QOf(x) /\ SOf(y) = SOf(x)
  <2>1. \A r \in Readers : At(y, r) = At(x, r)
    BY DEF At
  <2>2. \A r \in Readers : Arrived(y, r) = Arrived(x, r) /\ Stands(y, r) = Stands(x, r)
    BY <1>2, <1>3, <2>1 DEF Arrived, Stands
  <2>. QED  BY <2>2 DEF QOf, SOf
<1>6. KOf(y) = KOf(x)
  <2>1. \A t \in Objects : Kept(y, t) = Kept(x, t)
    BY <1>1, <1>2 DEF Kept
  <2>. QED  BY <2>1 DEF KOf
<1>. QED  BY <1>4, <1>5, <1>6 DEF Flows

\* The hand of the callee answers that there is no origin server, and closes.
LEMMA CalleeFailsFlows ==
  ASSUME NEW x, Steady(x), x.objects["SH"].meta, NEW g \in PartyTypes, Flows(x, g)
  PROVE  Flows(CalleeFails(x), g)
<1>. DEFINE w == SendMetaAck(x, DstFailed)
<1>1. DstFailed \in Int /\ DstFailed <= 0 /\ "SH" \in Hands
  BY DEF DstFailed, Hands
<1>2. Flows(w, g)
  BY <1>1, SendMetaAckFlows
<1>3. w \in Proxy
  BY <1>1, SendMetaAckSteady DEF Steady, Base
<1>. HIDE DEF w
<1>4. Fading(w, HandConnClose(w, "SH", "dst_failed"))
  BY <1>1, <1>3, HandConnCloseFading
<1>5. Flows(HandConnClose(w, "SH", "dst_failed"), g)
  BY <1>2, <1>3, <1>4, FadingStill
<1>. QED  BY <1>5 DEF CalleeFails, w

\* The dispatcher of the callee is made.
LEMMA CalleeParseMetaFlows ==
  ASSUME NEW x, Sound(x), x.objects["SH"].life = "live", ~ x.objects["SH"].meta, Heading(x) = 0,
         NEW g \in PartyTypes, Flows(x, g), NEW y \in CalleeParseMeta(x)
  PROVE  Flows(y, g)
<1>. DEFINE j == [x.objects["SH"] EXCEPT !.meta = TRUE]
            p == SetObject(x, "SH", j)
            i == [p.objects["SH"] EXCEPT !.dispatcher = TRUE]
            q == SetObject(p, "SH", i)
            k == NewDispatcher("connecting")
            z == AsVisitor(SetObject(q, "SD", k), "SD")
            made(u) == IF HasSocket(u, "SD") THEN RegisterHand(u, "SD") ELSE CalleeFails(u)
<1>1. /\ Steady(x) /\ Base(x) /\ Quiet(x) /\ x \in Proxy /\ "SH" \in Objects /\ "SD" \in Objects /\ "SD" \in Dispatchers
      /\ x.objects["SH"] \in Object /\ "SD" # "SH" /\ "SD" \in {"CH", "SD"} /\ "CH" \in Objects
  BY Names, ProxyFields DEF Sound, Steady, Base, Dispatchers
<1>2. x.objects["SD"].life = "none" /\ ~ x.objects["SH"].ack
  BY <1>1 DEF Base, InTurn, Quiet
<1>3. y = CalleeFails(p) \/ \E u \in AsynConnect(z, "SD") : y = made(u)
  <2>1. p = [x EXCEPT !.objects["SH"].meta = TRUE]
    BY DEF SetObject
  <2>. HIDE DEF p
  <2>2. z = AsVisitor(Made([p EXCEPT !.objects["SH"].dispatcher = TRUE], "SD",
                           [NoObject EXCEPT !.life = "live", !.status = "connecting"]), "SD")
    BY DEF SetObject, Made, NewDispatcher
  <2>. HIDE DEF z
  <2>3. y \in {CalleeFails(p)} \cup {made(u) : u \in AsynConnect(z, "SD")}
    BY <2>1, <2>2 DEF CalleeParseMeta, CalleeFails
  <2>. QED  BY <2>3
<1>4. /\ j \in Object /\ j.life = "live" /\ j.meta /\ ~ j.ack /\ j.wb = x.objects["SH"].wb
      /\ j.alarm = x.objects["SH"].alarm
  BY <1>1, <1>2 DEF Object
<1>. HIDE DEF j
<1>5. /\ Base(p) /\ p.links = x.links /\ p.hosts = x.hosts /\ p.objects["SH"] = j
      /\ \A t \in Objects : t # "SH" => p.objects[t] = x.objects[t]
  <2>1. j \in Object /\ j.life = x.objects["SH"].life /\ j.meta /\ j.life = "live"
    BY <1>4
  <2>. QED  BY <1>1, <2>1, ObjectBase
<1>. HIDE DEF p
<1>6. p.objects["SD"] = x.objects["SD"] /\ p.objects["CH"] = x.objects["CH"] /\ p.objects["CD"] = x.objects["CD"]
  BY <1>5, Names
<1>7. Quiet(p)
  <2>1. /\ ~ x.objects["CH"].ack => ~ x.objects["CD"].alarm
        /\ ~ x.objects["CH"].ack /\ x.links["relay"]["near"].in = <<>>
        /\ \A o \in {"SH", "SD"} : x.objects[o].wb = <<>> /\ ~ x.objects[o].alarm
    BY <1>1, <1>2 DEF Quiet
  <2>2. Heading(p) = 0
    BY <1>5, <1>6 DEF Heading
  <2>. QED  BY <1>4, <1>5, <1>6, <2>1, <2>2 DEF Quiet
<1>8. Steady(p) /\ p \in Proxy
  BY <1>5, <1>7 DEF Steady, Base
<1>9. Flows(p, g)
  <2>1. x.objects["CH"].wb = <<>> /\ x.links["relay"]["far"].in = <<>>
    <3>. DEFINE u == x.objects["CH"].wb
                v == x.links["relay"]["far"].in
    <3>1. u \in Seq(Int) /\ v \in Seq(Int) /\ Len(u) \in Nat /\ Len(v) \in Nat /\ Len(u) + Len(v) = 0
      <4>1. u \in Seq(Int)
        BY <1>1, ProxyFields, ObjectFields
      <4>. QED  BY <1>1, <4>1, HeadingNat DEF Heading
    <3>. HIDE DEF u, v
    <3>2. Len(u) = 0 /\ Len(v) = 0
      BY <3>1
    <3>3. u = <<>> /\ v = <<>>
      BY <3>1, <3>2, EmptySeq
    <3>. QED  BY <3>3 DEF u, v
  <2>2. Others(x, p, "SH")
    BY <1>5 DEF Others
  <2>3. p.objects["SH"].ack = x.objects["SH"].ack
    <3>1. j.ack = FALSE /\ x.objects["SH"].ack = FALSE
      BY <1>1, <1>2, <1>4, ObjectFields
    <3>. QED  BY <1>5, <3>1
  <2>4. /\ p.objects["SH"].life = "live" /\ p.objects["SH"].wb = x.objects["SH"].wb /\ p.objects["SH"].meta
        /\ p.links = x.links /\ p \in Proxy /\ x \in Proxy
    BY <1>1, <1>4, <1>5, <1>8
  <2>. QED  BY <2>1, <2>2, <2>3, <2>4, ParsedFlows
<1>10. CASE y = CalleeFails(p)
  BY <1>4, <1>5, <1>8, <1>9, <1>10, CalleeFailsFlows
<1>11. /\ i \in Object /\ i.life = "live" /\ i.meta /\ Mild(p.objects["SH"], i) /\ Keeps(p.objects["SH"], i)
  <2>1. p.objects["SH"] \in Object /\ p.objects["SH"].life = "live" /\ p.objects["SH"].meta /\ ~ p.objects["SH"].ack
        /\ ~ p.objects["SH"].alarm
    BY <1>1, <1>2, <1>4, <1>5 DEF Quiet
  <2>. QED  BY <2>1 DEF Object, Mild, Keeps
<1>. HIDE DEF i
<1>12. /\ Steady(q) /\ q.links = p.links /\ q.hosts = p.hosts /\ q.objects["SH"] = i
       /\ \A t \in Objects : t # "SH" => q.objects[t] = p.objects[t]
  BY <1>1, <1>8, <1>11, MildSteady
<1>13. Fading(p, q)
  BY <1>1, <1>8, <1>11, ObjectFading
<1>. HIDE DEF q
<1>14. q.objects["SD"] = x.objects["SD"] /\ Base(q) /\ q \in Proxy /\ q.objects["SD"].life = "none" /\ q.objects["SH"].meta
  BY <1>1, <1>2, <1>6, <1>11, <1>12, Names DEF Steady, Base
<1>15. Flows(q, g) /\ Meant(q)
  BY <1>8, <1>9, <1>13, FadingStill DEF Flows
<1>16. k \in Object /\ Fresh(k, "SD") /\ k.life = "live" /\ k.status = "connecting"
  BY <1>1, NewDispatcherFacts
<1>. HIDE DEF k
<1>17. /\ z \in Proxy /\ z.links = q.links /\ z.objects["SD"] = k /\ Others(q, z, "SD") /\ Visiting(q, z, "SD")
  <2>. DEFINE v == SetObject(q, "SD", k)
  <2>1. /\ v \in Proxy /\ v.links = q.links /\ v.hosts = q.hosts /\ v.objects["SD"] = k
        /\ \A t \in Objects : t # "SD" => v.objects[t] = q.objects[t]
    BY <1>1, <1>14, <1>16, ObjectSet
  <2>. HIDE DEF v
  <2>2. LET u == AsVisitor(v, "SD")
        IN  u \in Proxy /\ u.links = v.links /\ u.objects = v.objects /\ Visiting(q, u, "SD")
    BY <1>1, <1>14, <2>1, AsVisitorFacts
  <2>3. z = AsVisitor(v, "SD")
    BY DEF v
  <2>. HIDE DEF z
  <2>. QED  BY <2>1, <2>2, <2>3 DEF Others
<1>. HIDE DEF z
<1>18. Fading(q, z)
  <2>1. Keeps(q.objects["SD"], z.objects["SD"])
    <3>1. Blank(q.objects["SD"]) /\ Blank(k) /\ q.objects["SD"] \in Object
      BY <1>1, <1>14, <1>15, <1>16, ProxyFields DEF Meant, Fresh, Blank
    <3>. QED  BY <1>16, <1>17, <3>1, ObjectFields DEF Blank, Keeps
  <2>2. \A t \in Objects : Keeps(q.objects[t], z.objects[t])
    BY <1>17, <2>1, KeepsItself DEF Others
  <2>. QED  BY <1>14, <1>17, <2>2, StillFading
<1>19. Flows(z, g)
  BY <1>14, <1>15, <1>18, FadingStill
<1>20. ASSUME NEW u \in AsynConnect(z, "SD"), y = made(u)  PROVE Flows(y, g)
  <2>. DEFINE f == FailAtOnce(z, "SD")
              c == [z EXCEPT !.links[Link("SD")] = Connecting]
  <2>1. Fading(z, u) /\ u \in Proxy
    BY <1>1, <1>14, <1>15, <1>16, <1>17, ConnectFading DEF Fading
  <2>2. Flows(u, g)
    BY <1>17, <1>19, <2>1, FadingStill
  <2>3. u = f \/ u = c
    BY DEF AsynConnect
  <2>4. /\ Born(q, f, "SD") /\ Fallen(k, f.objects["SD"]) /\ ~ HasSocket(f, "SD")
        /\ \A l \in LinkNames : l # Link("SD") => f.links[l] = q.links[l]
    BY <1>1, <1>14, <1>16, <1>17, FailBorn
  <2>5. Born(q, c, "SD") /\ c.objects["SD"] = k /\ HasSocket(c, "SD")
    BY <1>1, <1>14, <1>16, <1>17, ConnectBorn
  <2>. HIDE DEF f, c
  <2>6. CASE u = f
    <3>1. "relay" \in LinkNames /\ "relay" # Link("SD")
      BY Names DEF LinkNames
    <3>2. Fresh(f.objects["SD"], "SD") /\ NoMore(q.links["relay"], f.links["relay"])
      BY <1>16, <2>4, <3>1 DEF Fresh, Fallen, NoMore
    <3>3. Steady(f)
      BY <1>1, <1>12, <1>14, <2>4, <3>2, BirthSteady
    <3>4. f.objects["SH"].meta
      BY <1>1, <1>14, <2>4 DEF Born, Others
    <3>. QED  BY <1>20, <2>2, <2>4, <2>6, <3>3, <3>4, CalleeFailsFlows
  <2>7. CASE u = c
    <3>. DEFINE w == [u.objects["SD"] EXCEPT !.hands = "wait"]
    <3>1. y = SetObject(u, "SD", w)
      BY <1>16, <1>20, <2>5, <2>7 DEF SetObject, RegisterHand
    <3>2. u.objects["SD"] \in Object /\ w \in Object /\ Keeps(u.objects["SD"], w)
      BY <1>1, <2>1, ProxyFields, ObjectMarks
    <3>. HIDE DEF w
    <3>3. Fading(u, y)
      BY <1>1, <2>1, <3>1, <3>2, ObjectFading
    <3>. QED  BY <2>1, <2>2, <3>3, FadingStill
  <2>. QED  BY <2>3, <2>6, <2>7
<1>. QED  BY <1>3, <1>10, <1>20

-------------------------------------------------------------------------------
(* What is read. *)

\* What a read does to both ends.
LEMMA ConsumeDoes ==
  ASSUME NEW l \in Wire, NEW e \in Ends, NEW n \in 0 .. Len(l[e].in)
  PROVE  LET k == Consume(l, e, n)
         IN  /\ k \in Wire /\ k[e].in = SubSeq(l[e].in, n + 1, Len(l[e].in))
             /\ k[Peer(e)] = l[Peer(e)]
             /\ k[e].state = l[e].state /\ k[e].reset = l[e].reset
<1>. DEFINE j == l[e]
            v == SubSeq(j.in, n + 1, Len(j.in))
            i == [j EXCEPT !.in = v]
            k == [l EXCEPT ![e] = i]
<1>1. j \in WireEnd /\ j \in End /\ j.in \in Seq(Int) /\ Len(j.in) \in 0 .. Room /\ n \in 0 .. Len(j.in) /\ Room \in Nat
  BY WireFields, RoomAssumption DEF WireEnd
<1>2. v \in Seq(Int) /\ Len(v) = Len(j.in) - n
  BY <1>1, Split
<1>3. Consume(l, e, n) = k
  BY DEF Consume
<1>. HIDE DEF j
<1>4. Len(v) <= Room
  <2>. DEFINE a == Len(j.in)
              b == Len(v)
  <2>1. a \in 0 .. Room /\ n \in 0 .. a /\ b = a - n
    BY <1>1, <1>2
  <2>. HIDE DEF a, b
  <2>2. b <= Room
    BY <1>1, <2>1
  <2>. QED  BY <2>2 DEF b
<1>. HIDE DEF v
<1>5. i \in WireEnd /\ i.state = j.state
  BY <1>1, <1>2, <1>4, EndData
<1>6. i.in = v /\ i.reset = j.reset
  BY <1>1 DEF End
<1>. HIDE DEF i
<1>7. k \in Wire /\ k[e] = i /\ k[Peer(e)] = l[Peer(e)]
  BY <1>5, EndChanges
<1>. HIDE DEF k
<1>. QED  BY <1>3, <1>5, <1>6, <1>7 DEF j, v

\* Of all that waits for the readers, only that of r gets shorter.
LEMMA ReadingDoes ==
  ASSUME NEW x \in Proxy, NEW r \in Objects, NEW n \in 0 .. Len(At(x, r).in)
  PROVE  LET z == Reading(x, r, n)
         IN  /\ z \in Proxy /\ z.objects = x.objects /\ z.hosts = x.hosts
             /\ At(z, r).in = SubSeq(At(x, r).in, n + 1, Len(At(x, r).in))
             /\ \A t \in Readers : t # r => At(z, t).in = At(x, t).in
             /\ \A t \in Readers : Stands(z, t) = Stands(x, t)
             /\ \A l \in LinkNames, e \in Ends :
                  /\ z.links[l][e].state = x.links[l][e].state /\ z.links[l][e].reset = x.links[l][e].reset
                  /\ (l # Link(r) \/ e # EndOf(r)) => z.links[l][e].in = x.links[l][e].in
<1>. DEFINE l == x.links[Link(r)]
            e == EndOf(r)
            k == Consume(l, e, n)
            z == Reading(x, r, n)
<1>1. /\ r \in Readers /\ Link(r) \in LinkNames /\ EndOf(r) \in Ends /\ l \in Wire
      /\ At(x, r) = l[e] /\ WayLink(r) = Link(r) /\ WayEnd(r) = EndOf(r)
  BY Mates, Ways, WayNames, ProxyFields DEF At
<1>2. /\ k \in Wire /\ k[e].in = SubSeq(l[e].in, n + 1, Len(l[e].in)) /\ k[Peer(e)] = l[Peer(e)]
      /\ k[e].state = l[e].state /\ k[e].reset = l[e].reset
  BY <1>1, ConsumeDoes
<1>3. z = SetLink(x, Link(r), k)
  BY DEF Reading
<1>. HIDE DEF k, z
<1>4. /\ z \in Proxy /\ z.objects = x.objects /\ z.hosts = x.hosts
      /\ z.links[Link(r)] = k /\ \A m \in LinkNames : m # Link(r) => z.links[m] = x.links[m]
  BY <1>1, <1>2, <1>3, LinkSet
<1>5. \A f \in Ends : f = e \/ f = Peer(e)
  BY <1>1 DEF Ends, Peer
<1>6. \A m \in LinkNames, f \in Ends :
        /\ z.links[m][f].state = x.links[m][f].state /\ z.links[m][f].reset = x.links[m][f].reset
        /\ (m # Link(r) \/ f # EndOf(r)) => z.links[m][f].in = x.links[m][f].in
  BY <1>2, <1>4, <1>5
<1>7. At(z, r).in = SubSeq(At(x, r).in, n + 1, Len(At(x, r).in))
  BY <1>1, <1>2, <1>4 DEF At
<1>8. \A t \in Readers : /\ WayLink(t) \in LinkNames /\ WayEnd(t) \in Ends
                         /\ t # r => WayLink(t) # Link(r) \/ WayEnd(t) # EndOf(r)
  BY <1>1, WayNames
<1>9. \A t \in Readers : (t # r => At(z, t).in = At(x, t).in) /\ At(z, t).state = At(x, t).state
  BY <1>6, <1>8 DEF At
<1>. QED  BY <1>4, <1>6, <1>7, <1>9 DEF Stands, z

\* The address and its answer mean the same, if it is not the answer that is read.
LEMMA ReadingMeant ==
  ASSUME NEW x \in Proxy, Meant(x), NEW r \in Objects, NEW n \in 0 .. Len(At(x, r).in),
         r = "CH" => x.objects["CH"].ack
  PROVE  Meant(Reading(x, r, n))
<1>. DEFINE z == Reading(x, r, n)
            in == At(x, r).in
            v == SubSeq(in, n + 1, Len(in))
<1>1. /\ z \in Proxy /\ z.objects = x.objects /\ At(z, r).in = v
      /\ \A l \in LinkNames, e \in Ends :
           /\ z.links[l][e].state = x.links[l][e].state /\ z.links[l][e].reset = x.links[l][e].reset
           /\ (l # Link(r) \/ e # EndOf(r)) => z.links[l][e].in = x.links[l][e].in
  BY ReadingDoes
<1>. HIDE DEF z
<1>2. /\ in \in Seq(Int) /\ At(x, r) = x.links[Link(r)][EndOf(r)] /\ At(z, r) = z.links[Link(r)][EndOf(r)]
      /\ Link(r) \in LinkNames /\ EndOf(r) \in Ends
  <2>1. r \in Readers
    BY Ways
  <2>. QED  BY <1>1, <2>1, Cells, Mates
<1>3. in = <<>> => v = <<>>
  <2>1. SUFFICES ASSUME in = <<>>  PROVE v = <<>>
    OBVIOUS
  <2>2. n = 0 /\ Len(in) = 0
    BY <2>1
  <2>3. Len(v) = Len(in) - n /\ v \in Seq(Int)
    BY <1>2, Split
  <2>. HIDE DEF v
  <2>4. Len(v) = 0
    BY <2>2, <2>3
  <2>. QED  BY <2>3, <2>4, EmptySeq
<1>4. AllMeta(in) => AllMeta(v)
  BY <1>2, AllMetaParts
<1>. HIDE DEF in, v
<1>5. /\ "relay" \in LinkNames /\ "near" \in Ends /\ "far" \in Ends
      /\ Link("CH") = "relay" /\ EndOf("CH") = "near" /\ Link("SH") = "relay" /\ EndOf("SH") = "far"
      /\ Link(r) = "relay" /\ EndOf(r) = "near" => r = "CH"
  <2>1. "CH" \in Objects /\ "SH" \in Objects
    BY Names
  <2>. QED  BY <2>1, Names, Mates DEF LinkNames, Ends
<1>6. ~ z.objects["SH"].meta => AllMeta(z.objects["CH"].wb) /\ AllMeta(z.links["relay"]["far"].in)
  <2>1. SUFFICES ASSUME ~ x.objects["SH"].meta
                 PROVE  AllMeta(x.objects["CH"].wb) /\ AllMeta(z.links["relay"]["far"].in)
    BY <1>1
  <2>2. AllMeta(x.objects["CH"].wb) /\ AllMeta(x.links["relay"]["far"].in)
    BY <2>1 DEF Meant
  <2>3. CASE Link(r) = "relay" /\ EndOf(r) = "far"
    BY <1>1, <1>2, <1>4, <2>2, <2>3 DEF in
  <2>4. CASE ~ (Link(r) = "relay" /\ EndOf(r) = "far")
    BY <1>1, <1>5, <2>2, <2>4
  <2>. QED  BY <2>2, <2>3, <2>4
<1>7. LET near == z.links["relay"]["near"]
          far == z.links["relay"]["far"]
      IN  ~ z.objects["CH"].ack =>
            /\ near.in # <<>> => near.in[1] <= 0
            /\ z.objects["SH"].ack /\ near.in = <<>> =>
                 near.state = "closed" \/ far.state = "closed" \/ (far.reset /\ far.state # "none")
  <2>1. SUFFICES ASSUME ~ x.objects["CH"].ack
                 PROVE  /\ z.links["relay"]["near"].in = x.links["relay"]["near"].in
    BY <1>1, <1>5 DEF Meant
  <2>. QED  BY <1>1, <1>5, <2>1
<1>8. \A l \in LinkNames : Joined(z.links[l])
  BY <1>1, <1>5 DEF Meant, Joined
<1>9. \A l \in LinkNames, e \in Ends : z.links[l][e].state \in {"none", "closed"} => z.links[l][e].in = <<>>
  <2>. TAKE l \in LinkNames, e \in Ends
  <2>1. x.links[l][e].state \in {"none", "closed"} => x.links[l][e].in = <<>>
    BY DEF Meant
  <2>2. CASE l = Link(r) /\ e = EndOf(r)
    BY <1>1, <1>2, <1>3, <2>1, <2>2 DEF in
  <2>3. CASE ~ (l = Link(r) /\ e = EndOf(r))
    BY <1>1, <2>1, <2>3
  <2>. QED  BY <2>2, <2>3
<1>10. \A o \in Objects : z.objects[o].life = "none" => Blank(z.objects[o])
  BY <1>1 DEF Meant
<1>. QED  BY <1>6, <1>7, <1>8, <1>9, <1>10 DEF Meant, z

\* What was read and is in no buffer yet.
LEMMA LateIs ==
  ASSUME NEW x \in Proxy, NEW g, Flows(x, g), NEW z \in Proxy, Meant(z), NEW r \in Objects, NEW u \in Seq(Int),
         \A t \in Objects : Kept(z, t) = Kept(x, t),
         \A t \in Readers : Stands(z, t) = Stands(x, t),
         \A t \in Readers : t # r => Arrived(z, t) = Arrived(x, t),
         Arrived(x, r) = u \o Arrived(z, r)
  PROVE  FlowsLate(z, g, r, u)
<1>1. KOf(z) = KOf(x) /\ SOf(z) = SOf(x)
  BY DEF KOf, SOf
<1>2. r \in Readers
  BY Ways
<1>3. [QOf(z) EXCEPT ![r] = u \o @] = QOf(x)
  BY <1>2 DEF QOf
<1>. QED  BY <1>1, <1>3 DEF Flows, FlowsLate

\* Data are read, no answer and no address.
LEMMA ReadingLate ==
  ASSUME NEW x \in Proxy, NEW g, Flows(x, g), NEW r \in Objects, NEW n \in 0 .. Len(At(x, r).in),
         r = "CH" => x.objects["CH"].ack, r = "SH" => x.objects["SH"].meta
  PROVE  FlowsLate(Reading(x, r, n), g, r, SubSeq(At(x, r).in, 1, n))
<1>. DEFINE z == Reading(x, r, n)
            in == At(x, r).in
            u == SubSeq(in, 1, n)
            v == SubSeq(in, n + 1, Len(in))
<1>1. /\ z \in Proxy /\ z.objects = x.objects /\ At(z, r).in = v
      /\ \A t \in Readers : t # r => At(z, t).in = At(x, t).in
      /\ \A t \in Readers : Stands(z, t) = Stands(x, t)
  BY ReadingDoes
<1>2. Meant(z)
  BY ReadingMeant DEF Flows
<1>3. in \in Seq(Int) /\ r \in Readers
  BY Ways, Cells
<1>4. u \in Seq(Int) /\ u \o v = in
  <2>. HIDE DEF in
  <2>. QED  BY <1>3, Joints DEF in
<1>. HIDE DEF z, u, v
<1>5. \A t \in Readers : t # r => Arrived(z, t) = Arrived(x, t)
  BY <1>1 DEF Arrived
<1>6. Arrived(x, r) = u \o Arrived(z, r)
  BY <1>1, <1>4 DEF Arrived
<1>7. \A t \in Objects : Kept(z, t) = Kept(x, t)
  BY <1>1 DEF Kept
<1>8. FlowsLate(z, g, r, u)
  BY <1>1, <1>2, <1>4, <1>5, <1>6, <1>7, LateIs
<1>. QED  BY <1>8 DEF z, u

\* The address is read: it is no data.
LEMMA AddressRead ==
  ASSUME NEW x \in Proxy, NEW g, Flows(x, g), NEW n \in 0 .. Len(At(x, "SH").in), ~ x.objects["SH"].meta
  PROVE  Flows(Reading(x, "SH", n), g)
<1>. DEFINE z == Reading(x, "SH", n)
<1>0. "SH" \in Objects /\ "SH" # "CH"
  BY Names
<1>1. /\ z \in Proxy /\ z.objects = x.objects
      /\ \A t \in Readers : t # "SH" => At(z, t).in = At(x, t).in
      /\ \A t \in Readers : Stands(z, t) = Stands(x, t)
  BY <1>0, ReadingDoes
<1>2. Meant(z)
  BY <1>0, ReadingMeant DEF Flows
<1>. HIDE DEF z
<1>3. QOf(z) = QOf(x)
  <2>1. \A t \in Readers : Arrived(z, t) = Arrived(x, t)
    BY <1>1 DEF Arrived
  <2>. QED  BY <2>1 DEF QOf
<1>4. KOf(z) = KOf(x) /\ SOf(z) = SOf(x)
  BY <1>1 DEF KOf, SOf, Kept
<1>. QED  BY <1>2, <1>3, <1>4 DEF Flows, z

\* The hand of the caller reads the answer, and what follows it.
LEMMA AnswerRead ==
  ASSUME NEW x \in Proxy, NEW g, Flows(x, g), ~ x.objects["CH"].ack, At(x, "CH").in # <<>>,
         x.objects["CH"].life = "live",
         NEW z \in Proxy, z.links = Reading(x, "CH", Len(At(x, "CH").in)).links,
         NEW k \in Object, z.objects = SetObject(x, "CH", k).objects,
         k.ack, k.wb = x.objects["CH"].wb, k.life = "live"
  PROVE  FlowsLate(z, g, "CH", Tail(At(x, "CH").in))
<1>. DEFINE n == Len(At(x, "CH").in)
            w == Reading(x, "CH", n)
            in == At(x, "CH").in
            v == SubSeq(in, n + 1, Len(in))
<1>1. "CH" \in Objects /\ "CH" \in Readers /\ "SH" # "CH" /\ "SH" \in Objects
  BY Names, Ways
<1>2. in \in Seq(Int) /\ n \in 0 .. Len(in) /\ Tail(in) \in Seq(Int) /\ v = <<>>
  <2>1. in \in Seq(Int)
    BY <1>1, Cells
  <2>. HIDE DEF in
  <2>. QED  BY <2>1, Joints DEF in
<1>3. /\ w \in Proxy /\ At(w, "CH").in = v
      /\ \A t \in Readers : t # "CH" => At(w, t).in = At(x, t).in
      /\ \A t \in Readers : Stands(w, t) = Stands(x, t)
      /\ \A l \in LinkNames, e \in Ends :
           /\ w.links[l][e].state = x.links[l][e].state
           /\ (l # "relay" \/ e # "near") => w.links[l][e].in = x.links[l][e].in
  <2>1. Link("CH") = "relay" /\ EndOf("CH") = "near"
    BY Names
  <2>2. n \in 0 .. Len(At(x, "CH").in)
    BY <1>2
  <2>. HIDE DEF n
  <2>. QED  BY <1>1, <2>1, <2>2, ReadingDoes
<1>4. z.links = w.links /\ z.objects["CH"] = k /\ \A t \in Objects : t # "CH" => z.objects[t] = x.objects[t]
  BY <1>1, ObjectSet
<1>. HIDE DEF w, v, in
<1>5. \A t \in Readers : At(z, t) = At(w, t) /\ Stands(z, t) = Stands(w, t)
  BY <1>4 DEF At, Stands
<1>6. Meant(z)
  <2>1. ~ z.objects["SH"].meta => AllMeta(z.objects["CH"].wb) /\ AllMeta(z.links["relay"]["far"].in)
    <3>1. "relay" \in LinkNames /\ "far" \in Ends
      BY DEF LinkNames, Ends
    <3>. QED  BY <1>1, <1>3, <1>4, <3>1 DEF Flows, Meant
  <2>2. \A l \in LinkNames : Joined(z.links[l])
    <3>1. "near" \in Ends /\ "far" \in Ends
      BY DEF Ends
    <3>. QED  BY <1>3, <1>4, <3>1 DEF Flows, Meant, Joined
  <2>3. \A l \in LinkNames, e \in Ends : z.links[l][e].state \in {"none", "closed"} => z.links[l][e].in = <<>>
    <3>. TAKE l \in LinkNames, e \in Ends
    <3>1. x.links[l][e].state \in {"none", "closed"} => x.links[l][e].in = <<>>
      BY DEF Flows, Meant
    <3>2. CASE l = "relay" /\ e = "near"
      <4>1. At(w, "CH") = w.links["relay"]["near"]
        BY <1>1, WayNames, Names DEF At
      <4>. QED  BY <1>2, <1>3, <1>4, <3>2, <4>1
    <3>3. CASE ~ (l = "relay" /\ e = "near")
      BY <1>3, <1>4, <3>1, <3>3
    <3>. QED  BY <3>2, <3>3
  <2>4. \A o \in Objects : z.objects[o].life = "none" => Blank(z.objects[o])
    BY <1>4 DEF Flows, Meant
  <2>. QED  BY <1>4, <2>1, <2>2, <2>3, <2>4 DEF Meant
<1>7. \A t \in Readers : t # "CH" => Arrived(z, t) = Arrived(x, t)
  BY <1>1, <1>3, <1>4, <1>5 DEF Arrived
<1>8. Arrived(x, "CH") = Tail(in) \o Arrived(z, "CH")
  <2>1. Arrived(x, "CH") = Tail(in)
    BY <1>1 DEF Arrived, in
  <2>2. Arrived(z, "CH") = <<>>
    BY <1>1, <1>2, <1>3, <1>4, <1>5 DEF Arrived
  <2>3. Tail(in) \o <<>> = Tail(in)
    BY <1>2, Joints
  <2>. QED  BY <2>1, <2>2, <2>3
<1>9. \A t \in Objects : Kept(z, t) = Kept(x, t)
  BY <1>1, <1>4 DEF Kept
<1>10. \A t \in Readers : Stands(z, t) = Stands(x, t)
  BY <1>3, <1>5
<1>11. FlowsLate(z, g, "CH", Tail(in))
  BY <1>1, <1>2, <1>6, <1>7, <1>8, <1>9, <1>10, LateIs
<1>. QED  BY <1>11 DEF in

\* Who lives stands, and who ended does not.
LEMMA StandsWhoLives ==
  ASSUME NEW x, Base(x), NEW o \in Objects
  PROVE  /\ x.objects[o].life = "live" => Stands(x, o) /\ HasSocket(x, o) /\ StateOf(x, o) # "none"
         /\ x.objects[o].life \notin {"live", "none"} => ~ Stands(x, o)
<1>1. /\ At(x, o) = x.links[Link(o)][EndOf(o)] /\ Own(x, o) /\ Shaped(x.links[Link(o)]) /\ x \in Proxy
      /\ EndOf(o) = "near" \/ EndOf(o) = "far"
  BY PartsOf, Cells DEF Base, Ends
<1>2. At(x, o).state = StateOf(x, o)
  BY <1>1 DEF StateOf
<1>3. StateOf(x, o) \in {"none", "connecting", "queued", "open", "closed"}
  BY <1>1 DEF Shaped, StateOf
<1>4. HasSocket(x, o) <=> x.objects[o].life = "live"
  BY SocketLive
<1>. QED  BY <1>1, <1>2, <1>3, <1>4 DEF Stands, Own

\* A hand hands on to its dispatcher what it read.
LEMMA ToDispatcherFlows ==
  ASSUME NEW x, Sound(x), NEW h \in Hands, x.objects[h].life = "live", x.objects["SH"].ack, ~ Gone(x, h),
         NEW g \in PartyTypes, NEW data \in Seq(Int), FlowsLate(x, g, h, data)
  PROVE  Flows(ToDispatcher(x, h, data), g)
<1>1. /\ Steady(x) /\ Base(x) /\ x \in Proxy /\ Pair(x, h) /\ h \in Objects /\ Mate(h) \in Objects
      /\ Host(Mate(h)) = Host(h) /\ Host(h) \in Hosts
  <2>1. h \in Objects
    BY DEF Objects
  <2>. QED  BY <2>1, SoundParts, Mates
<1>2. CASE x.objects[h].dispatcher
  <2>1. x.objects[Mate(h)].life = "live"
    BY <1>1, <1>2 DEF Pair
  <2>2. Stands(x, Mate(h))
    BY <1>1, <2>1, StandsWhoLives
  <2>3. FlowsWith(x, g, Mate(h), data)
    BY <1>1, <2>2, LateGoesOn
  <2>4. ~ Gone(x, Mate(h))
    BY <1>1 DEF Gone
  <2>. QED  BY <1>1, <1>2, <2>1, <2>3, <2>4, SinkFlows DEF ToDispatcher
<1>3. CASE ~ x.objects[h].dispatcher
  <2>1. \A l \in LinkNames : Shaped(x.links[l])
    BY <1>1 DEF Base
  <2>2. StateOf(x, h) # "none"
    BY <1>1, StandsWhoLives
  <2>3. Fading(x, End_(x, Host(h))) /\ ~ Stands(End_(x, Host(h)), h)
    BY <1>1, <2>1, <2>2, EndFading
  <2>4. Flows(End_(x, Host(h)), g)
    BY <1>1, <2>3, LateLost
  <2>. QED  BY <1>3, <2>4 DEF ToDispatcher
<1>. QED  BY <1>2, <1>3

\* The hand of the caller, once it is answered.
LEMMA CallerReadsFlows ==
  ASSUME NEW x, Sound(x), x.objects["CH"].life = "live", x.objects["SH"].ack, ~ Gone(x, "CH"),
         NEW g \in PartyTypes, NEW data \in Seq(Int), data # <<>>,
         IF x.objects["CH"].ack THEN FlowsLate(x, g, "CH", data)
         ELSE FlowsLate([x EXCEPT !.objects["CH"].ack = TRUE], g, "CH", Tail(data))
  PROVE  Flows(CallerReads(x, data), g)
<1>. DEFINE a == [x EXCEPT !.objects["CH"].ack = TRUE]
            z == DispatcherSignal(a, "CD", "dst_connected")
            y == CallerReads(x, data)
<1>1. /\ "CH" \in Hands /\ "CD" \in Objects /\ "CD" \in Dispatchers /\ "CH" \in Objects /\ Mate("CH") = "CD"
      /\ Host("CH") = "caller" /\ Host("CD") = "caller"
  BY Names DEF Hands, Dispatchers
<1>2. CASE x.objects["CH"].ack
  BY <1>1, <1>2, ToDispatcherFlows DEF CallerReads
<1>3. CASE ~ x.objects["CH"].ack
  <2>1. /\ Sound(a) /\ a.objects["CH"].life = "live" /\ a.objects["CH"].ack
        /\ \A t \in Objects : t # "CH" => a.objects[t] = x.objects[t]
    BY AckedSound
  <2>2. y = IF Head(data) = DstFailed THEN HandConnClose(a, "CH", "dst_failed")
            ELSE IF ~ a.objects["CH"].dispatcher THEN a
            ELSE IF Tail(data) = <<>> THEN z ELSE Sink(z, "CD", Tail(data))
    <3>. DEFINE then(u) == IF Tail(data) = <<>> THEN u ELSE Sink(u, "CD", Tail(data))
    <3>1. (CHOOSE u \in {then(v) : v \in {z}} : TRUE) = then(z)
      <4>1. \A u \in {then(v) : v \in {z}} : u = then(z)
        OBVIOUS
      <4>2. then(z) \in {then(v) : v \in {z}}
        OBVIOUS
      <4>. QED  BY <4>1, <4>2
    <3>. QED  BY <1>3, <3>1 DEF CallerReads, Then
  <2>3. a.hosts = x.hosts /\ FlowsLate(a, g, "CH", Tail(data))
    BY <1>3, SoundParts DEF Proxy
  <2>. HIDE DEF a, y
  <2>4. /\ Tail(data) \in Seq(Int) /\ Steady(a) /\ Base(a) /\ a \in Proxy /\ Pair(a, "CH")
    BY <1>1, <2>1, SoundParts
  <2>5. CASE y = HandConnClose(a, "CH", "dst_failed")
    <3>1. HasSocket(a, "CH")
      BY <1>1, <2>1, <2>4, StandsWhoLives
    <3>2. Fading(a, y) /\ ~ Stands(y, "CH")
      BY <1>1, <2>4, <2>5, <3>1, HandConnCloseFading
    <3>3. Flows(y, g)
      BY <1>1, <2>3, <2>4, <3>2, LateLost
    <3>. QED  BY <3>3 DEF y
  <2>6. CASE ~ a.objects["CH"].dispatcher /\ y = a
    <3>1. a.objects["CD"].life \notin {"live", "none"}
      BY <1>1, <2>1, <2>4, <2>6 DEF Pair, Base, InTurn
    <3>2. ~ Stands(a, "CD")
      BY <1>1, <2>4, <3>1, StandsWhoLives
    <3>3. Flows(a, g)
      BY <1>1, <2>3, <2>4, <3>2, LateGoesOn
    <3>. QED  BY <2>6, <3>3 DEF y
  <2>7. CASE a.objects["CH"].dispatcher /\ y = IF Tail(data) = <<>> THEN z ELSE Sink(z, "CD", Tail(data))
    <3>1. Sound(z) /\ z.objects["CD"].life = "live"
      BY <2>1, <2>7, ServedSound
    <3>2. Fading(a, z)
      BY <1>1, <2>4, DispatcherSignalSilent DEF Silent
    <3>3. z.hosts = a.hosts
      BY <2>4 DEF DispatcherSignal, Proxy
    <3>. HIDE DEF z
    <3>4. Steady(z) /\ z \in Proxy
      BY <3>1 DEF Sound, Steady, Base
    <3>5. a.objects["CD"].life = "live"
      BY <1>1, <2>1, <2>4, <2>7 DEF Pair
    <3>6. FlowsWith(a, g, "CD", Tail(data))
      BY <1>1, <2>3, <2>4, <3>5, StandsWhoLives, LateGoesOn
    <3>7. FlowsWith(z, g, "CD", Tail(data))
      BY <1>1, <2>4, <3>2, <3>6, FadingFlows
    <3>8. CASE Tail(data) = <<>>
      BY <1>1, <2>7, <3>4, <3>7, <3>8, WithNothing DEF y
    <3>9. CASE Tail(data) # <<>>
      <4>1. ~ Gone(z, "CD")
        BY <1>1, <2>3, <3>3 DEF Gone
      <4>2. Flows(Sink(z, "CD", Tail(data)), g)
        BY <1>1, <2>4, <3>1, <3>4, <3>7, <4>1, SinkFlows
      <4>. QED  BY <2>7, <3>9, <4>2 DEF y
    <3>. QED  BY <3>8, <3>9
  <2>. QED  BY <2>2, <2>5, <2>6, <2>7
<1>. QED  BY <1>2, <1>3

\* A hand that reads an error or the end loses data at most.
LEMMA ReadOnFading ==
  ASSUME NEW x \in Proxy, NEW h \in Hands
  PROVE  Fading(x, ReadOn(x, h))
<1>1. Fading(x, HandConnClose(x, h, "conn_disconn"))
  BY HandConnCloseFading
<1>. QED  BY <1>1, FadingItself DEF ReadOn

\* When a hand has answered before it reads more.
LEMMA ReadsOnceAnswered ==
  ASSUME NEW x, Steady(x), x.objects["SH"].meta, x.links["relay"]["far"].in # <<>>
  PROVE  x.objects["SH"].ack
<1>. DEFINE n == Len(x.objects["CH"].wb)
            v == Len(x.links["relay"]["far"].in)
<1>1. SUFFICES ASSUME ~ x.objects["SH"].ack  PROVE  FALSE
  OBVIOUS
<1>2. Heading(x) <= 0 /\ x \in Proxy
  BY <1>1 DEF Steady, Base, Quiet
<1>3. n \in Nat /\ v \in Nat /\ v # 0 /\ Heading(x) = n + v
  BY <1>2, HeadingNat, EmptySeq DEF Heading
<1>. HIDE DEF n, v
<1>. QED  BY <1>2, <1>3

\* What the hand of the callee reads.
LEMMA CalleeReadsFlows ==
  ASSUME NEW x, Sound(x), x.objects["SH"].life = "live", ~ Gone(x, "SH"),
         NEW g \in PartyTypes, NEW data \in Seq(Int),
         x.objects["SH"].meta => x.objects["SH"].ack /\ FlowsLate(x, g, "SH", data),
         ~ x.objects["SH"].meta => Flows(x, g) /\ (~ Len(data) > 1 => Heading(x) = 0),
         NEW y \in CalleeReads(x, data)
  PROVE  Sound(y) /\ Flows(y, g)
<1>1. "SH" \in Hands /\ "callee" \in Hosts /\ Base(x) /\ x \in Proxy
  BY DEF Hands, Hosts, Sound, Steady, Base
<1>2. CASE x.objects["SH"].meta
  BY <1>1, <1>2, ToDispatcherFlows, ToDispatcherSound DEF CalleeReads
<1>3. CASE ~ x.objects["SH"].meta /\ Len(data) > 1
  <2>1. y = End_(x, "callee")
    BY <1>3 DEF CalleeReads
  <2>2. Fading(x, y)
    BY <1>1, <2>1, EndFading DEF Base
  <2>. QED  BY <1>1, <1>3, <2>1, <2>2, FadingStill, EndSound
<1>4. CASE ~ x.objects["SH"].meta /\ ~ Len(data) > 1
  BY <1>4, CalleeParseMetaFlows, CalleeParseMetaSound DEF CalleeReads
<1>. QED  BY <1>2, <1>3, <1>4

\* Whatever a hand reads, the data go on.
LEMMA HandReadFlows ==
  ASSUME NEW x, Sound(x), NEW h \in Hands, x.objects[h].life = "live", ~ Gone(x, h),
         NEW g \in PartyTypes, Flows(x, g), NEW y \in HandRead(x, h)
  PROVE  Flows(y, g)
<1>. DEFINE l == x.links["relay"]
            data == l[EndOf(h)].in
            n == Len(data)
            m == Consume(l, EndOf(h), n)
            r == SetLink(x, "relay", m)
<1>1. /\ Steady(x) /\ Base(x) /\ Quiet(x) /\ x \in Proxy /\ h \in Objects /\ Link(h) = "relay" /\ "relay" \in LinkNames
      /\ EndOf(h) \in Ends /\ l \in Wire /\ data \in Seq(Int) /\ Len(data) \in Nat
      /\ "CH" \in Objects /\ "SH" \in Objects /\ EndOf("CH") = "near" /\ EndOf("SH") = "far"
      /\ At(x, h) = l[EndOf(h)]
  <2>1. h \in Objects
    BY DEF Objects
  <2>2. At(x, h) = l[EndOf(h)]
    BY <2>1, Mates, Cells DEF Sound, Steady, Base
  <2>. QED  BY <2>1, <2>2, Names, Mates, PartsOf DEF Sound, Steady, LinkNames
<1>2. CASE data = <<>>
  <2>1. y = ReadOn(x, h)
    BY <1>2 DEF HandRead
  <2>. QED  BY <1>1, <2>1, ReadOnFading, FadingStill
<1>3. CASE data # <<>>
  <2>1. SameStates(l, m) /\ NoMore(l, m)
    <3>1. Len(data) \in 0 .. Len(l[EndOf(h)].in)
      BY <1>1
    <3>. QED  BY <1>1, <3>1, LinkData, OtherNoMore
  <2>2. Sound(r) /\ r.objects = x.objects /\ r.hosts = x.hosts /\ r.links["relay"] = m
    <3>. HIDE DEF m
    <3>. QED  BY <1>1, <2>1, LinkSound
  <2>3. \E u \in (IF h = "CH" THEN {CallerReads(r, data)} ELSE CalleeReads(r, data)) :
          y = IF Gone(u, h) THEN u ELSE ReadOn(u, h)
    BY <1>3 DEF HandRead, SetLink
  <2>4. r = Reading(x, h, n) /\ n \in 0 .. Len(At(x, h).in) /\ data = At(x, h).in
    BY <1>1 DEF Reading
  <2>5. SubSeq(data, 1, n) = data
    <3>. HIDE DEF data
    <3>. QED  BY <1>1, Joints DEF n
  <2>6. ~ Gone(r, h) /\ r \in Proxy /\ Steady(r)
    BY <1>1, <2>2 DEF Gone, Sound, Steady, Base
  <2>7. At(r, h).in = SubSeq(data, n + 1, Len(data)) /\ SubSeq(data, n + 1, Len(data)) = <<>>
    <3>1. At(r, h).in = SubSeq(data, n + 1, Len(data))
      <4>. DEFINE w == Reading(x, h, n)
      <4>. HIDE DEF n
      <4>1. At(w, h).in = SubSeq(At(x, h).in, n + 1, Len(At(x, h).in))
        BY <1>1, <2>4, ReadingDoes
      <4>. HIDE DEF w, data, r
      <4>2. r = w
        BY <2>4 DEF w
      <4>. QED  BY <2>4, <4>1, <4>2
    <3>. HIDE DEF data, r
    <3>. QED  BY <1>1, <3>1, Joints DEF n
  <2>. HIDE DEF r, m
  <2>8. ASSUME NEW u, Sound(u), Flows(u, g), y = IF Gone(u, h) THEN u ELSE ReadOn(u, h)
        PROVE  Flows(y, g)
    <3>1. u \in Proxy
      BY <2>8 DEF Sound, Steady, Base
    <3>2. Flows(ReadOn(u, h), g)
      BY <2>8, <3>1, ReadOnFading, FadingStill
    <3>. QED  BY <2>8, <3>2
  <2>9. CASE h = "CH"
    <3>1. x.objects["SH"].ack
      BY <1>1, <1>3, <2>9 DEF Quiet
    <3>2. IF r.objects["CH"].ack THEN FlowsLate(r, g, "CH", data)
          ELSE FlowsLate([r EXCEPT !.objects["CH"].ack = TRUE], g, "CH", Tail(data))
      <4>1. CASE x.objects["CH"].ack
        <5>1. FlowsLate(Reading(x, h, n), g, h, SubSeq(At(x, h).in, 1, n))
          <6>. HIDE DEF n, data
          <6>. QED  BY <1>1, <2>4, <2>9, <4>1, ReadingLate
        <5>. QED  BY <2>2, <2>4, <2>5, <2>9, <4>1, <5>1
      <4>2. CASE ~ x.objects["CH"].ack
        <5>. DEFINE k == [r.objects["CH"] EXCEPT !.ack = TRUE]
                    a == SetObject(r, "CH", k)
        <5>1. a = [r EXCEPT !.objects["CH"].ack = TRUE]
          BY DEF SetObject
        <5>2. /\ k \in Object /\ k.ack /\ k.wb = x.objects["CH"].wb /\ k.life = "live"
          <6>1. x.objects["CH"] \in Object /\ r.objects["CH"] = x.objects["CH"]
            BY <1>1, <2>2, ProxyFields
          <6>. QED  BY <2>9, <6>1 DEF Object
        <5>. HIDE DEF k
        <5>3. a \in Proxy /\ a.links = r.links /\ a.objects = SetObject(x, "CH", k).objects
          <6>1. a \in Proxy /\ a.links = r.links /\ a.objects = [r.objects EXCEPT !["CH"] = k]
            BY <1>1, <2>6, <5>2, SetFacts
          <6>. HIDE DEF a
          <6>2. SetObject(x, "CH", k).objects = [x.objects EXCEPT !["CH"] = k]
            BY <1>1, <5>2, SetFacts
          <6>. QED  BY <2>2, <6>1, <6>2
        <5>. HIDE DEF a
        <5>4. a.links = Reading(x, "CH", Len(At(x, "CH").in)).links /\ At(x, "CH").in # <<>>
          BY <1>3, <2>4, <2>9, <5>3
        <5>5. FlowsLate(a, g, "CH", Tail(At(x, "CH").in))
          BY <1>1, <2>9, <4>2, <5>2, <5>3, <5>4, AnswerRead
        <5>. QED  BY <2>2, <2>4, <2>9, <4>2, <5>1, <5>5
      <4>. QED  BY <4>1, <4>2
    <3>3. Sound(CallerReads(r, data)) /\ Flows(CallerReads(r, data), g)
      <4>. HIDE DEF data
      <4>. QED  BY <1>1, <1>3, <2>2, <2>6, <2>9, <3>1, <3>2, CallerReadsSound, CallerReadsFlows
    <3>. QED  BY <2>3, <2>8, <2>9, <3>3
  <2>10. CASE h = "SH"
    <3>1. x.objects["SH"].meta => x.objects["SH"].ack /\ FlowsLate(r, g, "SH", data)
      <4>1. SUFFICES ASSUME x.objects["SH"].meta
                     PROVE  x.objects["SH"].ack /\ FlowsLate(r, g, "SH", data)
        OBVIOUS
      <4>2. x.objects["SH"].ack
        BY <1>1, <1>3, <2>10, <4>1, ReadsOnceAnswered
      <4>3. FlowsLate(Reading(x, h, n), g, h, SubSeq(At(x, h).in, 1, n))
        <5>. HIDE DEF n, data
        <5>. QED  BY <1>1, <2>4, <2>10, <4>1, ReadingLate
      <4>. QED  BY <2>4, <2>5, <2>10, <4>2, <4>3
    <3>2. ~ x.objects["SH"].meta => Flows(r, g)
      <4>. HIDE DEF n, data
      <4>. QED  BY <1>1, <2>4, <2>10, AddressRead
    <3>3. ASSUME ~ x.objects["SH"].meta, ~ n > 1  PROVE Heading(r) = 0
      <4>1. Heading(x) <= 1
        <5>1. Heading(x) \in Nat
          BY <1>1, HeadingNat
        <5>2. Heading(x) <= 0 \/ Heading(x) <= 1
          BY <1>1, <3>3 DEF Quiet
        <5>. QED  BY <5>1, <5>2
      <4>. DEFINE a == Len(x.objects["CH"].wb)
                  v == Len(data)
      <4>2. a \in Nat /\ v \in Nat /\ v # 0 /\ Heading(x) = a + v
        BY <1>1, <1>3, <2>10, HeadingNat, EmptySeq DEF Heading
      <4>3. Heading(r) = a + 0
        <5>1. Len(<<>>) = 0
          OBVIOUS
        <5>2. r.links["relay"]["far"].in = <<>> /\ r.objects["CH"].wb = x.objects["CH"].wb
          <6>1. At(r, "SH") = r.links["relay"]["far"]
            BY <1>1, <2>6, <2>10, Cells
          <6>. QED  BY <2>2, <2>7, <2>10, <6>1
        <5>. HIDE DEF a
        <5>3. Heading(r) = Len(r.objects["CH"].wb) + Len(r.links["relay"]["far"].in)
          BY DEF Heading
        <5>. QED  BY <5>1, <5>2, <5>3 DEF a
      <4>. HIDE DEF a, v
      <4>. QED  BY <4>1, <4>2, <4>3
    <3>4. ASSUME NEW u \in CalleeReads(r, data)  PROVE Sound(u) /\ Flows(u, g)
      <4>1. ~ r.objects["SH"].meta => Flows(r, g) /\ (~ Len(data) > 1 => Heading(r) = 0)
        BY <2>2, <3>2, <3>3
      <4>. HIDE DEF data
      <4>. QED  BY <1>1, <2>2, <2>6, <2>10, <3>1, <3>4, <4>1, CalleeReadsFlows
    <3>5. \E u \in CalleeReads(r, data) : y = IF Gone(u, h) THEN u ELSE ReadOn(u, h)
      BY <2>3, <2>10
    <3>. QED  BY <2>8, <3>4, <3>5
  <2>. QED  BY <2>9, <2>10 DEF Hands
<1>. QED  BY <1>2, <1>3

\* A flush by itself.
LEMMA FlushFlowsOn ==
  ASSUME NEW x, Steady(x), NEW o \in Objects, x.objects[o].wb = <<>> \/ x.objects[o].life = "live",
         NEW g \in PartyTypes, Flows(x, g)
  PROVE  Flows(FlushBuffer(x, o), g)
<1>. DEFINE y == FlushBuffer(x, o)
<1>1. x \in Proxy /\ <<>> \in Seq(Int)
  BY DEF Steady, Base
<1>2. y \in Proxy
  BY FlushSteady DEF Moves, Steady, Base
<1>3. FlowsWith(x, g, o, <<>>)
  BY <1>1, WithNothing
<1>4. FlowsWith(y, g, o, <<>>)
  BY <1>1, <1>3, FlushFlows
<1>. HIDE DEF y
<1>5. Flows(y, g)
  BY <1>2, <1>4, WithNothing
<1>. QED  BY <1>5 DEF y

\* The hand of the caller is connected and flushes the address.
LEMMA HandConnectedFlows ==
  ASSUME NEW x, Sound(x), NEW g \in PartyTypes, Flows(x, g)
  PROVE  Flows(HandConnected(x), g)
<1>. DEFINE k == [x.objects["CH"] EXCEPT !.status = "connected"]
            y == SetObject(x, "CH", k)
<1>1. CASE ~ (HasSocket(x, "CH") /\ x.objects["CH"].status = "connecting")
  BY <1>1 DEF HandConnected
<1>2. CASE HasSocket(x, "CH") /\ x.objects["CH"].status = "connecting"
  <2>1. /\ Steady(x) /\ Base(x) /\ x \in Proxy /\ "CH" \in Objects /\ x.objects["CH"] \in Object
    BY Names, PartsOf DEF Sound, Steady
  <2>2. x.objects["CH"].life = "live"
    BY <1>2, <2>1, SocketLive
  <2>3. HandConnected(x) = FlushBuffer(y, "CH")
    BY <1>2 DEF HandConnected, SetObject
  <2>4. /\ Mild(x.objects["CH"], k) /\ k.life = "live" /\ k \in Object /\ Keeps(x.objects["CH"], k)
    BY <2>1, <2>2 DEF Mild, Object, Keeps
  <2>. HIDE DEF k
  <2>5. Steady(y) /\ y.objects["CH"] = k
    BY <2>1, <2>4, MildSteady
  <2>6. Fading(x, y)
    BY <2>1, <2>4, ObjectFading
  <2>. HIDE DEF y
  <2>7. Flows(y, g)
    BY <2>1, <2>6, FadingStill
  <2>8. Flows(FlushBuffer(y, "CH"), g)
    BY <2>1, <2>4, <2>5, <2>7, FlushFlowsOn
  <2>. QED  BY <2>3, <2>8
<1>. QED  BY <1>1, <1>2

\* Whatever is reported of a hand, the data go on.
LEMMA HandOnEventFlows ==
  ASSUME NEW x, Sound(x), NEW h \in Hands, x.objects[h].life = "live", ~ Gone(x, h), NEW events,
         NEW g \in PartyTypes, Flows(x, g), NEW y \in HandOnEvent(x, h, events)
  PROVE  Flows(y, g)
<1>0. x \in Proxy
  BY DEF Sound, Steady, Base
<1>1. CASE "HUP" \in events
  <2>. DEFINE code == IF x.objects[h].status = "connecting" THEN "conn_failed" ELSE "conn_disconn"
  <2>1. y = HandConnClose(x, h, code)
    BY <1>1 DEF HandOnEvent
  <2>. HIDE DEF code
  <2>2. Fading(x, y)
    BY <1>0, <2>1, HandConnCloseFading
  <2>. QED  BY <1>0, <2>2, FadingStill
<1>2. CASE "HUP" \notin events
  <2>1. PICK u \in (IF "IN" \in events THEN HandRead(x, h) ELSE {x}) :
          y = IF "OUT" \in events /\ ~ Gone(u, h) THEN HandConnected(u) ELSE u
    BY <1>2 DEF HandOnEvent
  <2>2. Sound(u) /\ Flows(u, g)
    BY <2>1, HandReadSound, HandReadFlows
  <2>. QED  BY <2>1, <2>2, HandConnectedFlows
<1>. QED  BY <1>1, <1>2

-------------------------------------------------------------------------------
(* The dispatchers. *)

\* The origin server is not reached: the hand answers so and closes.
LEMMA UnreachedFlows ==
  ASSUME NEW x, Sound(x), x.objects["SD"].life = "live", x.objects["SD"].status = "connecting",
         NEW g \in PartyTypes, Flows(x, g)
  PROVE  Flows(DispatcherConnClose(x, "SD", "dst_failed"), g)
<1>. DEFINE j == [x.objects["SH"] EXCEPT !.dispatcher = FALSE]
            alone == SetObject(x, "SH", j)
            a == SendMetaAck(alone, DstFailed)
            s == CloseAlone(a, "SH")
            k == [s.objects["SD"] EXCEPT !.hands = "none"]
            w == SetObject(s, "SD", k)
<1>1. /\ Steady(x) /\ Base(x) /\ x \in Proxy /\ "SH" \in Objects /\ "SD" \in Objects /\ x.objects["SH"] \in Object
      /\ Mate("SD") = "SH" /\ x.objects["SH"].life = "live" /\ x.objects["SH"].meta /\ x.objects["SD"].hands # "none"
      /\ DstFailed \in Int /\ DstFailed <= 0
  <2>1. Steady(x) /\ Base(x) /\ "SH" \in Objects /\ "SD" \in Objects /\ Mate("SD") = "SH"
    BY Names DEF Sound, Steady
  <2>2. x.objects["SH"] \in Object /\ x \in Proxy
    BY <2>1, PartsOf
  <2>3. /\ x.objects["SH"].life = "live" /\ x.objects["SH"].meta /\ x.objects["SD"].hands # "none"
    BY <2>1 DEF Sound, Reaching, Base, InTurn
  <2>. QED  BY <2>1, <2>2, <2>3 DEF DstFailed
<1>2. DispatcherConnClose(x, "SD", "dst_failed") = CloseAlone(w, "SD")
  BY <1>1 DEF DispatcherConnClose, HandSignal, SetObject
<1>3. Mild(x.objects["SH"], j) /\ j \in Object /\ Keeps(x.objects["SH"], j) /\ j.meta
  BY <1>1 DEF Mild, Object, Keeps
<1>. HIDE DEF j
<1>4. Steady(alone) /\ alone.objects["SH"] = j
  BY <1>1, <1>3, MildSteady
<1>5. Fading(x, alone)
  BY <1>1, <1>3, ObjectFading
<1>. HIDE DEF alone
<1>6. Flows(alone, g)
  BY <1>1, <1>5, FadingStill
<1>7. Flows(a, g) /\ a \in Proxy
  <2>1. Steady(a)
    BY <1>1, <1>3, <1>4, SendMetaAckSteady
  <2>. QED  BY <1>1, <1>3, <1>4, <1>6, <2>1, SendMetaAckFlows DEF Steady, Base
<1>. HIDE DEF a
<1>8. Fading(a, s) /\ s \in Proxy
  BY <1>1, <1>7, CloseAloneFading
<1>. HIDE DEF s
<1>9. k \in Object /\ Keeps(s.objects["SD"], k)
  BY <1>1, <1>8, ProxyFields, ObjectMarks
<1>. HIDE DEF k
<1>10. Fading(s, w) /\ w \in Proxy
  BY <1>1, <1>8, <1>9, ObjectFading
<1>. HIDE DEF w
<1>11. Fading(w, CloseAlone(w, "SD"))
  BY <1>1, <1>10, CloseAloneFading
<1>12. Fading(a, CloseAlone(w, "SD"))
  BY <1>8, <1>10, <1>11, FadingTwice
<1>. QED  BY <1>2, <1>7, <1>12, FadingStill

\* The origin server is reached: the answer is ahead of the data.
LEMMA ReachedFlows ==
  ASSUME NEW x, Sound(x), x.objects["SD"].life = "live", x.objects["SD"].status = "connecting",
         NEW g \in PartyTypes, Flows(x, g)
  PROVE  Flows([HandSignal(x, "SH", "dst_connected") EXCEPT
                  !.objects["SD"].status = "connected", !.objects["SD"].hands = "ready",
                  !.objects["SD"].alarm = TRUE], g)
<1>. DEFINE a == SendMetaAck(x, DstConnected)
            k == [a.objects["SD"] EXCEPT !.status = "connected", !.hands = "ready", !.alarm = TRUE]
            y == SetObject(a, "SD", k)
<1>1. /\ Steady(x) /\ Base(x) /\ "SH" \in Objects /\ "SD" \in Objects /\ x.objects["SH"].meta
      /\ DstConnected \in Int /\ DstConnected <= 0
  BY Names DEF Sound, Steady, Base, InTurn, DstConnected
<1>2. Steady(a) /\ a \in Proxy /\ Flows(a, g)
  BY <1>1, SendMetaAckSteady, SendMetaAckFlows DEF Steady, Base
<1>3. [HandSignal(x, "SH", "dst_connected") EXCEPT
         !.objects["SD"].status = "connected", !.objects["SD"].hands = "ready", !.objects["SD"].alarm = TRUE] = y
  <2>1. HandSignal(x, "SH", "dst_connected") = a
    BY DEF HandSignal
  <2>2. "SD" \in DOMAIN a.objects /\ a.objects["SD"] \in Object
    BY <1>1, <1>2, ProxyFields
  <2>. HIDE DEF a
  <2>. QED  BY <1>2, <2>1, <2>2 DEF SetObject, Object, Proxy
<1>. HIDE DEF a
<1>4. k \in Object /\ Keeps(a.objects["SD"], k)
  BY <1>1, <1>2, ProxyFields, ObjectMarks
<1>. HIDE DEF k
<1>5. Fading(a, y)
  BY <1>1, <1>2, <1>4, ObjectFading
<1>. HIDE DEF y
<1>. QED  BY <1>2, <1>3, <1>5, FadingStill

\* Whatever is reported of a dispatcher that connects, the data go on.
LEMMA DispatcherOnEventFlows ==
  ASSUME NEW x, Sound(x), x.objects["SD"].life = "live", x.objects["SD"].status = "connecting", NEW events,
         NEW g \in PartyTypes, Flows(x, g)
  PROVE  Flows(DispatcherOnEvent(x, events), g)
BY UnreachedFlows, ReachedFlows DEF DispatcherOnEvent

\* The alarm of a hand flushes, and may close; a flush without socket ends the host.
LEMMA OutBandwidthAlarmFlows ==
  ASSUME NEW x, Sound(x), NEW h \in Hands, NEW g \in PartyTypes, Flows(x, g)
  PROVE  Flows(OutBandwidthAlarm(x, h), g)
<1>. DEFINE f == FlushBuffer(x, h)
            then(u) == IF ~ Gone(u, h) /\ u.objects[h].waitClose /\ u.objects[h].wb = <<>>
                       THEN HandConnClose(u, h, "conn_disconn") ELSE u
<1>1. OutBandwidthAlarm(x, h) = then(f)
  <2>1. (CHOOSE u \in {then(v) : v \in {f}} : TRUE) = then(f)
    <3>1. \A u \in {then(v) : v \in {f}} : u = then(f)
      OBVIOUS
    <3>2. then(f) \in {then(v) : v \in {f}}
      OBVIOUS
    <3>. QED  BY <3>1, <3>2
  <2>. QED  BY <2>1 DEF OutBandwidthAlarm, Then
<1>2. Steady(x) /\ Base(x) /\ x \in Proxy /\ h \in Objects /\ Host(h) \in Hosts
  BY Mates DEF Sound, Steady, Base, Objects
<1>3. Flows(f, g) /\ f \in Proxy
  <2>1. CASE x.objects[h].wb = <<>> \/ x.objects[h].life = "live"
    BY <1>2, <2>1, FlushFlowsOn, FlushSteady DEF Moves, Steady, Base
  <2>2. CASE x.objects[h].wb # <<>> /\ x.objects[h].life # "live"
    <3>1. ~ HasSocket(x, h)
      BY <1>2, <2>2, SocketLive
    <3>2. f = End_(x, Host(h))
      BY <2>2, <3>1 DEF FlushBuffer
    <3>. HIDE DEF f
    <3>3. Fading(x, f)
      BY <1>2, <3>2, EndFading DEF Base
    <3>. QED  BY <1>2, <3>3, FadingStill DEF Fading
  <2>. QED  BY <2>1, <2>2
<1>. HIDE DEF f
<1>4. Fading(f, HandConnClose(f, h, "conn_disconn"))
  BY <1>3, HandConnCloseFading
<1>5. Flows(HandConnClose(f, h, "conn_disconn"), g)
  BY <1>3, <1>4, FadingStill
<1>. QED  BY <1>1, <1>3, <1>5

\* A dispatcher reads what its budget allows and hands it on.
LEMMA HandleSocketAlarmFlows ==
  ASSUME NEW x, Sound(x), NEW d \in Dispatchers, x.objects[d].life = "live", x.objects[d].alarm, ~ Gone(x, d),
         NEW b \in Nat, NEW g \in PartyTypes, Flows(x, g)
  PROVE  Flows(HandleSocketAlarm(x, d, b), g)
<1>. DEFINE l == x.links[Link(d)]
            in == l[EndOf(d)].in
            n == Min({b, Len(in)})
            data == SubSeq(in, 1, n)
            m == Consume(l, EndOf(d), Len(data))
            r == SetLink(x, Link(d), m)
            h == Mate(d)
            s == IF data = <<>> THEN r ELSE HandSink(r, h, data)
            y == HandleSocketAlarm(x, d, b)
<1>1. /\ Steady(x) /\ Base(x) /\ Quiet(x) /\ x \in Proxy /\ d \in Objects /\ h \in Hands /\ Mate(h) = d
      /\ Link(d) \in LinkNames /\ Link(d) # "relay" /\ EndOf(d) \in Ends /\ l \in Wire
      /\ in \in Seq(Int) /\ Len(in) \in Nat /\ Pair(x, h) /\ At(x, d) = l[EndOf(d)]
      /\ h \in Objects /\ Host(h) = Host(d) /\ d # "CH" /\ d # "SH"
  <2>1. d \in Objects /\ Mate(d) \in Hands /\ Mate(Mate(d)) = d /\ Link(d) # "relay" /\ d # "CH" /\ d # "SH"
        /\ Mate(d) \in Objects /\ Host(Mate(d)) = Host(d)
    BY Names DEF Dispatchers, Hands
  <2>2. x \in Proxy
    BY DEF Sound, Steady, Base
  <2>3. At(x, d) = l[EndOf(d)]
    BY <2>1, <2>2, Cells
  <2>. QED  BY <2>1, <2>2, <2>3, PartsOf DEF Sound, Steady
<1>2. CASE x.objects[d].hands # "ready"
  BY <1>2 DEF HandleSocketAlarm
<1>3. CASE x.objects[d].hands = "ready"
  <2>1. x.objects[h].life = "live"
    BY <1>1, <1>3 DEF Pair
  <2>2. x.objects["SH"].ack
    BY <1>1, Names DEF Quiet, Dispatchers
  <2>3. n \in 0 .. Len(in)
    <3>. DEFINE v == Len(in)
    <3>1. v \in Nat /\ v \in Int /\ b \in Int
      BY <1>1
    <3>. HIDE DEF v
    <3>2. Min({b, v}) = IF b <= v THEN b ELSE v
      BY <3>1, MinOfTwo
    <3>3. Min({b, v}) \in 0 .. v
      BY <3>1, <3>2
    <3>. QED  BY <3>3 DEF v
  <2>. HIDE DEF n, h
  <2>4. data \in Seq(Int) /\ Len(data) = n
    BY <1>1, <2>3, Split
  <2>5. SameStates(l, m)
    <3>1. Len(data) \in 0 .. Len(in)
      BY <2>3, <2>4
    <3>. HIDE DEF data
    <3>. QED  BY <1>1, <3>1, LinkData
  <2>6. \/ y = DispatcherConnClose(s, d, "conn_disconn")
        \/ y = s
    BY <1>3 DEF HandleSocketAlarm, SetLink, n, h
  <2>7. r = Reading(x, d, n)
    BY <2>4 DEF Reading
  <2>8. FlowsLate(r, g, d, data)
    <3>1. n \in 0 .. Len(At(x, d).in)
      BY <1>1, <2>3
    <3>2. FlowsLate(Reading(x, d, n), g, d, SubSeq(At(x, d).in, 1, n))
      BY <1>1, <3>1, ReadingLate
    <3>. QED  BY <1>1, <2>7, <3>2
  <2>. HIDE DEF m, data, y
  <2>9. Sound(r) /\ r.objects = x.objects /\ r.hosts = x.hosts
    BY <1>1, <2>5, LinkSound
  <2>. HIDE DEF r
  <2>10. Steady(r) /\ Base(r) /\ r \in Proxy /\ ~ Gone(r, h) /\ r.objects[h].life = "live"
    BY <1>1, <2>1, <2>9 DEF Sound, Steady, Base, Gone
  <2>11. FlowsWith(r, g, h, data)
    <3>1. Stands(r, Mate(d)) /\ Mate(d) = h
      BY <1>1, <2>10, StandsWhoLives DEF h
    <3>. QED  BY <1>1, <2>4, <2>8, <2>10, <3>1, LateGoesOn
  <2>12. Flows(s, g) /\ s \in Proxy
    <3>1. CASE data = <<>>
      BY <1>1, <2>10, <2>11, <3>1, WithNothing
    <3>2. CASE data # <<>>
      <4>1. Flows(HandSink(r, h, data), g)
        BY <1>1, <2>2, <2>4, <2>9, <2>10, <2>11, HandSinkFlows
      <4>2. Steady(HandSink(r, h, data))
        BY <1>1, <2>2, <2>4, <2>9, <2>10, HandSinkSteady
      <4>. QED  BY <3>2, <4>1, <4>2 DEF Steady, Base
    <3>. QED  BY <3>1, <3>2
  <2>. HIDE DEF s
  <2>13. Fading(s, DispatcherConnClose(s, d, "conn_disconn"))
    BY <2>12, DispatcherConnCloseFading
  <2>14. Flows(DispatcherConnClose(s, d, "conn_disconn"), g)
    BY <2>12, <2>13, FadingStill
  <2>. QED  BY <2>6, <2>12, <2>14 DEF y
<1>. QED  BY <1>2, <1>3

-------------------------------------------------------------------------------
(* The invariant of the data. *)

\* At first nothing is on its way.
LEMMA FlowInit == Init => FlowInv
<1>. SUFFICES ASSUME Init  PROVE  FlowInv
  OBVIOUS
<1>1. OctopusInv /\ ox \in Proxy /\ parties \in PartyTypes
  BY OctopusInit DEF OctopusInv, Sound, Steady, Base
<1>2. /\ ox.links["app"] = Dialled /\ ox.links["relay"] = NoLink /\ ox.links["org"] = NoLink
      /\ \A o \in Objects : ox.objects[o] = NoObject
      /\ \A p \in Parties : parties[p].sent = 0 /\ parties[p].got = <<>>
  BY DEF Init
<1>3. /\ NoLink["near"].in = <<>> /\ NoLink["far"].in = <<>> /\ NoLink["near"].state = "none"
      /\ NoLink["far"].state = "none" /\ ~ NoLink["far"].reset
  BY DEF NoLink, NoEnd, Ends
<1>4. /\ Dialled["near"].in = <<>> /\ Dialled["far"].in = <<>> /\ Dialled["near"].state = "open"
      /\ Dialled["far"].state = "queued"
  <2>1. /\ "near" \in Ends /\ "far" \in Ends
        /\ NoLink = [e \in Ends |-> NoEnd]
    BY DEF Ends, NoLink
  <2>. HIDE DEF NoLink
  <2>2. NoEnd.in = <<>> /\ NoEnd.state = "none"
        /\ NoEnd = [state |-> "none", in |-> <<>>, eof |-> FALSE, reset |-> FALSE, error |-> FALSE]
    BY DEF NoEnd
  <2>3. Connecting["near"].in = <<>> /\ Connecting["far"].in = <<>>
        /\ Connecting = [e \in Ends |-> IF e = "near" THEN [NoEnd EXCEPT !.state = "connecting"] ELSE NoEnd]
    BY <2>1, <2>2 DEF Connecting
  <2>. QED  BY <2>1, <2>2, <2>3 DEF Dialled, Establish
<1>5. NoObject.wb = <<>> /\ ~ NoObject.meta /\ ~ NoObject.ack /\ NoObject.life = "none"
  BY NoObjectFacts
<1>. HIDE DEF NoLink, Dialled, NoObject
<1>6. \A l \in LinkNames, e \in Ends : ox.links[l][e].in = <<>> /\ ox.links[l][e].state # "closed"
  BY <1>2, <1>3, <1>4 DEF LinkNames, Ends
<1>7. Len(<<>>) = 0 /\ AllMeta(<<>>) /\ \A a \in Int : Run(<<>>, a)
  BY DEF AllMeta, Run
<1>8. Meant(ox)
  <2>1. "CH" \in Objects /\ "SH" \in Objects /\ "relay" \in LinkNames /\ "near" \in Ends /\ "far" \in Ends
    BY Names DEF LinkNames, Ends
  <2>2. \A l \in LinkNames : Joined(ox.links[l])
    BY <1>2, <1>3, <1>4 DEF Joined, LinkNames
  <2>3. \A o \in Objects : Blank(ox.objects[o])
    BY <1>2, <1>5 DEF Blank
  <2>4. /\ ox.objects["CH"].wb = <<>> /\ ox.links["relay"]["far"].in = <<>> /\ ox.links["relay"]["near"].in = <<>>
        /\ ~ ox.objects["SH"].ack
    BY <1>2, <1>5, <1>6, <2>1
  <2>. QED  BY <1>6, <1>7, <2>2, <2>3, <2>4 DEF Meant
<1>9. \A r \in Readers : QOf(ox)[r] = <<>>
  <2>. TAKE r \in Readers
  <2>1. QOf(ox)[r] = Arrived(ox, r) /\ At(ox, r).in = <<>>
    BY <1>1, <1>6, Cells, WayNames DEF At
  <2>. QED  BY <2>1 DEF Arrived
<1>10. \A o \in Objects : KOf(ox)[o] = <<>>
  BY <1>1, <1>2, <1>5, Cells DEF Kept
<1>11. Flow(QOf(ox), KOf(ox), SOf(ox), parties)
  <2>. DEFINE a == [r \in Readers |-> 0]
              b == [o \in Objects |-> 0]
  <2>1. a \in [Readers -> Int] /\ b \in [Objects -> Int]
    OBVIOUS
  <2>2. /\ \A r \in Readers : r \in Readers /\ Opposite(r) \in Readers /\ Source(r) \in Parties
        /\ \A o \in Objects : Opposite(o) \in Readers /\ Mate(o) \in Readers /\ Mate(o) \in Objects
        /\ \A p \in Parties : Opposite(p) \in Readers /\ p \in Readers
    BY Ways
  <2>3. Lies(a, b, QOf(ox), KOf(ox), SOf(ox), parties)
    <3>1. \A r \in Readers : Run(QOf(ox)[r], a[r]) /\ a[r] + Len(QOf(ox)[r]) <= parties[Source(r)].sent
      BY <1>2, <1>7, <1>9, <2>2
    <3>2. \A o \in Objects : Run(KOf(ox)[o], b[o]) /\ b[o] + Len(KOf(ox)[o]) <= parties[Source(Mate(o))].sent
      BY <1>2, <1>7, <1>10, <2>2
    <3>3. \A o \in Objects : a[Opposite(o)] + Len(QOf(ox)[Opposite(o)]) = b[o]
      BY <1>7, <1>9, <2>2
    <3>4. \A o \in Objects : b[o] + Len(KOf(ox)[o]) = a[Mate(o)]
      BY <1>7, <1>10, <2>2
    <3>5. \A p \in Parties : a[Opposite(p)] + Len(QOf(ox)[Opposite(p)]) = parties[p].sent
      BY <1>2, <1>7, <1>9, <2>2
    <3>6. \A p \in Parties : a[p] = Len(parties[p].got)
      BY <1>2, <1>7, <2>2
    <3>. QED  BY <3>1, <3>2, <3>3, <3>4, <3>5, <3>6 DEF Lies
  <2>. QED  BY <2>1, <2>3 DEF Flow
<1>12. \A p \in Parties : Run(parties[p].got, 0)
  BY <1>2, <1>7
<1>. QED  BY <1>1, <1>8, <1>11, <1>12 DEF FlowInv, Flows

\* One round of the callbacks of a host.
LEMMA HostStepFlows ==
  ASSUME OctopusInv, Flows(ox, parties), NEW h \in Hosts, HostServes(h) \/ SignalHost(h)
  PROVE  Flows(ox', parties) /\ parties' = parties
<1>1. Sound(ox) /\ Steady(ox) /\ Base(ox) /\ ox \in Proxy /\ parties \in PartyTypes
  BY DEF OctopusInv, Sound, Steady, Base
<1>2. ASSUME NEW y, NEW g, HostDoes(g, y), Flows(y, parties)  PROVE  Flows(ox', parties) /\ parties' = parties
  BY <1>2 DEF HostDoes
<1>3. ASSUME NEW y, NEW g, HostDoes(g, y), Fading(ox, y)  PROVE  Flows(ox', parties) /\ parties' = parties
  <2>1. Flows(y, parties)
    BY <1>1, <1>3, FadingStill
  <2>. QED  BY <1>2, <1>3, <2>1
<1>4. CASE h = "caller" /\ AcceptCaller
  <2>1. StateOf(ox, "CD") = "queued"
    BY <1>4, Names DEF AcceptCaller, StateOf
  <2>. QED  BY <1>1, <1>2, <1>4, <2>1, CreateCallerFlows DEF AcceptCaller
<1>5. CASE h = "callee" /\ AcceptCallee
  <2>1. StateOf(ox, "SH") = "queued"
    BY <1>5, Names DEF AcceptCallee, StateOf
  <2>. QED  BY <1>1, <1>2, <1>5, <2>1, CreateCalleeFlows DEF AcceptCallee
<1>6. CASE h = "callee" /\ DispatcherServed
  BY <1>1, <1>2, <1>6, DispatcherOnEventFlows DEF DispatcherServed
<1>7. ASSUME NEW g \in Hands, HandServed(g)  PROVE  Flows(ox', parties) /\ parties' = parties
  <2>1. PICK y \in HandOnEvent(ox, g, EventsOf(g)) : HostDoes(Host(g), y)
    BY <1>7 DEF HandServed
  <2>2. ox.objects[g].life = "live" /\ ~ Gone(ox, g)
    BY <1>7, <2>1 DEF HandServed, HostDoes, InLoop, Gone
  <2>3. Flows(y, parties)
    BY <1>1, <2>2, HandOnEventFlows
  <2>. QED  BY <1>2, <2>1, <2>3
<1>8. ASSUME NEW g \in Hands, HandAlarm(g)  PROVE  Flows(ox', parties) /\ parties' = parties
  BY <1>1, <1>2, <1>8, OutBandwidthAlarmFlows DEF HandAlarm
<1>9. ASSUME NEW d \in Dispatchers, DispatcherAlarm(d)  PROVE  Flows(ox', parties) /\ parties' = parties
  <2>. DEFINE f == FlushBuffer(ox, d)
  <2>1. /\ ox.objects[d].alarm /\ ox.objects[d].life = "live" /\ d \in Objects
        /\ \E b \in WriteBudgets(f, d) : HostDoes(Host(d), HandleSocketAlarm(f, d, b))
    BY <1>9 DEF DispatcherAlarm, Objects
  <2>2. Moves(ox, f, d) /\ Flows(f, parties)
    BY <1>1, <2>1, FlushSteady, FlushFlowsOn
  <2>. HIDE DEF f
  <2>3. Sound(f) /\ f.objects[d].alarm /\ f.objects[d].life = "live" /\ Base(f) /\ f.hosts = ox.hosts
    BY <1>1, <2>1, <2>2, MovesSound DEF Moves, Alike, Steady
  <2>4. PICK b \in WriteBudgets(f, d) : HostDoes(Host(d), HandleSocketAlarm(f, d, b))
    BY <2>1
  <2>5. b \in Nat
    <3>1. Len(f.links[Link(d)][EndOf(d)].in) \in Nat
      BY <2>1, <2>3, PartsOf
    <3>. DEFINE n == Len(f.links[Link(d)][EndOf(d)].in)
                m == IF f.links["relay"][Peer(EndOf(Mate(d)))].in = <<>> THEN 1 ELSE 0
    <3>2. b \in m .. n + 1 /\ m \in {0, 1}
      BY <2>4 DEF WriteBudgets
    <3>. HIDE DEF n, m
    <3>. QED  BY <3>1, <3>2 DEF n
  <2>6. ~ Gone(f, d)
    BY <2>3, <2>4 DEF HostDoes, InLoop, Gone
  <2>7. Flows(HandleSocketAlarm(f, d, b), parties)
    BY <1>1, <2>2, <2>3, <2>5, <2>6, HandleSocketAlarmFlows
  <2>. QED  BY <1>2, <2>4, <2>7
<1>10. CASE RunTasks(h)
  <2>. DEFINE objects == [o \in Objects |-> IF o \in TasksOf(ox.hosts[h])
                                            THEN [ox.objects[o] EXCEPT !.life = "deleted"] ELSE ox.objects[o]]
              y == [ox EXCEPT !.objects = objects, !.hosts[h] = ExecuteTask(@)]
  <2>1. HostDoes(h, y)
    BY <1>10 DEF RunTasks
  <2>2. y \in Proxy
    BY <1>1, RunTasksSound DEF Sound, Steady, Base
  <2>3. y.links = ox.links /\ y.objects = objects
    BY <1>1 DEF Proxy
  <2>4. \A o \in Objects : Keeps(ox.objects[o], objects[o])
    <3>. TAKE o \in Objects
    <3>1. ox.objects[o] \in Object
      BY <1>1, ProxyFields
    <3>. DEFINE j == ox.objects[o]
                k == [j EXCEPT !.life = "deleted"]
    <3>2. k.wb = j.wb /\ k.meta = j.meta /\ k.ack = j.ack /\ k.life = "deleted"
      BY <3>1 DEF Object
    <3>3. objects[o] \in {j, k}
      OBVIOUS
    <3>. HIDE DEF k
    <3>. QED  BY <3>2, <3>3 DEF Keeps
  <2>. HIDE DEF y, objects
  <2>5. Fading(ox, y)
    BY <1>1, <2>2, <2>3, <2>4, StillFading
  <2>. QED  BY <1>3, <2>1, <2>5
<1>11. CASE HostExits(h)
  <2>1. HostDoes(h, End_(ox, h))
    BY <1>11 DEF HostExits
  <2>2. Fading(ox, End_(ox, h))
    BY <1>1, EndFading DEF Base
  <2>. QED  BY <1>3, <2>1, <2>2
<1>12. CASE SignalHost(h)
  <2>. DEFINE y == [ox EXCEPT !.hosts[h] = Stop(@)]
  <2>1. HostDoes(h, y)
    BY <1>12 DEF SignalHost
  <2>2. y \in Proxy
    BY <1>1, SignalHostSound DEF Sound, Steady, Base
  <2>3. y.links = ox.links /\ y.objects = ox.objects
    BY <1>1 DEF Proxy
  <2>. HIDE DEF y
  <2>4. Fading(ox, y)
    BY <1>1, <2>2, <2>3, StillFading, KeepsItself
  <2>. QED  BY <1>3, <2>1, <2>4
<1>. QED  BY <1>4, <1>5, <1>6, <1>7, <1>8, <1>9, <1>10, <1>11, <1>12 DEF HostServes

-------------------------------------------------------------------------------
(* The parties and the network. *)

\* The proxy means the same then, and keeps the same.
LEMMA AsideMeans ==
  ASSUME NEW x \in Proxy, NEW z, Aside(x, z), Meant(x)
  PROVE  /\ Meant(z) /\ KOf(z) = KOf(x) /\ SOf(z) = SOf(x)
         /\ \A p \in Parties : Arrived(x, p) = At(x, p).in /\ Arrived(z, p) = At(z, p).in
         /\ \A r \in Readers : At(z, r).in = At(x, r).in => Arrived(z, r) = Arrived(x, r)
         /\ \A r \in {"CD", "SD"} : Arrived(x, r) = At(x, r).in /\ Arrived(z, r) = At(z, r).in
<1>1. /\ z.objects = x.objects /\ z.links["relay"] = x.links["relay"]
      /\ \A l \in LinkNames, e \in Ends : z.links[l][e].state = x.links[l][e].state
  BY DEF Aside
<1>2. "near" \in Ends /\ "far" \in Ends
  BY DEF Ends
<1>3. \A l \in LinkNames : Joined(z.links[l])
  BY <1>1, <1>2 DEF Meant, Joined
<1>4. \A l \in LinkNames, e \in Ends : z.links[l][e].state \in {"none", "closed"} => z.links[l][e].in = <<>>
  BY DEF Aside, Meant
<1>5. Meant(z)
  BY <1>1, <1>3, <1>4 DEF Meant
<1>6. KOf(z) = KOf(x)
  BY <1>1 DEF KOf, Kept
<1>7. SOf(z) = SOf(x)
  BY <1>1, WayNames DEF SOf, Stands, At
<1>8. \A p \in Parties : Arrived(x, p) = At(x, p).in /\ Arrived(z, p) = At(z, p).in
  BY DEF Arrived, Parties
<1>9. \A r \in Readers : At(z, r).in = At(x, r).in => Arrived(z, r) = Arrived(x, r)
  BY <1>1 DEF Arrived
<1>10. \A r \in {"CD", "SD"} : Arrived(x, r) = At(x, r).in /\ Arrived(z, r) = At(z, r).in
  BY DEF Arrived
<1>. QED  BY <1>5, <1>6, <1>7, <1>8, <1>9, <1>10

\* The end of a party.
LEMMA PartyEnds ==
  ASSUME NEW x, Base(x), NEW p \in Parties
  PROVE  /\ LinkOf(p) \in LinkNames /\ LinkOf(p) # "relay" /\ PartyEnd(p) \in Ends
         /\ x.links[LinkOf(p)] \in Wire /\ Shaped(x.links[LinkOf(p)])
         /\ x.links[LinkOf(p)][PartyEnd(p)].in \in Seq(Int) /\ Len(x.links[LinkOf(p)][PartyEnd(p)].in) \in Nat
         /\ p \in Readers /\ At(x, p) = x.links[LinkOf(p)][PartyEnd(p)]
         /\ Opposite(p) \in Readers /\ At(x, Opposite(p)) = x.links[LinkOf(p)][Peer(PartyEnd(p))]
         /\ Opposite(p) \in {"CD", "SD"}
<1>1. x \in Proxy /\ LinkOf(p) \in LinkNames /\ LinkOf(p) # "relay" /\ PartyEnd(p) \in Ends
  BY DEF LinkOf, LinkNames, PartyEnd, Ends, Base
<1>2. x.links[LinkOf(p)] \in Wire /\ Shaped(x.links[LinkOf(p)])
  BY <1>1, ProxyFields DEF Base
<1>3. x.links[LinkOf(p)][PartyEnd(p)].in \in Seq(Int) /\ Len(x.links[LinkOf(p)][PartyEnd(p)].in) \in Nat
  BY <1>1, <1>2, WireFields
<1>4. p \in Readers /\ Opposite(p) \in Readers
  BY Ways
<1>5. At(x, p) = x.links[LinkOf(p)][PartyEnd(p)] /\ At(x, Opposite(p)) = x.links[LinkOf(p)][Peer(PartyEnd(p))]
  BY <1>4, WayNames DEF At
<1>6. Opposite(p) \in {"CD", "SD"}
  BY DEF Opposite, Parties
<1>. QED  BY <1>1, <1>2, <1>3, <1>4, <1>5, <1>6

\* A party changes its link.
LEMMA PartyAside ==
  ASSUME NEW x, Base(x), NEW p \in Parties, NEW k \in Wire,
         \A f \in Ends : /\ k[f].state = x.links[LinkOf(p)][f].state
                         /\ \/ k[f].in = x.links[LinkOf(p)][f].in
                            \/ k[f].in = <<>>
                            \/ k[f].state \notin {"none", "closed"}
  PROVE  LET z == SetLink(x, LinkOf(p), k)
         IN  /\ Aside(x, z) /\ z.links[LinkOf(p)] = k
             /\ \A t \in Readers : t \notin {p, Opposite(p)} => At(z, t) = At(x, t)
             /\ At(z, p) = k[PartyEnd(p)] /\ At(z, Opposite(p)) = k[Peer(PartyEnd(p))]
<1>. DEFINE n == LinkOf(p)
            z == SetLink(x, n, k)
<1>1. x \in Proxy /\ n \in LinkNames /\ n # "relay" /\ PartyEnd(p) \in Ends /\ "relay" \in LinkNames
  BY PartyEnds DEF Base, LinkNames
<1>2. /\ z \in Proxy /\ z.objects = x.objects /\ z.links[n] = k
      /\ \A m \in LinkNames : m # n => z.links[m] = x.links[m]
  BY <1>1, LinkSet
<1>. HIDE DEF z
<1>3. z.links["relay"] = x.links["relay"]
  BY <1>1, <1>2
<1>4. \A l \in LinkNames, e \in Ends :
        /\ z.links[l][e].state = x.links[l][e].state
        /\ \/ z.links[l][e].in = x.links[l][e].in
           \/ z.links[l][e].in = <<>>
           \/ x.links[l][e].state \notin {"none", "closed"}
  <2>. TAKE l \in LinkNames, e \in Ends
  <2>1. CASE l = n
    BY <1>2, <2>1
  <2>2. CASE l # n
    BY <1>2, <2>2
  <2>. QED  BY <2>1, <2>2
<1>5. Aside(x, z)
  BY <1>2, <1>3, <1>4 DEF Aside
<1>6. /\ p \in Readers /\ Opposite(p) \in Readers /\ WayLink(p) = n /\ WayEnd(p) = PartyEnd(p)
      /\ WayLink(Opposite(p)) = n /\ WayEnd(Opposite(p)) = Peer(PartyEnd(p))
  <2>1. p \in Readers /\ Opposite(p) \in Readers
    BY Ways
  <2>. QED  BY <2>1, WayNames
<1>7. At(z, p) = k[PartyEnd(p)] /\ At(z, Opposite(p)) = k[Peer(PartyEnd(p))]
  BY <1>2, <1>6 DEF At
<1>8. ASSUME NEW t \in Readers, t \notin {p, Opposite(p)}
      PROVE  At(z, t) = At(x, t)
  <2>1. WayLink(t) \in LinkNames /\ WayEnd(t) \in Ends
    BY WayNames
  <2>2. WayEnd(t) = PartyEnd(p) \/ WayEnd(t) = Peer(PartyEnd(p))
    BY <1>1, <2>1 DEF Ends, Peer
  <2>3. \A r \in Readers : WayLink(t) = WayLink(r) /\ WayEnd(t) = WayEnd(r) => t = r
    BY WayNames
  <2>4. WayLink(t) # n
    BY <1>6, <1>8, <2>2, <2>3
  <2>. QED  BY <1>2, <2>1, <2>4 DEF At
<1>. QED  BY <1>2, <1>5, <1>7, <1>8 DEF z

\* One unit is sent, and there is room for it.
LEMMA SendsOne ==
  ASSUME NEW l \in Wire, NEW e \in Ends, NEW u \in Seq(Int), Len(u) = 1,
         l[e].state = "open", ~ l[e].reset, RoomFor(l, e) > 0
  PROVE  LET k == Send(l, e, u)
             f == Peer(e)
         IN  /\ k \in Wire /\ k[e].in = l[e].in /\ f \in Ends
             /\ k[f].in = IF l[f].state = "closed" THEN l[f].in ELSE l[f].in \o u
             /\ \A i \in Ends : k[i].state = l[i].state
<1>. DEFINE room == RoomFor(l, e)
            f == Peer(e)
            k == Send(l, e, u)
<1>1. f \in Ends
  BY WireFields
<1>2. room \in Int /\ room > 0
  <2>. DEFINE n == Len(l[f].in)
  <2>1. n \in 0 .. Room /\ Room \in Nat
    BY <1>1, WireFields, RoomAssumption
  <2>2. room = Room - n
    BY DEF RoomFor
  <2>. HIDE DEF n, room
  <2>3. room \in Int
    BY <2>1, <2>2
  <2>. QED  BY <2>3 DEF room
<1>3. Taken(l, e, 1) = 1
  <2>1. Taken(l, e, 1) = Min({1, room})
    BY DEF Taken
  <2>. HIDE DEF room
  <2>2. Min({1, room}) = 1
    BY <1>2 DEF Min
  <2>. QED  BY <2>1, <2>2
<1>4. Taken(l, e, Len(u)) = 1
  BY <1>3
<1>5. /\ k \in Wire /\ k[e].in = l[e].in
      /\ k[f].in = IF l[f].state = "closed" THEN l[f].in ELSE l[f].in \o SubSeq(u, 1, 1)
      /\ \A i \in Ends : k[i].state = l[i].state
  <2>1. LET p == Peer(e)
            n == Taken(l, e, Len(u))
            j == Send(l, e, u)
        IN  /\ n \in 0 .. Len(u) /\ j \in Wire
            /\ n # 0 => l[e].state = "open" /\ ~ l[e].reset
            /\ j[e].in = l[e].in
            /\ j[p].in = IF l[p].state = "closed" THEN l[p].in ELSE l[p].in \o SubSeq(u, 1, n)
            /\ \A i \in Ends : j[i].state = l[i].state /\ (l[i].reset => j[i].reset)
    BY SendDoes, Zenon
  <2>. HIDE DEF k, f
  <2>. QED  BY <1>4, <2>1 DEF k, f
<1>6. SubSeq(u, 1, 1) = u
  <2>1. SubSeq(u, 1, Len(u)) = u
    BY Joints
  <2>. QED  BY <2>1
<1>. QED  BY <1>1, <1>4, <1>5, <1>6

\* A party sends one more unit.
LEMMA PartySendsFlows ==
  ASSUME OctopusInv, Flows(ox, parties), NEW p \in Parties, PartySends(p), parties' \in PartyTypes
  PROVE  Flows(ox', parties') /\ \A c \in Parties : parties'[c].got = parties[c].got
<1>. DEFINE l == ox.links[LinkOf(p)]
            e == PartyEnd(p)
            next == parties[p].sent + 1
            u == <<next>>
            k == Send(l, e, u)
            z == SetLink(ox, LinkOf(p), k)
            f == Peer(e)
            r == Opposite(p)
<1>1. Sound(ox) /\ Base(ox) /\ ox \in Proxy /\ parties \in PartyTypes /\ Meant(ox)
  BY DEF OctopusInv, Sound, Steady, Base, Flows
<1>2. /\ LinkOf(p) \in LinkNames /\ e \in Ends /\ l \in Wire /\ Shaped(l)
      /\ p \in Readers /\ r \in Readers /\ At(ox, r) = l[f] /\ r \in {"CD", "SD"} /\ At(ox, p) = l[e]
  BY <1>1, PartyEnds
<1>3. l[e].state = "open" /\ ~ l[e].reset /\ RoomFor(l, e) > 0 /\ PartyDoes(p, k, [parties[p] EXCEPT !.sent = next])
  BY DEF PartySends
<1>4. parties[p].sent \in Nat /\ next \in Int /\ u \in Seq(Int) /\ Len(u) = 1 /\ SubSeq(u, 1, 1) = u
  <2>1. parties[p].sent \in Nat
    BY <1>1 DEF PartyTypes
  <2>2. u \in Seq(Int) /\ Len(u) = 1
    BY <2>1
  <2>3. SubSeq(u, 1, Len(u)) = u
    BY <2>2, Joints
  <2>. QED  BY <2>1, <2>2, <2>3
<1>6. /\ ox' = z /\ parties' = [parties EXCEPT ![p].sent = next]
  BY <1>1, <1>3 DEF PartyDoes, SetLink, PartyTypes
<1>. HIDE DEF u
<1>7. /\ k \in Wire /\ k[e].in = l[e].in /\ f \in Ends
      /\ k[f].in = IF l[f].state = "closed" THEN l[f].in ELSE l[f].in \o u
      /\ \A i \in Ends : k[i].state = l[i].state
  BY <1>2, <1>3, <1>4, SendsOne
<1>. HIDE DEF k
<1>8. l[f].state # "none"
  <2>1. e = "near" => f = "far"
    BY DEF Peer
  <2>2. e = "far" => f = "near"
    BY DEF Peer
  <2>3. e = "near" \/ e = "far"
    BY <1>2 DEF Ends
  <2>4. Joined(l)
    BY <1>1, <1>2 DEF Meant
  <2>. QED  BY <1>2, <1>3, <2>1, <2>2, <2>3, <2>4 DEF Joined, Shaped
<1>9. \A i \in Ends : k[i].state = l[i].state /\ (k[i].in = l[i].in \/ k[i].in = <<>> \/ k[i].state \notin {"none", "closed"})
  <2>1. \A i \in Ends : i = e \/ i = f
    BY <1>2 DEF Ends, Peer
  <2>. QED  BY <1>7, <1>8, <2>1
<1>10. /\ Aside(ox, z) /\ \A t \in Readers : t \notin {p, r} => At(z, t) = At(ox, t)
       /\ At(z, p) = k[e] /\ At(z, r) = k[f]
  BY <1>1, <1>7, <1>9, PartyAside
<1>. HIDE DEF z
<1>11. /\ Meant(z) /\ KOf(z) = KOf(ox) /\ SOf(z) = SOf(ox) /\ z \in Proxy
       /\ \A t \in Readers : At(z, t).in = At(ox, t).in => Arrived(z, t) = Arrived(ox, t)
       /\ Arrived(ox, r) = At(ox, r).in /\ Arrived(z, r) = At(z, r).in
  BY <1>1, <1>2, <1>10, AsideMeans DEF Aside
<1>12. /\ QOf(ox) \in Queues /\ KOf(ox) \in Buffers
       /\ \A t \in Readers : QOf(ox)[t] = Arrived(ox, t) /\ QOf(z)[t] = Arrived(z, t)
       /\ SOf(ox)[r] = Stands(ox, r)
  BY <1>1, <1>2, <1>11, Cells
<1>13. \A t \in Readers : t # r => QOf(z)[t] = QOf(ox)[t]
  <2>1. \A t \in Readers : t # r => At(z, t).in = At(ox, t).in
    BY <1>2, <1>7, <1>10
  <2>. QED  BY <1>11, <1>12, <2>1
<1>14. QOf(z)[r] = IF SOf(ox)[r] THEN QOf(ox)[r] \o <<parties[p].sent + 1>> ELSE QOf(ox)[r]
  BY <1>2, <1>7, <1>10, <1>11, <1>12 DEF Stands, u
<1>15. /\ parties'[p].sent = parties[p].sent + 1 /\ parties'[p].got = parties[p].got
       /\ \A c \in Parties : c # p => parties'[c] = parties[c]
  BY <1>1, <1>6 DEF PartyTypes
<1>16. Flow(QOf(ox), KOf(ox), SOf(ox), parties)
  BY DEF Flows
<1>. DEFINE g2 == parties'
            q == QOf(ox)
            q2 == QOf(z)
            kk == KOf(ox)
            s == SOf(ox)
<1>17. /\ g2 \in PartyTypes /\ q \in Queues /\ kk \in Buffers /\ Flow(q, kk, s, parties) /\ parties \in PartyTypes
       /\ g2[p].sent = parties[p].sent + 1 /\ g2[p].got = parties[p].got
       /\ \A c \in Parties : c # p => g2[c] = parties[c]
       /\ \A t \in Readers : t # Opposite(p) => q2[t] = q[t]
       /\ q2[Opposite(p)] = IF s[Opposite(p)] THEN q[Opposite(p)] \o <<parties[p].sent + 1>> ELSE q[Opposite(p)]
  BY <1>1, <1>12, <1>13, <1>14, <1>15, <1>16
<1>. HIDE DEF g2, q, q2, kk, s
<1>18. Flow(q2, kk, s, g2)
  BY <1>17, FlowAdds
<1>19. Flow(QOf(z), KOf(z), SOf(z), parties')
  BY <1>11, <1>18 DEF q2, kk, s, g2
<1>. QED  BY <1>6, <1>11, <1>15, <1>19 DEF Flows

\* A party reads all there is.
LEMMA PartyReadsFlows ==
  ASSUME OctopusInv, Flows(ox, parties), NEW p \in Parties, Run(parties[p].got, 0), parties' \in PartyTypes,
         PartyReads(p), ox.links[LinkOf(p)][PartyEnd(p)].in # <<>>
  PROVE  /\ Flows(ox', parties') /\ Run(parties'[p].got, 0)
         /\ \A c \in Parties : c # p => parties'[c] = parties[c]
<1>. DEFINE l == ox.links[LinkOf(p)]
            e == PartyEnd(p)
            u == l[e].in
            k == Consume(l, e, Len(u))
            z == SetLink(ox, LinkOf(p), k)
            f == Peer(e)
            r == Opposite(p)
<1>1. Sound(ox) /\ Base(ox) /\ ox \in Proxy /\ parties \in PartyTypes /\ Meant(ox)
  BY DEF OctopusInv, Sound, Steady, Base, Flows
<1>2. /\ LinkOf(p) \in LinkNames /\ e \in Ends /\ l \in Wire /\ u \in Seq(Int) /\ Len(u) \in Nat
      /\ p \in Readers /\ r \in Readers /\ At(ox, r) = l[f] /\ At(ox, p) = l[e] /\ p # r
  <2>1. p # r
    BY Ways
  <2>. QED  BY <1>1, <2>1, PartyEnds
<1>3. ox' = z /\ parties' = [parties EXCEPT ![p].got = @ \o u]
  BY <1>1 DEF PartyReads, PartyDoes, SetLink, PartyTypes
<1>4. /\ k \in Wire /\ k[e].in = <<>> /\ k[f] = l[f] /\ k[e].state = l[e].state
  <2>1. Len(u) \in 0 .. Len(l[e].in)
    BY <1>2
  <2>2. k \in Wire /\ k[e].in = SubSeq(l[e].in, Len(u) + 1, Len(l[e].in)) /\ k[Peer(e)] = l[Peer(e)]
        /\ k[e].state = l[e].state
    BY <1>2, <2>1, ConsumeDoes
  <2>3. SubSeq(u, Len(u) + 1, Len(u)) = <<>>
    BY <1>2, Joints
  <2>. QED  BY <2>2, <2>3
<1>. HIDE DEF k
<1>5. \A i \in Ends : k[i].state = l[i].state /\ (k[i].in = l[i].in \/ k[i].in = <<>> \/ k[i].state \notin {"none", "closed"})
  <2>1. \A i \in Ends : i = e \/ i = f
    BY <1>2 DEF Ends, Peer
  <2>. QED  BY <1>4, <2>1
<1>6. /\ Aside(ox, z) /\ \A t \in Readers : t \notin {p, r} => At(z, t) = At(ox, t)
      /\ At(z, p) = k[e] /\ At(z, r) = k[f]
  BY <1>1, <1>4, <1>5, PartyAside
<1>. HIDE DEF z
<1>7. /\ Meant(z) /\ KOf(z) = KOf(ox) /\ SOf(z) = SOf(ox) /\ z \in Proxy
      /\ \A t \in Readers : At(z, t).in = At(ox, t).in => Arrived(z, t) = Arrived(ox, t)
      /\ Arrived(ox, p) = At(ox, p).in /\ Arrived(z, p) = At(z, p).in
  BY <1>1, <1>2, <1>6, AsideMeans DEF Aside
<1>8. /\ QOf(ox) \in Queues /\ KOf(ox) \in Buffers
      /\ \A t \in Readers : QOf(ox)[t] = Arrived(ox, t) /\ QOf(z)[t] = Arrived(z, t)
  BY <1>1, <1>7, Cells
<1>9. \A t \in Readers : t # p => QOf(z)[t] = QOf(ox)[t]
  <2>1. \A t \in Readers : t # p => At(z, t).in = At(ox, t).in
    BY <1>2, <1>4, <1>6
  <2>. QED  BY <1>7, <1>8, <2>1
<1>10. QOf(z)[p] = <<>> /\ QOf(ox)[p] = u
  BY <1>2, <1>4, <1>6, <1>7, <1>8
<1>. HIDE DEF u
<1>11. /\ parties'[p].sent = parties[p].sent /\ parties'[p].got = parties[p].got \o u
       /\ \A c \in Parties : c # p => parties'[c] = parties[c]
  BY <1>1, <1>3 DEF PartyTypes
<1>12. Flow(QOf(ox), KOf(ox), SOf(ox), parties)
  BY DEF Flows
<1>. DEFINE g2 == parties'
            q == QOf(ox)
            q2 == QOf(z)
            kk == KOf(ox)
            s == SOf(ox)
            g == parties
<1>13. Takes(q, kk, s, g, p, q2, g2)
  BY <1>1, <1>8, <1>9, <1>10, <1>11, <1>12 DEF Takes
<1>. HIDE DEF g, g2, q, q2, kk, s
<1>14. Flow(q2, kk, s, g2) /\ Run(g2[p].got, 0)
  BY <1>13, FlowTakes
<1>15. Flow(QOf(z), KOf(z), SOf(z), parties') /\ Run(parties'[p].got, 0)
  BY <1>7, <1>14 DEF q2, kk, s, g2
<1>. QED  BY <1>3, <1>7, <1>11, <1>15 DEF Flows

\* A party that closes or accepts, and the network, lose data at most.
LEMMA FadingSteps ==
  ASSUME OctopusInv, Flows(ox, parties)
  PROVE  /\ \A p \in Parties : PartyDoes(p, Close(ox.links[LinkOf(p)], PartyEnd(p)), parties[p])
              => Fading(ox, ox') /\ parties' = parties
         /\ AcceptOrigin => Fading(ox, ox') /\ parties' = parties
         /\ \A l \in LinkNames : Established(l) \/ Refused(l) \/ Breaks(l) => Fading(ox, ox') /\ parties' = parties
<1>1. Base(ox) /\ ox \in Proxy /\ parties \in PartyTypes
  BY DEF OctopusInv, Sound, Steady, Base
<1>2. ASSUME NEW p \in Parties, PartyDoes(p, Close(ox.links[LinkOf(p)], PartyEnd(p)), parties[p])
      PROVE  Fading(ox, ox') /\ parties' = parties
  <2>. DEFINE k == Close(ox.links[LinkOf(p)], PartyEnd(p))
  <2>1. ox' = SetLink(ox, LinkOf(p), k) /\ parties' = parties
    BY <1>1, <1>2 DEF PartyDoes, SetLink, PartyTypes
  <2>2. LinkOf(p) \in LinkNames /\ Fades(ox.links[LinkOf(p)], k)
    BY <1>1, PartyEnds, CloseFades
  <2>. HIDE DEF k
  <2>. QED  BY <1>1, <2>1, <2>2, LinkFading
<1>3. ASSUME AcceptOrigin  PROVE Fading(ox, ox') /\ parties' = parties
  <2>. DEFINE k == Accept(ox.links["org"])
  <2>1. "origin" \in Parties /\ LinkOf("origin") = "org" /\ "org" \in LinkNames
    BY DEF Parties, LinkOf, LinkNames
  <2>2. ox' = SetLink(ox, "org", k) /\ parties' = parties /\ ox.links["org"]["far"].state = "queued"
    BY <1>1, <1>3, <2>1 DEF AcceptOrigin, PartyDoes, SetLink, PartyTypes
  <2>3. Fades(ox.links["org"], k)
    BY <1>1, <2>1, <2>2, ProxyFields, CallsFade
  <2>. HIDE DEF k
  <2>. QED  BY <1>1, <2>1, <2>2, <2>3, LinkFading
<1>4. ASSUME NEW l \in LinkNames, Established(l) \/ Refused(l) \/ Breaks(l)
      PROVE  Fading(ox, ox') /\ parties' = parties
  <2>1. ox.links[l] \in Wire /\ Shaped(ox.links[l])
    BY <1>1, ProxyFields DEF Base
  <2>2. \E k : ox' = SetLink(ox, l, k) /\ Fades(ox.links[l], k)
    <3>1. CASE Established(l)
      <4>1. ox' = SetLink(ox, l, Establish(ox.links[l])) /\ ox.links[l]["near"].state = "connecting"
        BY <3>1 DEF Established, SetLink, UnderWay
      <4>2. ox.links[l]["far"].state = "none"
        BY <2>1, <4>1 DEF Shaped
      <4>3. Fades(ox.links[l], Establish(ox.links[l]))
        BY <2>1, <4>1, <4>2, CallsFade
      <4>. QED  BY <4>1, <4>3
    <3>2. CASE Refused(l)
      <4>1. ox' = SetLink(ox, l, Refuse(ox.links[l])) /\ ox.links[l]["near"].state = "connecting"
        BY <3>2 DEF Refused, SetLink, UnderWay
      <4>2. Fades(ox.links[l], Refuse(ox.links[l]))
        BY <2>1, <4>1, CallsFade
      <4>. QED  BY <4>1, <4>2
    <3>3. CASE Breaks(l)
      <4>1. ox' = SetLink(ox, l, Break(ox.links[l]))
        BY <3>3 DEF Breaks, SetLink
      <4>2. Fades(ox.links[l], Break(ox.links[l]))
        BY <2>1, CallsFade
      <4>. QED  BY <4>1, <4>2
    <3>. QED  BY <1>4, <3>1, <3>2, <3>3
  <2>3. parties' = parties
    BY <1>4 DEF Established, Refused, Breaks
  <2>. QED  BY <1>1, <2>2, <2>3, LinkFading
<1>. QED  BY <1>2, <1>3, <1>4

\* The invariant is inductive.
LEMMA FlowStep == FlowInv /\ [Next]_vars => FlowInv'
<1>. SUFFICES ASSUME FlowInv, [Next]_vars  PROVE  FlowInv'
  OBVIOUS
<1>1. OctopusInv /\ Flows(ox, parties) /\ (\A p \in Parties : Run(parties[p].got, 0)) /\ ox \in Proxy
      /\ parties \in PartyTypes
  BY DEF FlowInv, OctopusInv, Sound, Steady, Base
<1>2. OctopusInv' /\ parties' \in PartyTypes
  <2>1. OctopusInv'
    BY <1>1, OctopusStep
  <2>. QED  BY <2>1 DEF OctopusInv
<1>3. ASSUME Flows(ox', parties'), \A p \in Parties : Run(parties'[p].got, 0)  PROVE  FlowInv'
  BY <1>2, <1>3 DEF FlowInv
<1>4. ASSUME Fading(ox, ox'), parties' = parties  PROVE  FlowInv'
  <2>1. Flows(ox', parties)
    BY <1>1, <1>4, FadingStill
  <2>2. Flows(ox', parties') /\ \A p \in Parties : Run(parties'[p].got, 0)
    BY <1>1, <1>4, <2>1
  <2>. QED  BY <1>3, <2>2
<1>5. CASE UNCHANGED vars
  <2>1. ox' = ox /\ parties' = parties
    BY <1>5 DEF vars
  <2>2. Flows(ox', parties') /\ \A p \in Parties : Run(parties'[p].got, 0)
    BY <1>1, <2>1
  <2>. QED  BY <1>3, <2>2
<1>6. ASSUME NEW h \in Hosts, HostServes(h) \/ SignalHost(h)  PROVE  FlowInv'
  <2>1. Flows(ox', parties) /\ parties' = parties
    BY <1>1, <1>6, HostStepFlows
  <2>2. Flows(ox', parties') /\ \A p \in Parties : Run(parties'[p].got, 0)
    BY <1>1, <2>1
  <2>. QED  BY <1>3, <2>2
<1>7. ASSUME NEW p \in Parties, PartySends(p)  PROVE  FlowInv'
  <2>1. Flows(ox', parties') /\ \A c \in Parties : parties'[c].got = parties[c].got
    BY <1>1, <1>2, <1>7, PartySendsFlows
  <2>2. \A c \in Parties : Run(parties'[c].got, 0)
    BY <1>1, <2>1
  <2>. QED  BY <1>3, <2>1, <2>2
<1>8. ASSUME NEW p \in Parties, PartyReads(p)  PROVE  FlowInv'
  <2>1. CASE ox.links[LinkOf(p)][PartyEnd(p)].in # <<>>
    <3>1. /\ Flows(ox', parties') /\ Run(parties'[p].got, 0)
          /\ \A c \in Parties : c # p => parties'[c] = parties[c]
      BY <1>1, <1>2, <1>8, <2>1, PartyReadsFlows
    <3>2. \A c \in Parties : Run(parties'[c].got, 0)
      BY <1>1, <3>1
    <3>. QED  BY <1>3, <3>1, <3>2
  <2>2. CASE ox.links[LinkOf(p)][PartyEnd(p)].in = <<>>
    <3>1. PartyDoes(p, Close(ox.links[LinkOf(p)], PartyEnd(p)), parties[p])
      BY <1>8, <2>2 DEF PartyReads
    <3>. QED  BY <1>1, <1>4, <3>1, FadingSteps
  <2>. QED  BY <2>1, <2>2
<1>9. ASSUME NEW p \in Parties, PartyCloses(p)  PROVE  FlowInv'
  <2>1. PartyDoes(p, Close(ox.links[LinkOf(p)], PartyEnd(p)), parties[p])
    BY <1>9 DEF PartyCloses
  <2>. QED  BY <1>1, <1>4, <2>1, FadingSteps
<1>10. CASE AcceptOrigin
  BY <1>1, <1>4, <1>10, FadingSteps
<1>11. ASSUME NEW l \in LinkNames, Established(l) \/ Refused(l) \/ Breaks(l)  PROVE  FlowInv'
  BY <1>1, <1>4, <1>11, FadingSteps
<1>. QED  BY <1>5, <1>6, <1>7, <1>8, <1>9, <1>10, <1>11 DEF Next, Progress, PartiesRead, NetworkAnswers

\* So it holds always.
LEMMA FlowAlways == Spec => []FlowInv
<1>. QED  BY FlowInit, FlowStep, PTL DEF Spec

-------------------------------------------------------------------------------
(* What the invariant says of the streams. *)

\* The units from the first on are determined by how many there are.
LEMMA RunIsUnits ==
  ASSUME NEW u \in Seq(Int), Run(u, 0)
  PROVE  u = Units(Len(u))
<1>1. Len(u) \in Nat /\ \A i \in 1 .. Len(u) : u[i] = i
  BY DEF Run
<1>2. u = [i \in 1 .. Len(u) |-> u[i]]
  OBVIOUS
<1>. QED  BY <1>1, <1>2 DEF Units

\* What a party sends.
LEMMA UnitsRun ==
  ASSUME NEW n \in Nat
  PROVE  Units(n) \in Seq(Int) /\ Len(Units(n)) = n /\ Run(Units(n), 0)
BY DEF Units, Run

\* Of two such sequences the shorter is a prefix.
LEMMA RunPrefix ==
  ASSUME NEW u \in Seq(Int), NEW v \in Seq(Int), Run(u, 0), Run(v, 0), Len(u) <= Len(v)
  PROVE  IsPrefix(u, v)
<1>1. Len(u) \in 0 .. Len(u) /\ Len(u) \in 0 .. Len(v) /\ Len(v) \in Nat /\ Len(u) \in Nat
  OBVIOUS
<1>. DEFINE j == SubSeq(v, 1, Len(u))
            w == SubSeq(v, Len(u) + 1, Len(v))
<1>2. j \in Seq(Int) /\ Len(j) = Len(u)
  BY <1>1
<1>3. w \in Seq(Int) /\ j \o w = v
  BY <1>1, Joints
<1>. HIDE DEF j, w
<1>4. Run(j, 0)
  <2>1. Run(j \o w, 0) /\ 0 \in Int
    BY <1>3
  <2>. QED  BY <1>2, <1>3, <2>1, RunConcat
<1>5. j = u
  BY <1>2, <1>4, RunIsUnits
<1>6. SubSeq(u, 1, Len(u)) = u
  BY Joints
<1>. QED  BY <1>5, <1>6 DEF IsPrefix, j

\* One more neighbour.
LEMMA JoinsOne ==
  ASSUME NEW u, NEW a, NEW b, Joins(u, a, b), NEW v \in Seq(Int), Run(v, b)
  PROVE  Joins(u \o v, a, b + Len(v))
<1>1. u \in Seq(Int) /\ a \in Int /\ Run(u, a) /\ b = a + Len(u) /\ Len(u) \in Nat /\ Len(v) \in Nat
  BY DEF Joins
<1>2. u \o v \in Seq(Int) /\ Len(u \o v) = Len(u) + Len(v)
  BY <1>1, ConcatProperties
<1>3. Run(u \o v, a)
  BY <1>1, RunConcat
<1>4. b + Len(v) = a + Len(u \o v)
  BY <1>1, <1>2
<1>. QED  BY <1>1, <1>2, <1>3, <1>4 DEF Joins

\* Before what has units there is no address and no answer.
LEMMA DataIs ==
  ASSUME NEW u \in Seq(Int), NEW a \in Int, a >= 0, Run(u, a)
  PROVE  DataIn(u) = u
<1>1. u # <<>> => u[1] = a + 1
  BY DEF Run
<1>2. u # <<>> => ~ (Head(u) <= 0)
  BY <1>1
<1>. QED  BY <1>2 DEF DataIn

\* The address alone is no data.
LEMMA NoDataIs ==
  ASSUME NEW u \in Seq(Int), AllMeta(u), Len(u) <= 1
  PROVE  DataIn(u) = <<>>
<1>1. CASE u = <<>>
  BY <1>1 DEF DataIn
<1>2. CASE u # <<>>
  <2>1. Len(u) \in Nat /\ Len(u) # 0
    BY <1>2, EmptySeq
  <2>2. Len(u) = 1 /\ 1 \in 1 .. Len(u)
    <3>. DEFINE n == Len(u)
    <3>1. n \in Nat /\ n # 0 /\ n <= 1
      BY <2>1
    <3>. HIDE DEF n
    <3>2. n = 1
      BY <3>1
    <3>. QED  BY <3>2 DEF n
  <2>3. u[1] = 0
    BY <2>2 DEF AllMeta, Meta
  <2>4. Head(u) <= 0
    BY <1>2, <2>3
  <2>5. Tail(u) \in Seq(Int) /\ Len(Tail(u)) = 0
    BY <1>2, <2>2, HeadTailProperties
  <2>6. Tail(u) = <<>>
    BY <2>5, EmptySeq
  <2>. QED  BY <1>2, <2>4, <2>6 DEF DataIn
<1>. QED  BY <1>1, <1>2

\* While every connection stands there is nothing between the buffers of a way.
LEMMA WholeWay ==
  ASSUME NEW q, NEW k, NEW s, NEW g, Standing(q, k, s, g),
         NEW p \in Parties, NEW r, NEW o, NEW m, NEW t, NEW n, WayOf(p, r, o, m, t, n)
  PROVE  Complete(q, k, g, p, r, o, m, t, n)
<1>0. q \in Queues /\ k \in Buffers /\ g \in PartyTypes /\ Flow(q, k, s, g) /\ AllStand(s) /\ InOrder(g)
  BY DEF Standing
<1>1. PICK a \in [Readers -> Int], b \in [Objects -> Int] : Lies(a, b, q, k, s, g)
  BY <1>0 DEF Flow
<1>2. /\ r \in Readers /\ o \in Readers /\ m \in Readers /\ t \in Readers /\ n \in Readers
      /\ o \in Objects /\ t \in Objects /\ r \in Parties
      /\ Opposite(o) = r /\ Mate(o) = m /\ Opposite(t) = m /\ Mate(t) = n /\ Opposite(p) = n
  BY Ways DEF WayOf, Readers
<1>3. /\ a[r] + Len(q[r]) = b[o] /\ b[o] + Len(k[o]) = a[m] /\ a[m] + Len(q[m]) = b[t]
      /\ b[t] + Len(k[t]) = a[n] /\ a[n] + Len(q[n]) = g[p].sent /\ a[r] = Len(g[r].got)
  BY <1>0, <1>1, <1>2 DEF Lies, AllStand
<1>4. Run(q[r], a[r]) /\ Run(k[o], b[o]) /\ Run(q[m], a[m]) /\ Run(k[t], b[t]) /\ Run(q[n], a[n])
  BY <1>1, <1>2 DEF Lies
<1>5. /\ q[r] \in Seq(Int) /\ k[o] \in Seq(Int) /\ q[m] \in Seq(Int) /\ k[t] \in Seq(Int) /\ q[n] \in Seq(Int)
      /\ a[r] \in Int /\ b[o] \in Int /\ a[m] \in Int /\ b[t] \in Int /\ a[n] \in Int
  BY <1>0, <1>2 DEF Queues, Buffers
<1>6. g[r].got \in Seq(Int) /\ Len(g[r].got) \in Nat /\ g[p].sent \in Nat /\ Run(g[r].got, 0)
  BY <1>0, <1>2 DEF PartyTypes, InOrder
<1>. DEFINE w == g[r].got
            x1 == q[r]
            x2 == k[o]
            x3 == q[m]
            x4 == k[t]
            x5 == q[n]
            a1 == a[r]
            b1 == b[o]
            a2 == a[m]
            b2 == b[t]
            a3 == a[n]
            total == g[p].sent
<1>7. /\ a1 + Len(x1) = b1 /\ b1 + Len(x2) = a2 /\ a2 + Len(x3) = b2 /\ b2 + Len(x4) = a3
      /\ a3 + Len(x5) = total /\ a1 = Len(w) /\ w \in Seq(Int) /\ Len(w) \in Nat /\ total \in Nat /\ Run(w, 0)
      /\ x1 \in Seq(Int) /\ x2 \in Seq(Int) /\ x3 \in Seq(Int) /\ x4 \in Seq(Int) /\ x5 \in Seq(Int)
      /\ a1 \in Int /\ b1 \in Int /\ a2 \in Int /\ b2 \in Int /\ a3 \in Int
      /\ Run(x1, a1) /\ Run(x2, b1) /\ Run(x3, a2) /\ Run(x4, b2) /\ Run(x5, a3)
  BY <1>3, <1>4, <1>5, <1>6
<1>. HIDE DEF w, x1, x2, x3, x4, x5, a1, b1, a2, b2, a3, total
<1>8. Joins(x1, a1, b1)
  BY <1>7 DEF Joins
<1>9. Joins(x1 \o x2, a1, a2)
  BY <1>7, <1>8, JoinsOne
<1>10. Joins(x1 \o x2 \o x3, a1, b2)
  BY <1>7, <1>9, JoinsOne
<1>11. Joins(x1 \o x2 \o x3 \o x4, a1, a3)
  BY <1>7, <1>10, JoinsOne
<1>12. Joins(x1 \o x2 \o x3 \o x4 \o x5, a1, total)
  BY <1>7, <1>11, JoinsOne
<1>. DEFINE way == x1 \o x2 \o x3 \o x4 \o x5
<1>13. way \in Seq(Int) /\ Run(way, a1) /\ total = a1 + Len(way)
  BY <1>12 DEF Joins
<1>. HIDE DEF way
<1>14. Joins(w, 0, a1)
  BY <1>7 DEF Joins
<1>15. Joins(w \o way, 0, a1 + Len(way))
  BY <1>13, <1>14, JoinsOne
<1>16. w \o way = Units(total)
  <2>. DEFINE v == w \o way
  <2>1. v \in Seq(Int) /\ Run(v, 0) /\ a1 + Len(way) = 0 + Len(v) /\ Len(v) \in Nat
    BY <1>15 DEF Joins
  <2>. HIDE DEF v
  <2>2. v = Units(Len(v))
    BY <2>1, RunIsUnits
  <2>3. Len(v) = total
    BY <1>13, <2>1
  <2>. QED  BY <2>2, <2>3 DEF v
<1>17. a2 >= 0 /\ b2 >= 0
  <2>1. Len(x1) \in Nat /\ Len(x2) \in Nat /\ Len(x3) \in Nat
    BY <1>7
  <2>. QED  BY <1>7, <2>1
<1>18. DataIn(x3) = x3 /\ DataIn(x4) = x4
  BY <1>7, <1>17, DataIs
<1>. QED  BY <1>16, <1>18 DEF Complete, w, x1, x2, x3, x4, x5, way, total

\* The two ways.
LEMMA BothWays ==
  /\ WayOf("application", "origin", "SD", "SH", "CH", "CD")
  /\ WayOf("origin", "application", "CD", "CH", "SH", "SD")
  /\ "application" \in Parties /\ "origin" \in Parties
<1>1. /\ Opposite("application") = "CD" /\ Opposite("CD") = "application" /\ Opposite("CH") = "SH"
      /\ Opposite("SH") = "CH" /\ Opposite("SD") = "origin" /\ Opposite("origin") = "SD"
  BY DEF Opposite
<1>2. Source("origin") = "application" /\ Source("application") = "origin"
  BY DEF Source
<1>. QED  BY <1>1, <1>2, Names DEF WayOf, Parties

\* What is on the relay, and in the buffer of the hand that sends the address, without the
\* address and its answer.
LEMMA RelayData ==
  ASSUME FlowInv,
         DataIn(QOf(ox)["SH"]) = QOf(ox)["SH"], DataIn(KOf(ox)["CH"]) = KOf(ox)["CH"],
         DataIn(QOf(ox)["CH"]) = QOf(ox)["CH"]
  PROVE  /\ DataIn(ox.links["relay"]["far"].in) = QOf(ox)["SH"]
         /\ DataIn(ox.links["relay"]["near"].in) = QOf(ox)["CH"]
         /\ DataIn(ox.objects["CH"].wb) = KOf(ox)["CH"]
<1>. DEFINE far == ox.links["relay"]["far"].in
            near == ox.links["relay"]["near"].in
            wb == ox.objects["CH"].wb
<1>1. ox \in Proxy /\ Quiet(ox) /\ Meant(ox)
  BY DEF FlowInv, OctopusInv, Sound, Steady, Base, Flows
<1>2. /\ "CH" \in Objects /\ "SH" \in Objects /\ "CH" \in Readers /\ "SH" \in Readers
      /\ Link("CH") = "relay" /\ EndOf("CH") = "near" /\ Link("SH") = "relay" /\ EndOf("SH") = "far"
  BY Names DEF Readers
<1>3. /\ QOf(ox)["SH"] = Arrived(ox, "SH") /\ QOf(ox)["CH"] = Arrived(ox, "CH") /\ KOf(ox)["CH"] = Kept(ox, "CH")
      /\ At(ox, "SH").in = far /\ At(ox, "CH").in = near
  BY <1>1, <1>2, Cells
<1>4. far \in Seq(Int) /\ near \in Seq(Int) /\ wb \in Seq(Int) /\ Len(far) \in Nat /\ Len(wb) \in Nat
  <2>1. far \in Seq(Int) /\ near \in Seq(Int) /\ wb \in Seq(Int)
    BY <1>1, <1>2, <1>3, Cells
  <2>2. \A v \in Seq(Int) : Len(v) \in Nat
    OBVIOUS
  <2>. HIDE DEF far, near, wb
  <2>. QED  BY <2>1, <2>2
<1>. HIDE DEF far, near, wb
<1>6. ASSUME ~ ox.objects["SH"].meta  PROVE DataIn(wb) = <<>> /\ DataIn(far) = <<>>
  <2>1. AllMeta(wb) /\ AllMeta(far)
    BY <1>1, <1>6 DEF Meant, wb, far
  <2>2. Heading(ox) = Len(wb) + Len(far)
    BY DEF Heading, wb, far
  <2>3. Heading(ox) \in Int /\ (Heading(ox) <= 0 \/ Heading(ox) <= 1)
    BY <1>1, <1>4, <1>6, <2>2 DEF Quiet
  <2>4. Len(wb) <= 1 /\ Len(far) <= 1
    <3>. DEFINE i == Len(wb)
                j == Len(far)
                m == Heading(ox)
    <3>1. i \in Nat /\ j \in Nat /\ m = i + j /\ m \in Int /\ (m <= 0 \/ m <= 1)
      BY <1>4, <2>2, <2>3
    <3>. HIDE DEF i, j, m
    <3>2. i <= 1 /\ j <= 1
      BY <3>1
    <3>. QED  BY <3>2 DEF i, j
  <2>. QED  BY <1>4, <2>1, <2>4, NoDataIs
<1>7. DataIn(far) = QOf(ox)["SH"] /\ DataIn(wb) = KOf(ox)["CH"]
  <2>1. CASE ox.objects["SH"].meta
    BY <1>3, <2>1 DEF Arrived, Kept, wb
  <2>2. CASE ~ ox.objects["SH"].meta
    BY <1>3, <1>6, <2>2 DEF Arrived, Kept
  <2>. QED  BY <2>1, <2>2
<1>8. DataIn(near) = QOf(ox)["CH"]
  <2>1. CASE ~ ox.objects["CH"].ack /\ near # <<>>
    <3>1. near[1] <= 0
      BY <1>1, <2>1 DEF Meant, near
    <3>2. DataIn(near) = Tail(near)
      BY <1>4, <2>1, <3>1 DEF DataIn
    <3>. QED  BY <1>3, <2>1, <3>2 DEF Arrived
  <2>2. CASE ox.objects["CH"].ack \/ near = <<>>
    BY <1>3, <2>2 DEF Arrived
  <2>. QED  BY <2>1, <2>2
<1>. QED  BY <1>7, <1>8 DEF far, near, wb

\* The invariant implies the property.
LEMMA FlowPreserves == FlowInv => StreamPreserved
<1>. SUFFICES ASSUME FlowInv  PROVE  StreamPreserved
  OBVIOUS
<1>1. /\ ox \in Proxy /\ parties \in PartyTypes /\ Flow(QOf(ox), KOf(ox), SOf(ox), parties)
      /\ \A p \in Parties : Run(parties[p].got, 0)
  BY DEF FlowInv, OctopusInv, Sound, Steady, Base, Flows
<1>2. QOf(ox) \in Queues /\ KOf(ox) \in Buffers /\ \A r \in Readers : SOf(ox)[r] = Stands(ox, r)
  BY <1>1, Cells
<1>3. Other("application") = "origin" /\ Other("origin") = "application"
  BY DEF Other
<1>4. \A p \in Parties : p = "application" \/ p = "origin"
  BY DEF Parties
<1>5. ASSUME NEW p \in Parties  PROVE IsPrefix(parties[Other(p)].got, Units(parties[p].sent))
  <2>. DEFINE r == Other(p)
              u == parties[r].got
              n == parties[p].sent
  <2>1. r \in Parties /\ Source(r) = p /\ r \in Readers
    BY <1>3, <1>4, BothWays, Ways DEF WayOf
  <2>2. u \in Seq(Int) /\ Len(u) \in Nat /\ n \in Nat /\ Run(u, 0)
    BY <1>1, <2>1 DEF PartyTypes
  <2>3. Len(u) <= n
    <3>1. PICK a \in [Readers -> Int], b \in [Objects -> Int] : Lies(a, b, QOf(ox), KOf(ox), SOf(ox), parties)
      BY <1>1 DEF Flow
    <3>2. a[r] + Len(QOf(ox)[r]) <= n /\ a[r] = Len(u)
      BY <2>1, <3>1 DEF Lies
    <3>3. Len(QOf(ox)[r]) \in Nat
      <4>1. QOf(ox)[r] \in Seq(Int)
        BY <1>2, <2>1 DEF Queues
      <4>. QED  BY <4>1
    <3>. HIDE DEF n, u, r
    <3>. QED  BY <2>2, <3>2, <3>3
  <2>. HIDE DEF u, n, r
  <2>4. Units(n) \in Seq(Int) /\ Len(Units(n)) = n /\ Run(Units(n), 0)
    BY <2>2, UnitsRun
  <2>5. IsPrefix(u, Units(n))
    BY <2>2, <2>3, <2>4, RunPrefix
  <2>. QED  BY <2>5 DEF u, n, r
<1>6. ASSUME \A l \in LinkNames : Whole(l)
      PROVE  LET in(l, e) == ox.links[l][e].in
                 wb(o) == ox.objects[o].wb
             IN  /\ parties["origin"].got \o
                      (in("org", "far") \o wb("SD") \o DataIn(in("relay", "far")) \o DataIn(wb("CH")) \o in("app", "far"))
                      = Units(parties["application"].sent)
                 /\ parties["application"].got \o
                      (in("app", "near") \o wb("CD") \o DataIn(in("relay", "near")) \o wb("SH") \o in("org", "near"))
                      = Units(parties["origin"].sent)
  <2>. DEFINE q == QOf(ox)
              k == KOf(ox)
              s == SOf(ox)
              g == parties
  <2>1. AllStand(s)
    BY <1>2, <1>6, WayNames DEF Whole, Stands, At, AllStand
  <2>2. Standing(q, k, s, g)
    BY <1>1, <1>2, <2>1 DEF InOrder, Standing
  <2>. HIDE DEF q, k, s, g
  <2>3. Complete(q, k, g, "application", "origin", "SD", "SH", "CH", "CD")
    BY <2>2, BothWays, WholeWay
  <2>4. Complete(q, k, g, "origin", "application", "CD", "CH", "SH", "SD")
    BY <2>2, BothWays, WholeWay
  <2>6. /\ DataIn(ox.links["relay"]["far"].in) = q["SH"] /\ DataIn(ox.links["relay"]["near"].in) = q["CH"]
        /\ DataIn(ox.objects["CH"].wb) = k["CH"]
    BY <2>3, <2>4, RelayData DEF Complete, q, k
  <2>7. /\ q["origin"] = ox.links["org"]["far"].in /\ q["CD"] = ox.links["app"]["far"].in
        /\ q["application"] = ox.links["app"]["near"].in /\ q["SD"] = ox.links["org"]["near"].in
    <3>1. /\ "origin" \in Readers /\ "application" \in Readers /\ "CD" \in Readers /\ "SD" \in Readers
      BY Names DEF Readers, Parties
    <3>2. /\ WayLink("CD") = "app" /\ WayLink("SD") = "org" /\ WayLink("application") = "app" /\ WayLink("origin") = "org"
          /\ WayEnd("CD") = "far" /\ WayEnd("SD") = "near" /\ WayEnd("application") = "near" /\ WayEnd("origin") = "far"
      BY Names DEF WayLink, WayEnd, LinkOf, PartyEnd, Parties
    <3>3. \A r \in {"origin", "application", "CD", "SD"} : Arrived(ox, r) = At(ox, r).in
      BY DEF Arrived
    <3>. QED  BY <1>1, <3>1, <3>2, <3>3, Cells DEF At, q
  <2>8. k["SD"] = ox.objects["SD"].wb /\ k["CD"] = ox.objects["CD"].wb /\ k["SH"] = ox.objects["SH"].wb
    <3>1. "SD" \in Objects /\ "CD" \in Objects /\ "SH" \in Objects
      BY Names
    <3>. QED  BY <1>1, <3>1, Cells DEF Kept, k
  <2>. QED  BY <2>3, <2>4, <2>6, <2>7, <2>8 DEF Complete, g
<1>. DEFINE in(l, e) == ox.links[l][e].in
            wb(o) == ox.objects[o].wb
            up == in("org", "far") \o wb("SD") \o DataIn(in("relay", "far")) \o DataIn(wb("CH")) \o in("app", "far")
            down == in("app", "near") \o wb("CD") \o DataIn(in("relay", "near")) \o wb("SH") \o in("org", "near")
            way(p) == IF p = "application" THEN up ELSE down
<1>7. (\A l \in LinkNames : Whole(l)) =>
         /\ parties["origin"].got \o up = Units(parties["application"].sent)
         /\ parties["application"].got \o down = Units(parties["origin"].sent)
  BY <1>6
<1>8. \A p \in Parties : /\ IsPrefix(parties[Other(p)].got, Units(parties[p].sent))
                         /\ (\A l \in LinkNames : Whole(l)) =>
                               parties[Other(p)].got \o way(p) = Units(parties[p].sent)
  <2>. HIDE DEF up, down
  <2>. QED  BY <1>3, <1>4, <1>5, <1>7
<1>. QED  BY <1>8 DEF StreamPreserved

\* What each party receives is what the other sent, in order, and while no connection ends
\* the rest is on its way, in order: for any room and any numbers of units and resets.
THEOREM StreamAlwaysPreserved == Spec => []StreamPreserved
<1>. QED  BY FlowAlways, FlowPreserves, PTL

=============================================================================
