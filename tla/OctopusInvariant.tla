-------------------------- MODULE OctopusInvariant --------------------------
(***************************************************************************)
(* The inductive invariants of the octopus proxy and the vocabulary of     *)
(* their proofs in OctopusProofs.                                          *)
(*                                                                         *)
(* Sound is kept by each call that may change the state of an object, so   *)
(* that a handler is covered however its calls combine.  It says           *)
(*   - of each object that it has a socket and a task as its life says     *)
(*     (Base),                                                             *)
(*   - of the exchange of the address and its answer that nothing else     *)
(*     moves before it is over (Quiet),                                    *)
(*   - of a hand and its dispatcher who points to whom (Pair, Reaching).   *)
(* Between the nested calls of a close the pair may disagree: there only   *)
(* Steady holds, the first two.                                            *)
(*                                                                         *)
(* Flows is kept by each call that may move data.  It says                 *)
(*   - of the address and its answer where they can be (Meant),            *)
(*   - of the five buffers of each direction that numbers can be given to  *)
(*     what comes before them, so that each holds the units that follow    *)
(*     its number, and has a joint with the next one as long as the        *)
(*     connection of the next one stands (Flow).                           *)
(* A call that closes or is refused loses data at most: Fading.            *)
(***************************************************************************)
EXTENDS Octopus

-------------------------------------------------------------------------------
(* The invariant of hands and dispatchers. *)

\* No more is under way than there is room for.
Wire == [Ends -> {end \in End : Len(end.in) <= Room}]
Proxy == [ links : [LinkNames -> Wire], objects : [Objects -> Object], hosts : [Hosts -> Context(Objects)] ]

StateOf(x, o) == x.links[Link(o)][EndOf(o)].state

\* A connection begins at its near end.
Shaped(l) ==
  /\ l["near"].state \in {"none", "connecting", "open", "closed"}
  /\ l["far"].state \in {"none", "queued", "open", "closed"}
  /\ l["near"].state \in {"none", "connecting"} => l["far"].state = "none"

\* One object, its socket, its task and its entry with the host.
Own(x, o) ==
  LET life == x.objects[o].life
  IN  /\ life = "live" <=> StateOf(x, o) \in {"connecting", "open"}
      /\ life = "destroyed" <=> o \in TasksOf(x.hosts[Host(o)])
      /\ StateOf(x, o) \in {"none", "queued"} => life = "none"
      /\ o \in Dispatchers /\ life = "live" => o \in x.hosts[Host(o)].visitors

\* The objects come one after the other: CD before CH, each socket before its object,
\* and SD only once the address was read.
InTurn(x) ==
  /\ x.objects["CD"].life = "none" => x.objects["CH"].life = "none"
  /\ ~ x.objects["SH"].meta => x.objects["SD"].life = "none"
  /\ \A h \in Hands : x.objects[h].life = "none" => ~ x.objects[h].meta /\ ~ x.objects[h].ack
  /\ \A o \in {"CH", "SD"} : x.objects[o].life = "none" => StateOf(x, o) = "none"

Base(x) ==
  /\ x \in Proxy
  /\ \A l \in LinkNames : Shaped(x.links[l])
  /\ \A h \in Hosts : TasksOf(x.hosts[h]) \subseteq ObjectsOf(h)
  /\ \A o \in Objects : Own(x, o)
  /\ InTurn(x)

\* A hand and its dispatcher.
Pair(x, h) ==
  LET hand == x.objects[h]
      disp == x.objects[Mate(h)]
  IN  /\ hand.life = "live" /\ hand.dispatcher => disp.life = "live" /\ disp.hands # "none"
      /\ hand.life = "live" /\ ~ hand.dispatcher => disp.life # "live"
      /\ disp.life = "live" /\ disp.alarm /\ disp.hands # "none" => hand.life = "live" /\ hand.dispatcher
      /\ hand.life = "destroyed" /\ hand.alarm => ~ hand.dispatcher

\* What the caller has sent and the callee has not read.
Heading(x) == Len(x.objects["CH"].wb) + Len(x.links["relay"]["far"].in)

\* Until the hand of the callee has answered, nothing but the address is on its way,
\* and its dispatcher waits for the origin server.
Quiet(x) ==
  /\ ~ x.objects["CH"].ack => ~ x.objects["CD"].alarm
  /\ x.objects["SH"].ack => x.objects["SH"].meta
  /\ ~ x.objects["SH"].ack =>
       /\ ~ x.objects["CH"].ack
       /\ x.links["relay"]["near"].in = <<>>
       /\ Heading(x) <= (IF x.objects["SH"].meta \/ ~ x.objects["CH"].meta THEN 0 ELSE 1)
       /\ \A o \in {"SH", "SD"} : x.objects[o].wb = <<>> /\ ~ x.objects[o].alarm

Reaching(x) ==
  x.objects["SD"].life = "live" /\ x.objects["SD"].status = "connecting" =>
    /\ x.objects["SH"].life = "live" /\ x.objects["SH"].dispatcher /\ ~ x.objects["SH"].ack
    /\ x.objects["SD"].hands = "wait"

Steady(x) == Base(x) /\ Quiet(x)
Sound(x) == Steady(x) /\ (\A h \in Hands : Pair(x, h)) /\ Reaching(x)

PartyTypes == [Parties -> [sent : Nat, got : Seq(Int)]]

OctopusInv ==
  /\ Sound(ox)
  /\ parties \in PartyTypes /\ resets \in 0 .. Resets

-------------------------------------------------------------------------------
(* What a call does. *)

WireEnd == {end \in End : Len(end.in) <= Room}

States == {"none", "connecting", "queued", "open", "closed"}
SetState(l, e, state) == [l EXCEPT ![e].state = state]

ClosedEnd == [NoEnd EXCEPT !.state = "closed"]

SameStates(l, k) == k \in Wire /\ \A e \in Ends : k[e].state = l[e].state

\* What waits at the ends of k is what waits at those of l, or nothing.
NoMore(l, k) == \A e \in Ends : k[e].in = l[e].in \/ k[e].in = <<>>

SetLink(x, l, k) == [x EXCEPT !.links[l] = k]
SetObject(x, o, k) == [x EXCEPT !.objects[o] = k]
SetHost(x, h, c) == [x EXCEPT !.hosts[h] = c]

\* Nothing changes but data, marks and the state of the signals.
Same(x, y) ==
  /\ y \in Proxy /\ y.hosts = x.hosts
  /\ \A l \in LinkNames : SameStates(x.links[l], y.links[l])
  /\ \A o \in Objects : y.objects[o].life = x.objects[o].life
  /\ x.objects["SH"].meta => y.objects["SH"].meta
  /\ \A h \in Hands : x.objects[h].life = "none" =>
       y.objects[h].meta = x.objects[h].meta /\ y.objects[h].ack = x.objects[h].ack

\* The marks that tell how far the session is.
Marks(x, y) ==
  \A o \in Objects :
    /\ y.objects[o].alarm = x.objects[o].alarm
    /\ y.objects[o].meta = x.objects[o].meta /\ y.objects[o].ack = x.objects[o].ack

\* No data come into what counts.
Waits(x, y) ==
  /\ y.links["relay"]["near"].in \in {x.links["relay"]["near"].in, <<>>}
  /\ Heading(y) <= Heading(x)
  /\ \A o \in {"SH", "SD"} : y.objects[o].wb = x.objects[o].wb

\* Nothing is added, neither to the buffers nor to what waits on the relay.
Calm(x, y) ==
  /\ Marks(x, y)
  /\ \A o \in Objects : y.objects[o].wb = x.objects[o].wb
  /\ NoMore(x.links["relay"], y.links["relay"])

\* What no one looks at before the answer.
Mild(j, k) ==
  /\ k \in Object
  /\ k.life = j.life /\ k.wb = j.wb /\ k.alarm = j.alarm /\ k.meta = j.meta /\ k.ack = j.ack

Others(x, y, o) == \A t \in Objects : t # o => y.objects[t] = x.objects[t]

\* Two records of an object that differ in what is to be written.
Alike(j, k) ==
  /\ k \in Object
  /\ k.life = j.life /\ k.status = j.status /\ k.dispatcher = j.dispatcher /\ k.hands = j.hands
  /\ k.waitClose = j.waitClose /\ k.alarm = j.alarm /\ k.meta = j.meta /\ k.ack = j.ack

\* A flush or a partial send: y has sent a part of what x had at an object.
Sends(x, y, o, data, u) ==
  /\ Base(y) /\ y.hosts = x.hosts /\ Others(x, y, o) /\ Alike(x.objects[o], y.objects[o])
  /\ y.objects[o].wb = u
  /\ y.links[Link(o)] = Send(x.links[Link(o)], EndOf(o), data)
  /\ \A m \in LinkNames : m # Link(o) => y.links[m] = x.links[m]

\* What a call leaves as it is that only moves data of one object.
Moves(x, y, o) ==
  Steady(y) /\ y.hosts = x.hosts /\ Others(x, y, o) /\ Alike(x.objects[o], y.objects[o])

KeepMore(x, o, data) == [x EXCEPT !.objects[o].wb = @ \o data]

\* The hand of the callee answers once, if it can.
OnlyAcked(j, k) ==
  /\ k \in Object
  /\ k.life = j.life /\ k.status = j.status /\ k.dispatcher = j.dispatcher /\ k.hands = j.hands
  /\ k.waitClose = j.waitClose /\ k.alarm = j.alarm /\ k.meta = j.meta /\ k.wb = j.wb

\* What closing leaves of a record.
Closed(j, k) ==
  /\ k \in Object
  /\ k.life = IF j.life = "live" THEN "destroyed" ELSE j.life
  /\ k.dispatcher = j.dispatcher /\ k.hands = j.hands /\ k.waitClose = j.waitClose
  /\ k.wb = j.wb /\ k.alarm = j.alarm /\ k.meta = j.meta /\ k.ack = j.ack

\* An object closes and posts its deletion, once.
Closes(x, y, o) == Steady(y) /\ Others(x, y, o) /\ Closed(x.objects[o], y.objects[o])

\* What is told to close waits for what it has to write.
Told(j, k) ==
  /\ k \in Object
  /\ k.life = IF j.life = "live" /\ j.wb = <<>> THEN "destroyed" ELSE j.life
  /\ k.life = "live" => k.status = j.status
  /\ k.wb = j.wb /\ k.alarm = j.alarm /\ k.meta = j.meta /\ k.ack = j.ack

Ending == {"conn_failed", "conn_disconn"}

\* A hand closes: its dispatcher is told, if the hand points to it and the code says so.
HandGone(x, y, h, code) ==
  /\ Steady(y)
  /\ \A t \in Objects : t \notin {h, Mate(h)} => y.objects[t] = x.objects[t]
  /\ y.objects[h] \in Object /\ y.objects[h].dispatcher = FALSE
  /\ y.objects[h].life = IF x.objects[h].life = "live" THEN "destroyed" ELSE x.objects[h].life
  /\ y.objects[h].alarm = x.objects[h].alarm /\ y.objects[h].ack = x.objects[h].ack
  /\ IF x.objects[h].dispatcher /\ code \in Ending
     THEN Told(x.objects[Mate(h)], y.objects[Mate(h)]) /\ y.objects[Mate(h)].hands = "none"
     ELSE y.objects[Mate(h)] = x.objects[Mate(h)]

\* A dispatcher closes: it holds no hand any more, and its hand does not point to it.
DispatcherGone(x, y, d) ==
  /\ Steady(y)
  /\ \A t \in Objects : t \notin {d, Mate(d)} => y.objects[t] = x.objects[t]
  /\ y.objects[d].hands = "none" /\ y.objects[d].life # "live"
  /\ IF x.objects[d].hands = "none" THEN y.objects[Mate(d)] = x.objects[Mate(d)]
                                    ELSE y.objects[Mate(d)].dispatcher = FALSE

St(links, o) == links[Link(o)][EndOf(o)].state

AllShaped(links) == links \in [LinkNames -> Wire] /\ \A l \in LinkNames : Shaped(links[l])
NoMoreAnywhere(links, k) == \A l \in LinkNames : NoMore(links[l], k[l])
Shut(state) == IF state = "none" THEN "none" ELSE "closed"

\* What is left of an object when its host ends.
Over(j, k) ==
  /\ k \in Object /\ k.life = (IF j.life = "none" THEN "none" ELSE "deleted")
  /\ k.wb = j.wb /\ k.alarm = j.alarm /\ k.meta = j.meta /\ k.ack = j.ack

\* The context of the host of a new object.
Visiting(x, y, o) ==
  /\ \A g \in Hosts : g # Host(o) => y.hosts[g] = x.hosts[g]
  /\ TasksOf(y.hosts[Host(o)]) = TasksOf(x.hosts[Host(o)])
  /\ x.hosts[Host(o)].visitors \subseteq y.hosts[Host(o)].visitors
  /\ o \in Dispatchers => o \in y.hosts[Host(o)].visitors

\* An object that was not there lives with its socket, or its connection failed and
\* its deletion is posted.
Born(x, y, o) ==
  /\ y \in Proxy /\ Others(x, y, o)
  /\ \A l \in LinkNames : Shaped(y.links[l])
  /\ \A t \in Objects : t # o => StateOf(y, t) = StateOf(x, t)
  /\ \A g \in Hosts : g # Host(o) => y.hosts[g] = x.hosts[g]
  /\ x.hosts[Host(o)].visitors \subseteq y.hosts[Host(o)].visitors
  /\ o \in Dispatchers => o \in y.hosts[Host(o)].visitors
  /\ \/ /\ y.objects[o].life = "live" /\ StateOf(y, o) \in {"connecting", "open"}
        /\ TasksOf(y.hosts[Host(o)]) = TasksOf(x.hosts[Host(o)])
     \/ /\ y.objects[o].life = "destroyed" /\ StateOf(y, o) = "closed"
        /\ TasksOf(y.hosts[Host(o)]) = TasksOf(x.hosts[Host(o)]) \cup {o}

\* A connection that failed at once.
Fallen(j, k) ==
  /\ k \in Object /\ k.life = "destroyed"
  /\ k.status = j.status /\ k.dispatcher = j.dispatcher /\ k.hands = j.hands /\ k.waitClose = j.waitClose
  /\ k.wb = j.wb /\ k.alarm = j.alarm /\ k.meta = j.meta /\ k.ack = j.ack

\* A new object has nothing to say yet, but for the address that the caller's hand
\* brings.
Fresh(k, o) ==
  /\ k \in Object /\ ~ k.ack /\ ~ k.alarm
  /\ IF o = "CH" THEN Len(k.wb) = 1 /\ k.meta ELSE k.wb = <<>> /\ ~ k.meta

\* The dispatcher of the caller is there.
NewDispatcher(status) == [NoObject EXCEPT !.life = "live", !.status = status]

CalleeFails(x) == HandConnClose(SendMetaAck(x, DstFailed), "SH", "dst_failed")

\* An end stays with whoever has it: it is open or under way, or not there.
Fits(j, k) ==
  /\ k.state \in {"connecting", "open"} <=> j.state \in {"connecting", "open"}
  /\ k.state \in {"none", "queued"} => j.state \in {"none", "queued"}

-------------------------------------------------------------------------------
(* The way of the data. *)

Readers == Objects \cup Parties

\* The other end of the connection, and the party whose data come to a reader.
Opposite(r) ==
  CASE r = "application" -> "CD" [] r = "CD" -> "application" [] r = "CH" -> "SH"
    [] r = "SH" -> "CH" [] r = "SD" -> "origin" [] r = "origin" -> "SD"
Source(r) == IF r \in {"CD", "SH", "origin"} THEN "application" ELSE "origin"

\* The units after number a, in order.
Run(q, a) == \A i \in 1 .. Len(q) : q[i] = a + i

Queues == [Readers -> Seq(Int)]
Buffers == [Objects -> Seq(Int)]

\* q, k and s are the queues, the buffers and whether the connection of a reader stands
\* on its side.  a and b number what comes before each queue and buffer.  A queue or a buffer
\* that stands has a joint to the one behind it; nothing reaches one that has ended.
Lies(a, b, q, k, s, g) ==
  /\ \A r \in Readers : Run(q[r], a[r]) /\ a[r] + Len(q[r]) <= g[Source(r)].sent
  /\ \A o \in Objects : Run(k[o], b[o]) /\ b[o] + Len(k[o]) <= g[Source(Mate(o))].sent
  /\ \A o \in Objects : s[Opposite(o)] => a[Opposite(o)] + Len(q[Opposite(o)]) = b[o]
  /\ \A o \in Objects : s[o] => b[o] + Len(k[o]) = a[Mate(o)]
  /\ \A p \in Parties : s[Opposite(p)] => a[Opposite(p)] + Len(q[Opposite(p)]) = g[p].sent
  /\ \A p \in Parties : a[p] = Len(g[p].got)
Flow(q, k, s, g) == \E a \in [Readers -> Int], b \in [Objects -> Int] : Lies(a, b, q, k, s, g)

\* Connections end: a queue that has ended is empty, and a buffer may have lost its end.
Wanes(q, k, s, q2, k2, s2) ==
  /\ \A r \in Readers : s2[r] => s[r]
  /\ \A r \in Readers : q2[r] = q[r] \/ (~ s2[r] /\ q2[r] = <<>>)
  /\ \A o \in Objects : k2[o] = k[o] \/ (~ s2[o] /\ k2[o] \in Seq(Int) /\ \E v \in Seq(Int) : k[o] = k2[o] \o v)

\* A party reads all there is.
Takes(q, k, s, g, p, q2, g2) ==
  /\ q \in Queues /\ k \in Buffers /\ g \in PartyTypes /\ g2 \in PartyTypes /\ Flow(q, k, s, g)
  /\ Run(g[p].got, 0)
  /\ g2[p].sent = g[p].sent /\ g2[p].got = g[p].got \o q[p] /\ \A c \in Parties : c # p => g2[c] = g[c]
  /\ q2[p] = <<>> /\ \A r \in Readers : r # p => q2[r] = q[r]

-------------------------------------------------------------------------------
(* The buffers of the proxy. *)

WayLink(r) == IF r \in Parties THEN LinkOf(r) ELSE Link(r)
WayEnd(r) == IF r \in Parties THEN PartyEnd(r) ELSE EndOf(r)
At(x, r) == x.links[WayLink(r)][WayEnd(r)]

\* What waits for a reader without the address and its answer, which are no data: until
\* the callee's hand has parsed the address there is nothing else on its way, and until the
\* caller's hand has read the answer it is ahead of the data.
Arrived(x, r) ==
  IF r = "SH" /\ ~ x.objects["SH"].meta THEN <<>>
  ELSE IF r = "CH" /\ ~ x.objects["CH"].ack /\ At(x, r).in # <<>> THEN Tail(At(x, r).in)
  ELSE At(x, r).in
Kept(x, o) == IF o = "CH" /\ ~ x.objects["SH"].meta THEN <<>> ELSE x.objects[o].wb
Stands(x, r) == At(x, r).state # "closed"

QOf(x) == [r \in Readers |-> Arrived(x, r)]
KOf(x) == [o \in Objects |-> Kept(x, o)]
SOf(x) == [r \in Readers |-> Stands(x, r)]

\* Who has connected has somebody to send to.
Joined(l) == l["near"].state = "open" => l["far"].state # "none"

AllMeta(u) == \A i \in 1 .. Len(u) : u[i] = Meta

Blank(k) == k.wb = <<>> /\ ~ k.meta /\ ~ k.ack

\* The address is alone on its way; the answer is ahead of what follows, unless it
\* could not be sent, and then nothing can; where nothing has been there is nothing.
Meant(x) ==
  /\ ~ x.objects["SH"].meta => AllMeta(x.objects["CH"].wb) /\ AllMeta(x.links["relay"]["far"].in)
  /\ LET near == x.links["relay"]["near"]
         far == x.links["relay"]["far"]
     IN  ~ x.objects["CH"].ack =>
           /\ near.in # <<>> => near.in[1] <= 0
           /\ x.objects["SH"].ack /\ near.in = <<>> =>
                near.state = "closed" \/ far.state = "closed" \/ (far.reset /\ far.state # "none")
  /\ \A l \in LinkNames : Joined(x.links[l])
  /\ \A l \in LinkNames, e \in Ends : x.links[l][e].state \in {"none", "closed"} => x.links[l][e].in = <<>>
  /\ \A o \in Objects : x.objects[o].life = "none" => Blank(x.objects[o])

\* The data of the parties' record g, of which u is on its way to the buffer of o.
FlowsWith(x, g, o, u) == Meant(x) /\ Flow(QOf(x), [KOf(x) EXCEPT ![o] = @ \o u], SOf(x), g)
Flows(x, g) == Meant(x) /\ Flow(QOf(x), KOf(x), SOf(x), g)

-------------------------------------------------------------------------------
(* What loses data at most. *)

\* An end stays, or its data are gone with it.
EndFades(i, k) ==
  /\ k.in \in {i.in, <<>>}
  /\ k.state # "closed" => i.state # "closed" /\ k.in = i.in /\ (i.reset /\ i.state # "none" => k.reset)
  /\ k.state = "closed" => k.in = <<>> \/ i.state \in {"none", "closed"}
  /\ k.state = "none" => i.state = "none"

Fades(l, k) ==
  /\ k \in Wire
  /\ Joined(l) => Joined(k)
  /\ \A e \in Ends : EndFades(l[e], k[e])

Keeps(j, k) ==
  /\ k.wb = j.wb /\ k.meta = j.meta /\ k.ack = j.ack
  /\ k.life = "none" => j.life = "none"
Fading(x, y) ==
  /\ y \in Proxy
  /\ \A l \in LinkNames : Fades(x.links[l], y.links[l])
  /\ \A o \in Objects : Keeps(x.objects[o], y.objects[o])

\* The data u were read from the queue of r, and nobody has them yet.
FlowsLate(x, g, r, u) == Meant(x) /\ Flow([QOf(x) EXCEPT ![r] = u \o @], KOf(x), SOf(x), g)

\* The first part u of the buffer of o goes on, the rest v is kept.
Passes(q, k, s, o, u, v, q2, k2) ==
  /\ q \in Queues /\ k \in Buffers /\ o \in Objects /\ u \in Seq(Int) /\ v \in Seq(Int)
  /\ k[o] = u \o v /\ k2[o] = v /\ \A t \in Objects : t # o => k2[t] = k[t]
  /\ \A r \in Readers : r # Opposite(o) => q2[r] = q[r]
  /\ q2[Opposite(o)] = IF s[Opposite(o)] THEN q[Opposite(o)] \o u ELSE q[Opposite(o)]

\* Only the link of o fades.
Silent(x, y, o) ==
  Fading(x, y) /\ \A l \in LinkNames : l # Link(o) => y.links[l] = x.links[l]

Reading(x, r, n) == SetLink(x, Link(r), Consume(x.links[Link(r)], EndOf(r), n))

FlowInv == OctopusInv /\ Flows(ox, parties) /\ \A p \in Parties : Run(parties[p].got, 0)

\* Something happens on a connection of a party, and none ends.
Aside(x, z) ==
  /\ z \in Proxy /\ z.objects = x.objects /\ z.links["relay"] = x.links["relay"]
  /\ \A l \in LinkNames, e \in Ends :
       /\ z.links[l][e].state = x.links[l][e].state
       /\ \/ z.links[l][e].in = x.links[l][e].in
          \/ z.links[l][e].in = <<>>
          \/ x.links[l][e].state \notin {"none", "closed"}

-------------------------------------------------------------------------------
(* What the invariant says of the streams. *)

\* Neighbours together, from number a to number b.
Joins(u, a, b) == u \in Seq(Int) /\ a \in Int /\ Run(u, a) /\ b = a + Len(u)

\* The readers of what p sends, from the last to the first.
WayOf(p, r, o, m, t, n) ==
  /\ r \in Parties /\ o \in Objects /\ m \in Objects /\ t \in Objects /\ n \in Objects
  /\ Source(r) = p /\ Opposite(o) = r /\ Mate(o) = m /\ Opposite(t) = m /\ Mate(t) = n /\ Opposite(p) = n

\* The parties have got their units in order.
InOrder(g) == \A p \in Parties : Run(g[p].got, 0)

\* Every connection stands, as seen by every reader.
AllStand(s) == \A u \in Readers : s[u]

Standing(q, k, s, g) ==
  q \in Queues /\ k \in Buffers /\ g \in PartyTypes /\ Flow(q, k, s, g) /\ AllStand(s) /\ InOrder(g)

\* All that p sent was read or is on its way, in order.
Complete(q, k, g, p, r, o, m, t, n) ==
  /\ g[r].got \o (q[r] \o k[o] \o q[m] \o k[t] \o q[n]) = Units(g[p].sent)
  /\ DataIn(q[m]) = q[m] /\ DataIn(k[t]) = k[t]

=============================================================================
