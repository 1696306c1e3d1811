------------------------------- MODULE Octopus -------------------------------
(***************************************************************************)
(* The single path proxy of src/octopus.  A capturing host (the caller)    *)
(* accepts the connection of an application; its dispatcher CD has a hand  *)
(* CH that connects to the service of another host (the callee), where a   *)
(* hand SH has a dispatcher SD that connects to the origin server.         *)
(*                                                                         *)
(*   application --app--> CD CH --relay--> SH SD --org--> origin server    *)
(*                                                                         *)
(* The first unit on the relay is the address of the origin server, the    *)
(* first unit back says whether it was reached.  Hands are served by epoll,*)
(* and flush what waits by a bandwidth alarm; dispatchers are served by a  *)
(* socket alarm, once connected.  ox holds links, objects and hosts; the   *)
(* methods are operators from ox to its next value.                        *)
(***************************************************************************)
EXTENDS Links, BaseContext, SequencesExt

CONSTANTS
  Up,      \* units the application sends
  Down,    \* units the origin server sends
  Resets   \* connections that the network resets

ASSUME OctopusAssumption == Up \in Nat /\ Down \in Nat /\ Resets \in Nat

Hosts == {"caller", "callee"}
Hands == {"CH", "SH"}
Dispatchers == {"CD", "SD"}
Objects == Hands \cup Dispatchers
Host(o) == IF o \in {"CD", "CH"} THEN "caller" ELSE "callee"
ObjectsOf(h) == {o \in Objects : Host(o) = h}
Mate(o) == CHOOSE m \in ObjectsOf(Host(o)) : m # o

LinkNames == {"app", "relay", "org"}
Link(o) == CASE o = "CD" -> "app" [] o \in Hands -> "relay" [] o = "SD" -> "org"
EndOf(o) == IF o \in {"CD", "SH"} THEN "far" ELSE "near"

\* Units that are no data: the address, and the two answers to it.
Meta == 0
DstConnected == -1
DstFailed == -2

VARIABLES
  ox,       \* [links, objects, hosts]
  parties,  \* what the application and the origin server have sent and received
  resets    \* connections reset so far

vars == <<ox, parties, resets>>

\* dispatcher: dispatcher_ of a hand is not null; hands: the set of a dispatcher
\* that holds its hand; meta, ack: the bits of msg_flag_; alarm: the bandwidth or
\* socket alarm was created and is set; wb: wb_.
Object ==
  [ life : {"none", "live", "destroyed", "deleted"},
    status : {"min", "connecting", "connected", "disconn"},
    dispatcher : BOOLEAN, hands : {"none", "wait", "ready"},
    wb : Seq(Int), waitClose : BOOLEAN, alarm : BOOLEAN, meta : BOOLEAN, ack : BOOLEAN ]

NoObject ==
  [life |-> "none", status |-> "min", dispatcher |-> FALSE, hands |-> "none", wb |-> <<>>,
   waitClose |-> FALSE, alarm |-> FALSE, meta |-> FALSE, ack |-> FALSE]

\* One call after another: Call at the result of the calls before it.
Then(x, Call(_)) == CHOOSE y \in {Call(z) : z \in {x}} : TRUE

HasSocket(x, o) == HasFd(x.links[Link(o)], EndOf(o))
Gone(x, o) == x.hosts[Host(o)].gone

-------------------------------------------------------------------------------
(* The end of a host: main leaves its loop, or a CHECK aborts the process. *)

CloseSocketOf(links, o) ==
  [links EXCEPT ![Link(o)] = Close(IF EndOf(o) = "far" THEN Abandon(@) ELSE @, EndOf(o))]
CloseSocketsOf(links, h) ==
  IF h = "caller" THEN CloseSocketOf(CloseSocketOf(links, "CD"), "CH")
                  ELSE CloseSocketOf(CloseSocketOf(links, "SH"), "SD")

EndObject(object) == [object EXCEPT !.life = IF @ = "none" THEN @ ELSE "deleted"]

End_(x, h) ==
  [x EXCEPT !.links = CloseSocketsOf(@, h),
            !.objects = [o \in Objects |-> IF Host(o) = h THEN EndObject(@[o]) ELSE @[o]],
            !.hosts[h] = Destroy(@)]

-------------------------------------------------------------------------------
(* OctopusBase *)

FlushBuffer(x, o) ==
  LET wb == x.objects[o].wb
      link == x.links[Link(o)]
  IN  IF wb = <<>> THEN x
      ELSE IF ~ HasSocket(x, o) THEN End_(x, Host(o))                 \* CHECK
      ELSE [x EXCEPT !.links[Link(o)] = Send(@, EndOf(o), wb),
                     !.objects[o].wb = SubSeq(@, Taken(link, EndOf(o), Len(wb)) + 1, Len(@))]

\* Sink flushes, sends what it can of the data and keeps the rest; that of a hand
\* creates the bandwidth alarm first.
SendOrKeep(x, o, data) ==
  LET n == Taken(x.links[Link(o)], EndOf(o), Len(data))
  IN  [x EXCEPT !.links[Link(o)] = Send(@, EndOf(o), data),
                !.objects[o].wb = @ \o SubSeq(data, n + 1, Len(data))]

SinkUnkept(x, o, data) == [x EXCEPT !.links[Link(o)] = Send(@, EndOf(o), data)]
Sink(x, o, data) ==
  LET flushed == FlushBuffer(x, o)
  IN  IF Gone(flushed, o) THEN flushed
      ELSE IF flushed.objects[o].wb = <<>> /\ HasSocket(flushed, o)
           THEN SendOrKeep(flushed, o, data)
           ELSE [flushed EXCEPT !.objects[o].wb = @ \o data]

HandSink(x, h, data) == Sink([x EXCEPT !.objects[h].alarm = TRUE], h, data)

DeleteSelf(x, o) ==
  IF x.objects[o].life # "live" THEN x
  ELSE [x EXCEPT !.objects[o].life = "destroyed", !.hosts[Host(o)] = PostTask(@, o)]

\* What both ConnClose do last: leave the loop, close and delete.
CloseAlone(x, o) ==
  DeleteSelf([x EXCEPT !.links[Link(o)] = Close(@, EndOf(o)),
                       !.objects[o].status = "disconn",
                       !.hosts[Host(o)] = IF o \in Dispatchers THEN UnRegisterExitVisitor(@, o) ELSE @], o)

-------------------------------------------------------------------------------
(* Signals between a hand and its dispatcher.  What closes has let go of the  *)
(* other before, so that no signal comes back.                                *)

CloseOnceFlushed(x, o) ==
  LET waiting == [x EXCEPT !.objects[o].waitClose = TRUE]
  IN  IF waiting.objects[o].wb = <<>> THEN CloseAlone(waiting, o) ELSE waiting

SendMetaAck(x, answer) ==
  IF ~ HasSocket(x, "SH") \/ x.objects["SH"].ack THEN x
  ELSE [x EXCEPT !.objects["SH"].ack = TRUE, !.links["relay"] = Send(@, "far", <<answer>>)]

DispatcherSignal(x, d, code) ==
  IF code = "dst_connected" /\ d = "CD"
  THEN [x EXCEPT !.objects[d].hands = "ready", !.objects[d].alarm = TRUE]
  ELSE IF code \in {"conn_failed", "conn_disconn"}
       THEN CloseOnceFlushed([x EXCEPT !.objects[d].hands = "none"], d)
  ELSE x

HandSignal(x, h, code) ==
  LET alone == [x EXCEPT !.objects[h].dispatcher = FALSE]
  IN  CASE h = "SH" /\ code = "dst_connected" -> SendMetaAck(x, DstConnected)
        [] h = "SH" /\ code = "dst_failed" -> CloseAlone(SendMetaAck(alone, DstFailed), h)
        [] code = "conn_disconn" -> CloseOnceFlushed(alone, h)
        [] OTHER -> x

\* OctopusHand::ConnClose
HandConnClose(x, h, code) ==
  CloseAlone(IF x.objects[h].dispatcher
             THEN [DispatcherSignal(x, Mate(h), code) EXCEPT !.objects[h].dispatcher = FALSE]
             ELSE x, h)

\* OctopusDispatcher::ConnClose
DispatcherConnCloseAlone(x, d, code) == CloseAlone([x EXCEPT !.objects[d].hands = "none"], d)
DispatcherConnClose(x, d, code) ==
  CloseAlone([(IF x.objects[d].hands = "none" THEN x ELSE HandSignal(x, Mate(d), code))
                EXCEPT !.objects[d].hands = "none"], d)

-------------------------------------------------------------------------------
(* Endpoints come. *)

Made(x, o, fields) == [x EXCEPT !.objects[o] = fields]
AsVisitor(x, d) == [x EXCEPT !.hosts[Host(d)] = RegisterExitVisitor(@, d)]

NewHand == [NoObject EXCEPT !.life = "live", !.status = "connecting"]
WriteMeta(hand) == [hand EXCEPT !.wb = <<Meta>>, !.meta = TRUE]

\* A connect that fails at once closes and deletes the object, and that is all.
FailAtOnce(x, o) ==
  DeleteSelf([x EXCEPT !.links[Link(o)]["near"].state = "closed"], o)

\* AsynConnect: the connection is under way or fails at once.
AsynConnect(x, o) == {FailAtOnce(x, o), [x EXCEPT !.links[Link(o)] = Connecting]}

RegisterHand(x, d) ==
  IF x.objects[d].status = "connecting" THEN [x EXCEPT !.objects[d].hands = "wait"]
  ELSE HandSignal([x EXCEPT !.objects[d].hands = "ready"], Mate(d), "dst_connected")

\* The local address cannot be bound, or the hand connects with the address to send.
CreateSingleConnection(x) ==
  LET hand == Made(x, "CH", [WriteMeta(NewHand) EXCEPT !.dispatcher = TRUE])
  IN  {DispatcherConnClose(x, "CD", "conn_failed")} \cup
      {IF HasSocket(y, "CH") THEN [y EXCEPT !.objects["CD"].hands = "wait"]
       ELSE DispatcherConnClose(y, "CD", "conn_failed") : y \in AsynConnect(hand, "CH")}

CreateCaller(x) ==
  CreateSingleConnection(
    AsVisitor(Made([x EXCEPT !.links["app"] = Accept(@)], "CD",
                   [NoObject EXCEPT !.life = "live", !.status = "connected"]), "CD"))

CreateCallee(x) ==
  Made([x EXCEPT !.links["relay"] = Accept(@)], "SH", [NewHand EXCEPT !.status = "connected"])

\* CalleeParseMeta: no dispatcher is found in the table, which is for sessions of
\* many paths; one is made and connects to the origin server.
CalleeParseMeta(x) ==
  LET parsed == [x EXCEPT !.objects["SH"].meta = TRUE]
      made == AsVisitor(Made([parsed EXCEPT !.objects["SH"].dispatcher = TRUE], "SD",
                             [NoObject EXCEPT !.life = "live", !.status = "connecting"]), "SD")
      Fail(y) == HandConnClose(SendMetaAck(y, DstFailed), "SH", "dst_failed")
  IN  {Fail(parsed)} \cup
      {IF HasSocket(y, "SD") THEN RegisterHand(y, "SD") ELSE Fail(y) : y \in AsynConnect(made, "SD")}

-------------------------------------------------------------------------------
(* A hand reads all there is, and then an error, the end or nothing. *)

ReadOn(x, h) ==
  LET link == x.links["relay"]
  IN  IF HasSocket(x, h) /\ (ReadFails(link, EndOf(h)) \/ ReadsEnd(link, EndOf(h)))
      THEN HandConnClose(x, h, "conn_disconn") ELSE x

\* CHECK(dispatcher_)
ToDispatcher(x, h, data) ==
  IF x.objects[h].dispatcher THEN Sink(x, Mate(h), data) ELSE End_(x, Host(h))

CallerReads(x, data) ==
  IF x.objects["CH"].ack THEN ToDispatcher(x, "CH", data)
  ELSE LET acked == [x EXCEPT !.objects["CH"].ack = TRUE]
       IN  IF Head(data) = DstFailed THEN HandConnClose(acked, "CH", "dst_failed")
           ELSE IF ~ acked.objects["CH"].dispatcher THEN acked
           ELSE Then(DispatcherSignal(acked, "CD", "dst_connected"), LAMBDA y :
                  IF Tail(data) = <<>> THEN y ELSE Sink(y, "CD", Tail(data)))

CalleeReads(x, data) ==
  IF x.objects["SH"].meta THEN {ToDispatcher(x, "SH", data)}
  ELSE IF Len(data) > 1 THEN {End_(x, "callee")}                      \* CHECK
  ELSE CalleeParseMeta(x)

HandRead(x, h) ==
  LET data == x.links["relay"][EndOf(h)].in
      read == [x EXCEPT !.links["relay"] = Consume(@, EndOf(h), Len(data))]
  IN  IF data = <<>> THEN {ReadOn(x, h)}
      ELSE {IF Gone(y, h) THEN y ELSE ReadOn(y, h) :
              y \in IF h = "CH" THEN {CallerReads(read, data)} ELSE CalleeReads(read, data)}

\* The first EPOLLOUT of the caller's hand: it is connected and sends the address.
HandConnectedUnflushed(x) ==
  IF HasSocket(x, "CH") THEN [x EXCEPT !.objects["CH"].status = "connected"] ELSE x
HandConnected(x) ==
  IF HasSocket(x, "CH") /\ x.objects["CH"].status = "connecting"
  THEN FlushBuffer([x EXCEPT !.objects["CH"].status = "connected"], "CH")
  ELSE x

HandOnEvent(x, h, events) ==
  IF "HUP" \in events
  THEN {HandConnClose(x, h, IF x.objects[h].status = "connecting" THEN "conn_failed" ELSE "conn_disconn")}
  ELSE {IF "OUT" \in events /\ ~ Gone(y, h) THEN HandConnected(y) ELSE y :
          y \in IF "IN" \in events THEN HandRead(x, h) ELSE {x}}

\* The origin server is reached or not; SD is unregistered then.
DispatcherOnEvent(x, events) ==
  IF "HUP" \in events THEN DispatcherConnClose(x, "SD", "dst_failed")
  ELSE IF "OUT" \in events
       THEN [HandSignal(x, "SH", "dst_connected") EXCEPT
               !.objects["SD"].status = "connected", !.objects["SD"].hands = "ready",
               !.objects["SD"].alarm = TRUE]
  ELSE x

\* OutBandwidthAlarm
BandwidthAlarmFlushes(x, h) == FlushBuffer(x, h)
OutBandwidthAlarm(x, h) ==
  Then(FlushBuffer(x, h), LAMBDA y :
    IF ~ Gone(y, h) /\ y.objects[h].waitClose /\ y.objects[h].wb = <<>>
    THEN HandConnClose(y, h, "conn_disconn") ELSE y)

\* GetWriteBudget: nothing may be left of it while data are under way on the relay.
WriteBudgets(x, d) ==
  LET unread == x.links[Link(d)][EndOf(d)].in
      pending == x.links["relay"][Peer(EndOf(Mate(d)))].in
  IN  (IF pending = <<>> THEN 1 ELSE 0) .. Len(unread) + 1

\* HandleSocketAlarm with budget b: CloseAlone and Sink may follow.
HandleSocketAlarm(x, d, b) ==
  LET in == x.links[Link(d)][EndOf(d)].in
      data == SubSeq(in, 1, Min({b, Len(in)}))
      read == [x EXCEPT !.links[Link(d)] = Consume(@, EndOf(d), Len(data))]
      sunk == IF data = <<>> THEN read ELSE HandSink(read, Mate(d), data)
      link == sunk.links[Link(d)]
  IN  IF x.objects[d].hands # "ready" THEN x
      ELSE IF ~ Gone(sunk, d) /\ b > Len(in) /\ (ReadFails(link, EndOf(d)) \/ ReadsEnd(link, EndOf(d)))
           THEN DispatcherConnClose(sunk, d, "conn_disconn")
      ELSE sunk

-------------------------------------------------------------------------------
(* The callbacks of the two hosts. *)

Parties == {"application", "origin"}
LinkOf(p) == IF p = "application" THEN "app" ELSE "org"
PartyEnd(p) == IF p = "application" THEN "near" ELSE "far"
Other(p) == IF p = "application" THEN "origin" ELSE "application"

Init ==
  /\ ox = [ links |-> [app |-> Dialled, relay |-> NoLink, org |-> NoLink],
            objects |-> [o \in Objects |-> NoObject],
            hosts |-> [h \in Hosts |-> NewContext] ]
  /\ parties = [p \in Parties |-> [sent |-> 0, got |-> <<>>]]
  /\ resets = 0

HostDoes(h, y) ==
  /\ InLoop(ox.hosts[h])
  /\ ox' = y
  /\ UNCHANGED <<parties, resets>>

AcceptCaller ==
  /\ ox.links["app"]["far"].state = "queued"
  /\ \E y \in CreateCaller(ox) : HostDoes("caller", y)

AcceptCallee ==
  /\ ox.links["relay"]["far"].state = "queued"
  /\ HostDoes("callee", CreateCallee(ox))

\* EPOLLOUT is asked for until a connection is there.
EventsOf(o) ==
  Reported(ox.links[Link(o)], EndOf(o),
           IF ox.objects[o].status = "connecting" THEN {"IN", "OUT"} ELSE {"IN"})

HandServed(h) ==
  /\ ox.objects[h].life = "live" /\ EventsOf(h) # {}
  /\ \E y \in HandOnEvent(ox, h, EventsOf(h)) : HostDoes(Host(h), y)

DispatcherServed ==
  /\ ox.objects["SD"].life = "live" /\ ox.objects["SD"].status = "connecting"
  /\ EventsOf("SD") # {}
  /\ HostDoes("callee", DispatcherOnEvent(ox, EventsOf("SD")))

\* The alarms of a round come after its events: the one of a hand that an event
\* closed still goes off, its deletion is posted for the next round.
HandAlarm(h) ==
  /\ ox.objects[h].alarm /\ ox.objects[h].life \in {"live", "destroyed"}
  /\ HostDoes(Host(h), OutBandwidthAlarm(ox, h))

DispatcherAlarm(d) ==
  /\ ox.objects[d].alarm /\ ox.objects[d].life = "live"
  /\ LET flushed == FlushBuffer(ox, d)
     IN  \E b \in WriteBudgets(flushed, d) : HostDoes(Host(d), HandleSocketAlarm(flushed, d, b))

RunTasks(h) ==
  /\ ox.hosts[h].tasks # <<>>
  /\ HostDoes(h, [ox EXCEPT
       !.objects = [o \in Objects |->
                      IF o \in TasksOf(ox.hosts[h]) THEN [@[o] EXCEPT !.life = "deleted"] ELSE @[o]],
       !.hosts[h] = ExecuteTask(@)])

SignalHost(h) == ox.hosts[h].running /\ HostDoes(h, [ox EXCEPT !.hosts[h] = Stop(@)])
HostExits(h) == LoopEnds(ox.hosts[h]) /\ HostDoes(h, End_(ox, h))

-------------------------------------------------------------------------------
(* The application, the origin server and the network. *)

PartyDoes(p, link, party) ==
  /\ ox' = [ox EXCEPT !.links[LinkOf(p)] = link]
  /\ parties' = [parties EXCEPT ![p] = party]
  /\ UNCHANGED resets

AcceptOrigin ==
  /\ ox.links["org"]["far"].state = "queued"
  /\ PartyDoes("origin", Accept(ox.links["org"]), parties["origin"])

PartySends(p) ==
  LET link == ox.links[LinkOf(p)]
      next == parties[p].sent + 1
  IN  /\ link[PartyEnd(p)].state = "open" /\ ~ link[PartyEnd(p)].reset
      /\ next <= (IF p = "application" THEN Up ELSE Down)
      /\ RoomFor(link, PartyEnd(p)) > 0
      /\ PartyDoes(p, Send(link, PartyEnd(p), <<next>>), [parties[p] EXCEPT !.sent = next])

PartyReads(p) ==
  LET link == ox.links[LinkOf(p)]
      end == link[PartyEnd(p)]
  IN  /\ HasFd(link, PartyEnd(p))
      /\ IF end.in # <<>>
         THEN PartyDoes(p, Consume(link, PartyEnd(p), Len(end.in)), [parties[p] EXCEPT !.got = @ \o end.in])
         ELSE end.eof /\ PartyDoes(p, Close(link, PartyEnd(p)), parties[p])

PartyCloses(p) ==
  LET link == ox.links[LinkOf(p)]
  IN  HasFd(link, PartyEnd(p)) /\ PartyDoes(p, Close(link, PartyEnd(p)), parties[p])

Listens(l) == l = "relay" => ~ ox.hosts["callee"].gone
Established(l) ==
  /\ UnderWay(ox.links[l]) /\ Listens(l)
  /\ ox' = [ox EXCEPT !.links[l] = Establish(@)] /\ UNCHANGED <<parties, resets>>
Refused(l) ==
  /\ UnderWay(ox.links[l])
  /\ ox' = [ox EXCEPT !.links[l] = Refuse(@)] /\ UNCHANGED <<parties, resets>>
Breaks(l) ==
  /\ resets < Resets /\ Carries(ox.links[l]) /\ ~ ox.links[l]["near"].reset
  /\ resets' = resets + 1
  /\ ox' = [ox EXCEPT !.links[l] = Break(@)] /\ UNCHANGED parties

\* One loop per host: it accepts, serves reports and alarms, runs tasks, and ends once
\* told to.
HostServes(host) ==
  \/ host = "caller" /\ AcceptCaller
  \/ host = "callee" /\ (AcceptCallee \/ DispatcherServed)
  \/ \E h \in ObjectsOf(host) \cap Hands : HandServed(h) \/ HandAlarm(h)
  \/ \E d \in ObjectsOf(host) \cap Dispatchers : DispatcherAlarm(d)
  \/ RunTasks(host) \/ HostExits(host)

PartiesRead == AcceptOrigin \/ \E p \in Parties : PartyReads(p)
NetworkAnswers == \E l \in LinkNames : Established(l) \/ Refused(l)
Progress == (\E h \in Hosts : HostServes(h)) \/ PartiesRead \/ NetworkAnswers

Next ==
  \/ Progress
  \/ \E h \in Hosts : SignalHost(h)
  \/ \E p \in Parties : PartySends(p) \/ PartyCloses(p)
  \/ \E l \in LinkNames : Breaks(l)

\* The loops go on while there is anything to serve, the application and the origin
\* server go on reading, and an attempt to connect ends one way or the other.  No part
\* can change the state for ever, so that it is enough to ask for some part to move.
Fairness == WF_vars(Progress)

Spec == Init /\ [][Next]_vars /\ Fairness

-------------------------------------------------------------------------------
(* Properties. *)

\* Type invariant.
TypeOK ==
  /\ ox.links \in [LinkNames -> [Ends -> End]]
  /\ ox.objects \in [Objects -> Object]
  /\ ox.hosts \in [Hosts -> Context(Objects)]
  /\ parties \in [Parties -> [sent : Nat, got : Seq(Int)]]
  /\ resets \in 0 .. Resets

Live(o) == ox.objects[o].life = "live"

\* A hand that points to a dispatcher points to a live one that holds it; a dispatcher
\* that is served reaches only a live hand that points back; live objects have their
\* sockets; the deletion of an object is posted once; and an object whose host lives
\* is told to close before it loses its mate.
HandsAgree ==
  /\ TypeOK
  /\ \A h \in Hands :
       Live(h) /\ ox.objects[h].dispatcher => Live(Mate(h)) /\ ox.objects[Mate(h)].hands # "none"
  /\ \A d \in Dispatchers :
       ox.objects[d].alarm /\ Live(d) /\ ox.objects[d].hands # "none" =>
         Live(Mate(d)) /\ ox.objects[Mate(d)].dispatcher
  /\ \A o \in Objects :
       /\ Live(o) <=> HasSocket(ox, o)
       /\ ox.objects[o].life = "destroyed" <=> o \in TasksOf(ox.hosts[Host(o)])
  /\ \A d \in Dispatchers : Live(d) => d \in ox.hosts[Host(d)].visitors

Units(n) == [i \in 1 .. n |-> i]
DataIn(queue) == IF queue # <<>> /\ Head(queue) <= 0 THEN Tail(queue) ELSE queue
Whole(l) == \A e \in Ends : ox.links[l][e].state # "closed" /\ ~ ox.links[l][e].reset

\* What each party receives is what the other sent, in order; while no connection
\* ends nothing is missing: the rest is in a buffer or on a link, in order, and on the
\* relay the address or its answer is ahead of it at most.
StreamPreserved ==
  LET in(l, e) == ox.links[l][e].in
      wb(o) == ox.objects[o].wb
      up == in("org", "far") \o wb("SD") \o DataIn(in("relay", "far")) \o DataIn(wb("CH")) \o in("app", "far")
      down == in("app", "near") \o wb("CD") \o DataIn(in("relay", "near")) \o wb("SH") \o in("org", "near")
      way(p) == IF p = "application" THEN up ELSE down
  IN  \A p \in Parties :
        /\ IsPrefix(parties[Other(p)].got, Units(parties[p].sent))
        /\ (\A l \in LinkNames : Whole(l)) =>
              parties[Other(p)].got \o way(p) = Units(parties[p].sent)

\* Whatever is under way between the parties arrives, or a connection of the session
\* ends.
Behind(p) == parties[p].sent > Len(parties[Other(p)].got)
DataFlows ==
  (\E p \in Parties : Behind(p)) ~>
    ((\A p \in Parties : ~ Behind(p)) \/ \E l \in LinkNames : ~ Whole(l))

Ended(o) == ox.objects[o].life \in {"none", "deleted"}

\* When one object of a session ends, for whatever reason, both hands end, and so do
\* the dispatchers, except one that waits to be flushed and that of a session whose
\* origin server could not be reached: these two cases the code leaves open.
LeftOpen(d) ==
  \/ ox.objects[d].waitClose
  \/ d = "CD" /\ ox.objects[d].hands = "wait"
SessionEnds ==
  (\E o \in Objects : ox.objects[o].life \in {"destroyed", "deleted"}) ~>
    /\ \A h \in Hands : Ended(h)
    /\ \A d \in Dispatchers : Ended(d) \/ LeftOpen(d)
=============================================================================
