------------------------------ MODULE TpProxy -------------------------------
(***************************************************************************)
(* The transparent proxy of src/tpproxy/tpproxy_server: for each client    *)
(* that is intercepted a TpProxyLeft, on the client's socket, and its peer *)
(* TpProxyRight, which connects to the original destination.  Each reads   *)
(* from its socket into the write buffer of the other.                     *)
(*                                                                         *)
(* px holds both objects, their sockets and the location of a failed CHECK.*)
(* What a method does to its own object is an operator on that object, and *)
(* what calls the peer an operator on px; the callbacks of the event loop, *)
(* the alarms and the deferred deletion are the actions.  Bandwidth        *)
(* estimation is left out: a read budget lets a read loop end after any    *)
(* chunk, the write budget is counted in units and grows by Quota at each  *)
(* alarm.                                                                  *)
(***************************************************************************)
EXTENDS Sockets, Integers, SequencesExt

CONSTANTS
  ChunkSize,     \* kBufferSize
  Threshold,     \* kWriteBufferThreshold
  Quota,         \* what the write budget gains in kWriteBudgetInterval
  MaxBudget,     \* max_bytes_in_budget_
  DataLeft,      \* units the client may send
  DataRight      \* units the origin server may send

ASSUME ProxyAssumption ==
  /\ ChunkSize \in Nat \ {0} /\ Threshold \in Nat \ {0}
  /\ Quota \in Nat \ {0} /\ MaxBudget \in Nat /\ Quota <= MaxBudget
  /\ DataLeft \in Nat /\ DataRight \in Nat

Sides == {"left", "right"}
Other(s) == IF s = "left" THEN "right" ELSE "left"
Data(s) == IF s = "left" THEN DataLeft ELSE DataRight

VARIABLES
  px,        \* the two objects: [left, right, fault]
  consumed   \* history: units read from each socket

vars == <<px, consumed>>

\* life: "none", "live", "destroyed" (destroyed_, deletion posted), "deleted";
\* closing: signal_ is TPPROXY_CLOSE; peer: peer_ is not null.
Proxy ==
  [ life : {"none", "live", "destroyed", "deleted"},
    status : {"disconnect", "connecting", "connected"},
    peer : BOOLEAN, closing : BOOLEAN, buffer : Seq(Nat),
    readAlarm : BOOLEAN, writeAlarm : BOOLEAN, budget : -MaxBudget .. MaxBudget,
    fd : Socket ]

NoProxy ==
  [ life |-> "none", status |-> "disconnect", peer |-> FALSE, closing |-> FALSE,
    buffer |-> <<>>, readAlarm |-> FALSE, writeAlarm |-> FALSE, budget |-> 0,
    fd |-> NoSocket ]

NewProxy(socket) == [NoProxy EXCEPT !.life = "live", !.fd = socket]

-------------------------------------------------------------------------------
(* What one object does on its own: operators from the object to its next value. *)

ModifyCallback(x, mask) ==
  IF x.fd.open THEN [x EXCEPT !.fd = Arm(@, mask)] ELSE x

DeleteSelf(x) == IF x.life = "live" THEN [x EXCEPT !.life = "destroyed"] ELSE x

\* CloseFd of an object that has no peer.
CloseAlone(x) ==
  DeleteSelf(IF x.fd.open
             THEN [x EXCEPT !.fd = CloseSocket(@), !.status = "disconnect", !.peer = FALSE]
             ELSE [x EXCEPT !.peer = FALSE])

\* Notify(TPPROXY_CLOSE), with its CheckCloseFd.
NotifyCloseAtOnce(x) == CloseAlone([x EXCEPT !.closing = TRUE])
NotifyClose(x) ==
  IF x.buffer = <<>> THEN CloseAlone([x EXCEPT !.closing = TRUE])
  ELSE [x EXCEPT !.peer = FALSE, !.closing = TRUE]

\* IncreaseBudget: what was not used is lost, what was overused is made up for.
IncreaseBudget(b) ==
  IF b < 0 THEN Min({b + Quota, MaxBudget}) ELSE Quota

\* FlushBuffer sends chunks while the budget is positive and the socket takes
\* them; the last one may overuse the budget.
Flushable(x) ==
  LET chunks == IF x.budget > 0 THEN (x.budget + ChunkSize - 1) \div ChunkSize ELSE 0
  IN  Min({Len(x.buffer), chunks * ChunkSize})

FlushBuffer(x) ==
  LET intended == SubSeq(x.buffer, 1, Flushable(x))
      n == Taken(x.fd, Len(intended))
  IN  IF ~ x.fd.open \/ intended = <<>> THEN x
      ELSE [x EXCEPT !.fd = Send(@, intended),
                     !.buffer = SubSeq(@, n + 1, Len(@)),
                     !.budget = Max({@ - n, -MaxBudget})]

FlushAndArm(x) ==
  LET flushed == FlushBuffer(x)
  IN  ModifyCallback(flushed, IF flushed.buffer # <<>> THEN {"OUT"} ELSE {})

CreateWriteAlarm(x) ==
  IF x.writeAlarm THEN x
  ELSE [x EXCEPT !.writeAlarm = TRUE, !.budget = IncreaseBudget(@)]

AppendToBuffer(x, data) == [x EXCEPT !.buffer = @ \o data]

\* Only when nothing waits in the buffer.
SendNow(x, data) ==
  LET n == Taken(x.fd, Len(data))
      sent == [x EXCEPT !.fd = Send(@, data), !.buffer = SubSeq(data, n + 1, Len(data))]
  IN  IF n = Len(data) THEN sent ELSE ModifyCallback(sent, {"IN", "OUT"})

SendDataPastBuffer(x, data) ==
  LET flushed == FlushBuffer(CreateWriteAlarm(x))
      n == Taken(flushed.fd, Len(data))
  IN  IF ~ x.fd.open THEN x
      ELSE [flushed EXCEPT !.fd = Send(@, data), !.buffer = @ \o SubSeq(data, n + 1, Len(data))]
SendData(x, data) ==
  LET flushed == FlushBuffer(CreateWriteAlarm(x))
  IN  IF ~ x.fd.open THEN x
      ELSE IF x.status # "connected" THEN AppendToBuffer(CreateWriteAlarm(x), data)
      ELSE IF flushed.buffer # <<>> THEN AppendToBuffer(flushed, data)
      ELSE SendNow(flushed, data)

IsBufferAboveThreshold(x) == Len(x.buffer) >= Threshold

CreateReadAlarm(x) == [x EXCEPT !.readAlarm = TRUE]

-------------------------------------------------------------------------------
(* What an object does to itself and to its peer. *)

\* One call after another: Call at the result p of the calls before it, which is
\* evaluated once.
Then(p, Call(_)) == CHOOSE q \in {Call(r) : r \in {p}} : TRUE

Check(p, condition, place) ==
  IF condition \/ p.fault # "none" THEN p ELSE [p EXCEPT !.fault = place]

IsOpen(p, s) == p[s].fd.open

CloseFdQuietly(p, s) == [p EXCEPT ![s] = CloseAlone(@)]
CloseFd(p, s) ==
  LET closed == [p EXCEPT ![s] = CloseAlone(@)]
  IN  IF p[s].peer THEN [closed EXCEPT ![Other(s)] = NotifyClose(@)] ELSE closed

CheckCloseFd(p, s) ==
  IF p[s].closing /\ p[s].buffer = <<>> THEN CloseFd(p, s) ELSE p

\* FlushBuffer checks that nothing is left to be sent on a closed socket.
OnWriteEventWithoutRearming(p, s) ==
  Then([p EXCEPT ![s] = FlushBuffer(@)], LAMBDA q : CheckCloseFd(q, s))
OnWriteEvent(p, s) ==
  Then(Check([p EXCEPT ![s] = FlushAndArm(@)], IsOpen(p, s) \/ p[s].buffer = <<>>, "FlushBuffer"),
       LAMBDA q : CheckCloseFd(q, s))

\* A read returns at most a chunk: what the first n of them return, and how many
\* it takes to return everything.
ReadBy(n, unread) == Min({n * ChunkSize, Len(unread)})
Chunk(n, unread) == SubSeq(unread, ReadBy(n - 1, unread) + 1, ReadBy(n, unread))
ReadsOf(unread) == (Len(unread) + ChunkSize - 1) \div ChunkSize

\* n rounds of the loop of OnReadEvent, each of which passes a chunk on to the peer.
PassedOn(x, n, unread) ==
  LET after[i \in 0 .. n] ==
        IF i = 0 THEN x ELSE Then(after[i - 1], LAMBDA y : SendData(y, Chunk(i, unread)))
  IN  after[n]

ReadChunks(p, s, n) ==
  LET read == [p EXCEPT ![s].fd.unread = SubSeq(@, ReadBy(n, @) + 1, Len(@))]
  IN  IF n > 0 /\ ~ p[s].peer THEN Check(p, FALSE, "OnReadEvent")
      ELSE [read EXCEPT ![Other(s)] = PassedOn(@, n, p[s].fd.unread)]

\* The results of OnReadEvent: the budget ends the loop after some chunk, or it
\* runs to the end of what can be read, where an end of file closes the socket.
ReadToEnd(p, s) ==
  Then(ReadChunks(p, s, ReadsOf(p[s].fd.unread)),
       LAMBDA q : IF ReadsEnd(q[s].fd) THEN CloseFd(q, s)
                  ELSE [q EXCEPT ![s].fd = ReadsError(@)])

OnReadEvent(p, s) ==
  IF ~ IsOpen(p, s) THEN {p}
  ELSE {ReadToEnd(p, s)} \cup {ReadChunks(p, s, n) : n \in 1 .. ReadsOf(p[s].fd.unread)}

-------------------------------------------------------------------------------
(* The callbacks. *)

Init ==
  /\ px = [left |-> NoProxy, right |-> NoProxy, fault |-> "none"]
  /\ consumed = [s \in Sides |-> 0]

\* What a callback read is recorded by the socket's loss of unread units.
Becomes(q) ==
  /\ px.fault = "none"
  /\ px' = q
  /\ consumed' = [s \in Sides |-> consumed[s] + Len(px[s].fd.unread) - Len(q[s].fd.unread)]

\* TpProxyRight::AsynConnect: the connection is under way, or an option, bind or connect
\* fails and the socket is closed.
AsynConnect(p) ==
  { [p EXCEPT !.right.status = "connecting", !.right.fd = Arm(@, {"IN", "OUT"})],
    CloseFd(p, "right") }

\* The constructor of TpProxyLeft, called with the accepted socket.  It finds no
\* original destination, or AsynConnect succeeds or fails.
TpProxyLeft ==
  LET left == [px EXCEPT !.left = NewProxy(Arm(AcceptedSocket, {"OUT"}))]
      both == [left EXCEPT !.left.peer = TRUE, !.right = NewProxy(ConnectingSocket)]
  IN  /\ px.left.life = "none"
      /\ \/ Becomes(CloseFd(left, "left"))
         \/ \E p \in AsynConnect(both) :
              Becomes(IF IsOpen(p, "right")
                      THEN [p EXCEPT !.right.peer = TRUE, !.left.status = "connected"]
                      ELSE CloseFd(p, "left"))

Called(s) == [px EXCEPT ![s].fd.edge = FALSE]
HasEvent(s) == IsOpen(px, s) /\ px[s].fd.edge /\ Reported(px[s].fd) # {}

LeftOnEvent ==
  LET events == Reported(px.left.fd)
  IN  /\ HasEvent("left")
      /\ \E p \in IF "IN" \in events THEN OnReadEvent(Called("left"), "left")
                                     ELSE {Called("left")} :
           Becomes(IF "OUT" \in events THEN OnWriteEvent(p, "left") ELSE p)

Connected(p) ==
  LET right == CreateReadAlarm(ModifyCallback([p.right EXCEPT !.status = "connected"], {"OUT"}))
  IN  [p EXCEPT !.right = right,
                !.left = IF p.right.peer THEN CreateReadAlarm(@) ELSE @]

RightOnOut(p) ==
  Then(IF p.right.status = "connecting" THEN Connected(p) ELSE p,
       LAMBDA q : OnWriteEvent(q, "right"))

RightOnEvent ==
  LET events == Reported(px.right.fd)
  IN  /\ HasEvent("right")
      /\ \E p \in {IF events \cap {"RDHUP", "HUP"} # {} THEN CloseFd(Called("right"), "right")
                   ELSE Called("right")} :
           \E q \in IF "IN" \in events THEN OnReadEvent(p, "right") ELSE {p} :
             Becomes(IF "OUT" \in events THEN RightOnOut(q) ELSE q)

HasAlarm(s) == px[s].life \in {"live", "destroyed"}

OnReadBudgetAlarm(s) ==
  LET bufferFull == px[s].peer /\ IsBufferAboveThreshold(px[Other(s)])
      reads == IsOpen(px, s) /\ ~ bufferFull /\ px[s].status = "connected"
  IN  /\ HasAlarm(s) /\ px[s].readAlarm
      /\ \E p \in IF reads THEN OnReadEvent(px, s) ELSE {px} : Becomes(CheckCloseFd(p, s))

OnWriteBudgetAlarm(s) ==
  /\ HasAlarm(s) /\ px[s].writeAlarm
  /\ Becomes([px EXCEPT ![s].budget = IncreaseBudget(@)])

\* The posted task: delete this.
Delete(s) ==
  /\ px[s].life = "destroyed"
  /\ Becomes([px EXCEPT ![s].life = "deleted", ![s].readAlarm = FALSE, ![s].writeAlarm = FALSE])

Callback ==
  \/ TpProxyLeft \/ LeftOnEvent \/ RightOnEvent
  \/ \E s \in Sides : OnReadBudgetAlarm(s) \/ OnWriteBudgetAlarm(s) \/ Delete(s)

-------------------------------------------------------------------------------
(* The client, the origin server and the network. *)

NetworkDoes(s, socket) ==
  /\ px.fault = "none"
  /\ px' = [px EXCEPT ![s].fd = socket]
  /\ UNCHANGED consumed

RemoteSends(s) ==
  LET next == consumed[s] + Len(px[s].fd.unread) + 1
  IN  /\ Listening(px[s].fd) /\ ~ px[s].fd.eof /\ next <= Data(s)
      /\ NetworkDoes(s, Arrive(px[s].fd, next))

RemoteFinishes(s) ==
  Listening(px[s].fd) /\ ~ px[s].fd.eof /\ NetworkDoes(s, Finish(px[s].fd))

\* The remote host resets the connection, or it cannot be established.
RemoteResets(s) ==
  IsOpen(px, s) /\ ~ px[s].fd.dead /\ NetworkDoes(s, Reset(px[s].fd))

RemoteReceives(s) ==
  /\ Listening(px[s].fd)
  /\ \E room \in (px[s].fd.room + 1) .. SendRoom : NetworkDoes(s, Drain(px[s].fd, room))

Established ==
  px.right.fd.open /\ px.right.fd.connecting /\ NetworkDoes("right", Establish(px.right.fd))

ConnectEnds == px.right.fd.connecting /\ (Established \/ RemoteResets("right"))

Network ==
  \/ Established
  \/ \E s \in Sides : RemoteSends(s) \/ RemoteFinishes(s) \/ RemoteResets(s) \/ RemoteReceives(s)

Next == Callback \/ Network

\* The event loop runs every callback, alarms are set again at each alarm, a
\* connection attempt ends, and the remote hosts go on reading.
Fairness ==
  /\ WF_vars(LeftOnEvent) /\ WF_vars(RightOnEvent) /\ WF_vars(ConnectEnds)
  /\ \A s \in Sides :
       /\ WF_vars(OnReadBudgetAlarm(s)) /\ WF_vars(OnWriteBudgetAlarm(s)) /\ WF_vars(Delete(s))
       /\ WF_vars(RemoteReceives(s))

Spec == Init /\ [][Next]_vars
FairSpec == Spec /\ Fairness

-------------------------------------------------------------------------------
(* Properties. *)

\* Type invariant.
TypeOK ==
  /\ px.left \in Proxy /\ px.right \in Proxy
  /\ px.fault \in {"none", "FlushBuffer", "OnReadEvent"}
  /\ consumed \in [Sides -> Nat]

Units(n) == [i \in 1 .. n |-> i]

\* The byte stream survives buffering, partial sends and pacing: what was handed
\* to a socket and what waits in its buffer are, in order, what was read from the
\* other; what a closed socket was handed is a prefix of it.
StreamPreserved ==
  \A s \in Sides :
    LET sent == px[s].fd.sent
        read == Units(consumed[Other(s)])
    IN  px.fault = "none" =>
          IF IsOpen(px, s) THEN sent \o px[s].buffer = read ELSE IsPrefix(sent, read)

\* peer_ never dangles: it points to an object that is not going to be deleted
\* and that points back, and a socket is registered exactly while its object lives.
PeersAlive ==
  \A s \in Sides :
    /\ px[s].peer => px[Other(s)].life = "live" /\ px[Other(s)].peer
    /\ px[s].life = "live" <=> IsOpen(px, s)

\* Edge-triggered epoll reports each edge once: while data wait to be written,
\* either another report is due or the socket is full and will report.
WriteIsArmed ==
  \A s \in Sides :
    (IsOpen(px, s) /\ px[s].buffer # <<>> /\ ~ px[s].fd.dead /\ px.fault = "none")
      => "OUT" \in px[s].fd.mask /\ (px[s].fd.edge \/ px[s].fd.room = 0)

\* Both objects are well formed, point to each other or to nothing, and have armed
\* whatever their unsent data wait for.
ProxySound == TypeOK /\ PeersAlive /\ WriteIsArmed

\* When its peer is gone a proxy closes only after it sent everything the peer
\* read, unless its own remote host has finished or reset the connection.
ClosesAfterFlush ==
  [][\A s \in Sides :
       (IsOpen(px, s) /\ ~ IsOpen(px, s)' /\ ~ px[s].fd.eof)
         => px'[s].fd.sent = Units(consumed'[Other(s)])]_vars

\* Data that arrive are passed on, whatever the budgets and the threshold hold back.
Waiting(s) == px[s].fd.unread # <<>> \/ px[Other(s)].buffer # <<>>
DataFlow ==
  \A s \in Sides :
    (Waiting(s) /\ px[s].status = "connected")
      ~> (~ Waiting(s) \/ ~ IsOpen(px, s) \/ ~ IsOpen(px, Other(s)) \/ px.fault # "none")

\* When one proxy closes, the other closes too, and both are deleted.
BothAreDeleted ==
  (\E s \in Sides : px[s].life \in {"destroyed", "deleted"})
    ~> ((\A s \in Sides : px[s].life \in {"none", "deleted"}) \/ px.fault # "none")

\* A proxied connection gets on: what arrives is passed on while both sides are open,
\* and once one of them is gone nothing of the session stays.
SessionCompletes == DataFlow /\ BothAreDeleted

\* CHECK(0) of OnReadEvent: data are only ever read while there is a peer for them.
NoDataWithoutPeer == px.fault # "OnReadEvent"
=============================================================================
