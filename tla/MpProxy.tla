------------------------------ MODULE MpProxy ------------------------------
(***************************************************************************)
(* One session of the multipath proxy of src/tpproxy/mpproxy_*: on the     *)
(* host "client" a TpServerLeft, on the socket of the intercepted client,  *)
(* and a TcpConnectionRight for each path; on the host "server" a          *)
(* TcpConnectionLeft for each path, and a TpServerRight with its           *)
(* connection to the origin server.  Each server cuts what it reads into   *)
(* frames, which it spreads over the paths, and puts the frames it         *)
(* receives in order again.                                                *)
(*                                                                         *)
(* mp holds all objects, the paths between the hosts and the place of a    *)
(* failed CHECK, after which nothing happens.  Methods are operators from  *)
(* mp to its next value; the callbacks of the two event loops are the      *)
(* actions.  Units of data are numbered, for each direction, from          *)
(* kReserveOffset on.  QuicStreamSequencer is taken as StreamSequencer     *)
(* shows it: it hands on each unit once, in order, as soon as it can.      *)
(*                                                                         *)
(* A TpServerLeft is never registered with its event loop, so that its     *)
(* socket has no events and stays blocking: read and send of it stop the   *)
(* whole thread of the client host.                                        *)
(***************************************************************************)
EXTENDS Naturals, Sequences, SequencesExt, FiniteSets, FiniteSetsExt, Functions

CONSTANTS
  Paths,         \* the address pairs of a client
  LinkRoom,      \* frames a path takes: the socket buffers, and the budget
  AppRoom,       \* units the sockets of client and origin server take
  Threshold,     \* kWriteBufferThreshold, in frames
  DataLeft,      \* units the client may send
  DataRight,     \* units an origin server may send
  DataAll        \* units all of them may send

ASSUME MpProxyAssumption ==
  /\ IsFiniteSet(Paths) /\ "left" \notin Paths /\ "none" \notin Paths
  /\ LinkRoom \in Nat \ {0} /\ AppRoom \in Nat \ {0} /\ Threshold \in Nat
  /\ DataLeft \in Nat /\ DataRight \in Nat /\ DataAll \in Nat

VARIABLE mp

Hosts == {"client", "server"}
Far(h) == IF h = "client" THEN "server" ELSE "client"

\* A TpServerRight is named by the path whose META frame made it.
Servers == {"left"} \cup Paths
Data(s) == IF s = "left" THEN DataLeft ELSE DataRight

IoStatus == {"FD_CLOSED", "FD_WAIT_CLOSE", "ENTITY_CLOSED", "ENTITY_WAIT_CLOSE"}
FdWaitCloseIfEntityClosed == {"FD_WAIT_CLOSE", "ENTITY_CLOSED"}
EntityWaitCloseIfFdClosed == {"ENTITY_WAIT_CLOSE", "FD_CLOSED"}

\* Messages have offset 0, data the units from first to last.
Frame == [type : {"META", "ORIGIN_CONNECTED", "DATA"},
          first : 0 .. DataLeft + DataRight, last : 0 .. DataLeft + DataRight]
Message(type) == [type |-> type, first |-> 0, last |-> 0]
Units(frames) == UNION {{n \in f.first .. f.last : n > 0} : f \in frames}

\* io is io_status_, out fd_write_buffer_; part: fd_read_buffer_ has a part of the
\* frame that comes next; met: origin_connected_ or dst_connect_msg_sent.
Connection ==
  [ life : {"none", "live", "deleted"}, open : BOOLEAN, connected : BOOLEAN,
    io : SUBSET IoStatus, out : Seq(Frame), part : BOOLEAN,
    server : Servers \cup {"none"}, met : BOOLEAN ]

NoConnection ==
  [ life |-> "none", open |-> FALSE, connected |-> FALSE, io |-> {}, out |-> <<>>,
    part |-> FALSE, server |-> "none", met |-> FALSE ]

\* unread, eof, pending and reachable belong to the socket: what can be read, whether
\* the remote host has finished, what it has still to take, how far connect came.
\* said counts what the remote host ever sent, whether it was read or not.
\* in and out are the numbers of units in fd_read_buffer_ and fd_write_buffer_.
Server ==
  [ life : {"none", "live", "destroyed", "deleted"}, open : BOOLEAN, connected : BOOLEAN,
    io : SUBSET IoStatus, in : Nat, out : Nat, next : Nat \ {0}, received : SUBSET Nat,
    ready : Seq(Paths), wait : SUBSET Paths, alarm : BOOLEAN, reading : BOOLEAN,
    unread : Nat, said : Nat, eof : BOOLEAN, pending : Nat, sent : Nat,
    reachable : {"no", "connecting", "yes", "refused"} ]

NoServer ==
  [ life |-> "none", open |-> FALSE, connected |-> FALSE, io |-> {}, in |-> 0, out |-> 0,
    next |-> 1, received |-> {}, ready |-> <<>>, wait |-> {}, alarm |-> FALSE,
    reading |-> FALSE, unread |-> 0, said |-> 0, eof |-> FALSE, pending |-> 0, sent |-> 0,
    reachable |-> "no" ]

\* in[h] is what is on its way to host h.  A reset path may lose the end of it.
Link == [ state : {"none", "connecting", "up", "reset"}, in : [Hosts -> Seq(Frame)] ]
NoLink == [ state |-> "none", in |-> [h \in Hosts |-> <<>>] ]

Check(m, condition, place) ==
  IF condition \/ m.fault # "none" THEN m ELSE [m EXCEPT !.fault = place]

\* One call after another: Call at the result m of the calls before it, which is
\* evaluated once.
Then(m, Call(_)) == CHOOSE q \in {Call(r) : r \in {m}} : TRUE
ThenEach(results, Call(_)) == {Call(m) : m \in results}

-------------------------------------------------------------------------------
(* TpServerBase: the socket to the client or to the origin server. *)

DeleteServerButKeepSession(m, s) ==
  IF m.srv[s].life # "live" THEN m ELSE [m EXCEPT !.srv[s].life = "destroyed"]

\* The table of sessions, which has one entry at most here.
RegsiterSink(m, s) == Check([m EXCEPT !.table = s], m.table = "none", "RegsiterSink")
UnRegsiterSink(m) == Check([m EXCEPT !.table = "none"], m.table # "none", "UnRegsiterSink")

\* A TpServerRight is taken out of the table.
DeleteServer(m, s) ==
  IF m.srv[s].life # "live" THEN m
  ELSE LET destroyed == [m EXCEPT !.srv[s].life = "destroyed"]
       IN  IF s = "left" THEN destroyed ELSE UnRegsiterSink(destroyed)

CheckToDeleteServer(m, s) ==
  IF {"FD_CLOSED", "ENTITY_CLOSED"} \subseteq m.srv[s].io THEN DeleteServer(m, s) ELSE m

CloseServerFd(m, s) ==
  CheckToDeleteServer(
    IF ~ m.srv[s].open THEN m
    ELSE [m EXCEPT !.srv[s].io = @ \cup EntityWaitCloseIfFdClosed,
                   !.srv[s].open = FALSE, !.srv[s].unread = 0], s)

CheckCloseServerFdAtOnce(m, s) ==
  IF "FD_WAIT_CLOSE" \in m.srv[s].io THEN CloseServerFd(m, s) ELSE m
CheckCloseServerFd(m, s) ==
  IF "FD_WAIT_CLOSE" \in m.srv[s].io /\ m.srv[s].out = 0 THEN CloseServerFd(m, s) ELSE m

\* send takes what there is room for; the blocking socket of a TpServerLeft takes
\* all, and the thread goes on when there is room for it (see Blocked).
Taken(k, n) ==
  IF k.reachable # "yes" THEN 0 ELSE Min({n, AppRoom - k.pending})

SendToSocket(m, s, n) ==
  LET taken == IF s = "left" THEN n ELSE Taken(m.srv[s], n)
  IN  [m EXCEPT !.srv[s].sent = @ + taken, !.srv[s].pending = @ + taken,
                !.srv[s].out = @ - taken]

FlushServer(m, s) ==
  IF m.srv[s].open THEN SendToSocket(m, s, m.srv[s].out) ELSE m

WriteDataToFd(m, s, n) ==
  IF ~ m.srv[s].open THEN m
  ELSE Then(FlushServer(m, s),
            LAMBDA q : LET written == [q EXCEPT !.srv[s].out = @ + n]
                       IN  IF q.srv[s].out > 0 THEN written ELSE SendToSocket(written, s, n))

\* RecvData: the sequencer makes the units readable that have no gap before them.
Readable(units) == CHOOSE n \in 0 .. Cardinality(units) :
                     1 .. n \subseteq units /\ n + 1 \notin units

RecvData(m, s, frame) ==
  LET received == m.srv[s].received \cup (frame.first .. frame.last)
      new == Readable(received) - Readable(m.srv[s].received)
      stored == [m EXCEPT !.srv[s].received = received]
  IN  IF new > 0 THEN WriteDataToFd(stored, s, new) ELSE stored

-------------------------------------------------------------------------------
(* TcpConnectionBase: one end of a path, on host h. *)

CheckToDelete(m, h, p) ==
  IF {"FD_CLOSED", "ENTITY_CLOSED"} \subseteq m.conn[h][p].io
  THEN [m EXCEPT !.conn[h][p] = [NoConnection EXCEPT !.life = "deleted"]]
  ELSE m

\* A socket that is closed with unread data resets the connection.
ClosePathEnd(m, h, p) ==
  LET link == m.link[p]
      gone == ~ m.conn[Far(h)][p].open
  IN  [m EXCEPT !.conn[h][p].open = FALSE,
                !.link[p].state = IF link.in[h] # <<>> THEN "reset" ELSE @,
                !.link[p].in = IF gone THEN NoLink.in ELSE [@ EXCEPT ![h] = <<>>]]

CloseFd(m, h, p) ==
  CheckToDelete(
    IF ~ m.conn[h][p].open THEN m
    ELSE [ClosePathEnd(m, h, p) EXCEPT !.conn[h][p].io = @ \cup EntityWaitCloseIfFdClosed], h, p)

CheckCloseFd(m, h, p) ==
  IF "FD_WAIT_CLOSE" \in m.conn[h][p].io /\ m.conn[h][p].out = <<>>
  THEN CloseFd(m, h, p) ELSE m

\* Notify(PROXY_CLOSE) from the server.
NotifyClose(m, h, p) ==
  CheckCloseFd([m EXCEPT !.conn[h][p].io = @ \cup FdWaitCloseIfEntityClosed,
                         !.conn[h][p].server = "none"], h, p)

FlushBufferWhole(m, h, p) ==
  IF ~ m.conn[h][p].open \/ m.link[p].state # "up" THEN m
  ELSE [m EXCEPT !.conn[h][p].out = <<>>, !.link[p].in[Far(h)] = @ \o m.conn[h][p].out]

FlushBufferForgettingRest(m, h, p) ==
  LET n == Min({Len(m.conn[h][p].out), LinkRoom - Len(m.link[p].in[Far(h)])})
  IN  IF ~ m.conn[h][p].open \/ m.link[p].state # "up" \/ n = 0 THEN m
      ELSE [m EXCEPT !.conn[h][p].out = <<>>,
                     !.link[p].in[Far(h)] = @ \o SubSeq(m.conn[h][p].out, 1, n)]

\* What is sent to an end that is closed is answered by a reset.
FlushBuffer(m, h, p) ==
  LET c == m.conn[h][p]
      link == m.link[p]
      n == Min({Len(c.out), LinkRoom - Len(link.in[Far(h)])})
  IN  IF ~ c.open \/ c.out = <<>> \/ link.state # "up" THEN m
      ELSE IF ~ m.conn[Far(h)][p].open
      THEN [m EXCEPT !.conn[h][p].out = <<>>, !.link[p].state = "reset"]
      ELSE [m EXCEPT !.conn[h][p].out = SubSeq(@, n + 1, Len(@)),
                     !.link[p].in[Far(h)] = @ \o SubSeq(c.out, 1, n)]

OnWriteEvent(m, h, p) == Then(FlushBuffer(m, h, p), LAMBDA q : CheckCloseFd(q, h, p))

Write(m, h, p, frame) ==
  Then([m EXCEPT !.conn[h][p].out = Append(@, frame)],
       LAMBDA q : IF q.conn[h][p].connected THEN OnWriteEvent(q, h, p) ELSE q)

WriteMessage(m, h, p, type) == Write(m, h, p, Message(type))

SendData(m, h, p, first, last) ==
  Write(Check(m, m.conn[h][p].open, "SendData"), h, p,
        [type |-> "DATA", first |-> first, last |-> last])

IsBufferAboveThreshold(m, h, p) == Len(m.conn[h][p].out) > Threshold

\* Notify(PROXY_CONNECTED) of a TcpConnectionLeft.
SendDstConnectMessage(m, p) ==
  IF m.conn["server"][p].met THEN m
  ELSE Then(WriteMessage(m, "server", p, "ORIGIN_CONNECTED"),
            LAMBDA q : [OnWriteEvent(q, "server", p) EXCEPT !.conn["server"][p].met = TRUE])

-------------------------------------------------------------------------------
(* What a path tells its server. *)

HostOf(s) == IF s = "left" THEN "client" ELSE "server"

\* server_ is used; it must not be deleted.
Call(m, s, Method(_)) ==
  Then(Check(m, m.srv[s].life # "deleted", "server_"), LAMBDA q : Method(q))

Leave(m, s, p) ==
  [m EXCEPT !.srv[s].ready = SelectSeq(@, LAMBDA q : q # p), !.srv[s].wait = @ \ {p}]

\* Notify(PROXY_CLOSE) from path p: the last one takes the server with it.
ServerNotifyClose(m, s, p) ==
  Then(Leave(m, s, p),
       LAMBDA q : IF q.srv[s].ready # <<>> \/ q.srv[s].wait # {} THEN q
                  ELSE CheckCloseServerFd(
                         [q EXCEPT !.srv[s].io = @ \cup FdWaitCloseIfEntityClosed], s))

CloseEntity(m, h, p) ==
  LET s == m.conn[h][p].server
      closed == [m EXCEPT !.conn[h][p].io = @ \cup {"ENTITY_CLOSED"}]
      told == IF s = "none" THEN closed
              ELSE Call(closed, s, LAMBDA q : ServerNotifyClose(q, s, p))
  IN  CheckToDelete([told EXCEPT !.conn[h][p].server = "none"], h, p)

CheckCloseEntity(m, h, p) ==
  IF "ENTITY_WAIT_CLOSE" \in m.conn[h][p].io /\ ~ m.conn[h][p].part
  THEN CloseEntity(m, h, p) ELSE m

CloseServerEntitySilently(m, s) ==
  CheckToDeleteServer([m EXCEPT !.srv[s].io = @ \cup {"ENTITY_CLOSED"}, !.srv[s].ready = <<>>], s)

\* CloseEntity of a server tells the ready paths, and those only.
CloseServerEntity(m, s) ==
  LET told == FoldLeft(LAMBDA q, p : NotifyClose(q, HostOf(s), p),
                       [m EXCEPT !.srv[s].io = @ \cup {"ENTITY_CLOSED"}], m.srv[s].ready)
  IN  CheckToDeleteServer([told EXCEPT !.srv[s].ready = <<>>], s)

CheckCloseServerEntity(m, s) ==
  IF "ENTITY_WAIT_CLOSE" \in m.srv[s].io /\ m.srv[s].in = 0
  THEN CloseServerEntity(m, s) ELSE m

\* The order of the list matters to Schedule only, which shares out in any way.
MakeReady(m, s, paths) ==
  [m EXCEPT !.srv[s].ready = @ \o paths, !.srv[s].wait = @ \ Range(paths)]

\* Notify(PROXY_DST_CONNECTED) from p: it, if it waits, and all waiting paths that are
\* connected become ready; the alarm is set when the first path tells.
LeftNotifyDstConnected(m, p) ==
  LET wait == m.srv["left"].wait
      others == {q \in wait \ {p} : m.conn["client"][q].connected}
      paths == (IF p \in wait THEN <<p>> ELSE <<>>) \o SetToSeq(others)
  IN  [MakeReady(m, "left", paths) EXCEPT !.srv["left"].alarm = TRUE]

\* Notify(PROXY_CONNECTED) from p counts when the origin server is connected.
LeftNotifyConnected(m, p) ==
  IF m.srv["left"].alarm /\ p \in m.srv["left"].wait THEN MakeReady(m, "left", <<p>>) ELSE m

\* Register: a path joins a TpServerRight.
Register(m, s, p) ==
  Then([Leave([m EXCEPT !.conn["server"][p].server = s], s, p)
          EXCEPT !.srv[s].ready = Append(@, p), !.srv[s].alarm = TRUE],
       LAMBDA q : IF q.srv[s].connected THEN SendDstConnectMessage(q, p) ELSE q)

\* connect of a TpServerRight, which does not fail at once.
AsynConnect(m, s) == [m EXCEPT !.srv[s].reachable = "connecting"]

\* ParseMessage of META: the session is looked up, or made, and has path p before it
\* connects and before it is in the table.
JoinSession(m, p) ==
  IF m.table # "none" THEN Register(m, m.table, p)
  ELSE Then(Register([m EXCEPT !.srv[p] = [NoServer EXCEPT !.life = "live", !.open = TRUE]], p, p),
            LAMBDA q : RegsiterSink(AsynConnect(q, p), p))

\* ParseMessage of ORIGIN_CONNECTED.
OriginConnected(m, p) ==
  LET c == m.conn["client"][p]
      met == [m EXCEPT !.conn["client"][p].met = TRUE]
  IN  IF c.met \/ c.server = "none" THEN met
      ELSE Call(met, c.server, LAMBDA q : LeftNotifyDstConnected(q, p))

DeliverFrame(m, h, p, frame) ==
  LET s == m.conn[h][p].server
  IN  IF frame.type = "DATA"
      THEN IF s = "none" THEN Check(m, FALSE, "Deliver")
           ELSE Call(m, s, LAMBDA q : RecvData(q, s, frame))
      ELSE IF frame.type = "META" THEN JoinSession(m, p) ELSE OriginConnected(m, p)

Deliver(m, h, p, frames) ==
  Then(FoldLeft(LAMBDA q, frame : DeliverFrame(q, h, p, frame), m, frames),
       LAMBDA q : IF frames # <<>> THEN CheckCloseEntity(q, h, p) ELSE q)
-------------------------------------------------------------------------------
(* The scheduler and the budget alarm of a server. *)

\* Each of the paths below the threshold gets at least one unit while there are
\* any, in proportions that are left open; the last one gets the rest.
Split(paths, n) ==
  {part \in [1 .. Len(paths) -> 0 .. n] :
     /\ MapThenSumSet(LAMBDA i : part[i], DOMAIN part) = n
     /\ \A i \in 1 .. Len(paths) - 1 :
          part[i] = 0 => \A j \in i + 1 .. Len(paths) : part[j] = 0}

Schedule(m, s) ==
  LET h == HostOf(s)
      paths == SelectSeq(m.srv[s].ready, LAMBDA p : ~ IsBufferAboveThreshold(m, h, p))
      SendPart(q, i, n) ==
        IF n = 0 THEN q
        ELSE SendData([q EXCEPT !.srv[s].in = @ - n, !.srv[s].next = @ + n], h, paths[i],
                      q.srv[s].next, q.srv[s].next + n - 1)
      SendParts(part) ==
        FoldLeft(LAMBDA q, i : SendPart(q, i, part[i]), m, [i \in DOMAIN paths |-> i])
  IN  IF paths = <<>> \/ m.srv[s].in = 0 THEN {m}
      ELSE {SendParts(part) : part \in Split(paths, m.srv[s].in)}

\* The rest of OnBudgetAlarm, after OnReadEvent or without it.
AfterReading(m, s) ==
  ThenEach(Schedule(m, s),
           LAMBDA q : IF "FD_CLOSED" \in q.srv[s].io THEN CheckCloseServerEntity(q, s) ELSE q)

BufferFull(s) ==
  \A i \in DOMAIN mp.srv[s].ready : IsBufferAboveThreshold(mp, HostOf(s), mp.srv[s].ready[i])

ReadUnits(m, s, n) == [m EXCEPT !.srv[s].unread = @ - n, !.srv[s].in = @ + n]

\* OnReadEvent of a TpServerRight: the budget ends it after some units, or it runs
\* to the end of what can be read.
OnReadEvent(m, s) ==
  LET k == m.srv[s]
      read == {ReadUnits(m, s, n) : n \in (IF k.unread > 0 THEN 1 ELSE 0) .. k.unread}
      toEnd == IF k.open /\ k.eof THEN {CloseServerFd(ReadUnits(m, s, k.unread), s)} ELSE {}
  IN  ThenEach(read \cup toEnd, LAMBDA q : CheckCloseServerEntity(q, s))

-------------------------------------------------------------------------------
(* The callbacks. *)

Init == mp = [ conn |-> [h \in Hosts |-> [p \in Paths |-> NoConnection]],
               srv |-> [s \in Servers |-> NoServer], link |-> [p \in Paths |-> NoLink],
               table |-> "none", fault |-> "none" ]

\* The thread of the client host is in read or in send of the TpServerLeft.
Blocked == mp.srv["left"].reading \/ mp.srv["left"].pending > AppRoom
Runs(h) == h = "client" => ~ Blocked

Becomes(m) == mp.fault = "none" /\ mp' = m

\* connect of a path.
AsynConnectPath(m, p) ==
  [m EXCEPT !.conn["client"][p] = [NoConnection EXCEPT !.life = "live", !.open = TRUE,
                                                       !.server = "left"],
            !.link[p].state = "connecting"]

\* For each path a socket is made, bound and connected, or fails; paths are the others.
CreateConnections(m, paths) ==
  [FoldLeft(AsynConnectPath, m, SetToSeq(paths)) EXCEPT !.srv["left"].wait = paths]

\* The constructor of TpServerLeft: with no path left, or no original destination, it
\* gives up.
TpServerLeft ==
  LET left == [NoServer EXCEPT !.life = "live", !.open = TRUE, !.connected = TRUE,
                               !.reachable = "yes"]
      started == [mp EXCEPT !.srv["left"] = left]
  IN  /\ mp.srv["left"].life = "none"
      /\ \E paths \in SUBSET Paths :
           Becomes(IF paths = {} THEN CloseServerEntity(CloseServerFd(started, "left"), "left")
                   ELSE CreateConnections(started, paths))

\* What a report may say of a path's end: everything, or all but a hangup that
\* came after epoll_wait had found something else.
Hangup(h, p) ==
  mp.link[p].state = "reset" \/ (mp.link[p].state = "up" /\ ~ mp.conn[Far(h)][p].open)
CanRead(h, p) == mp.link[p].in[h] # <<>>
CanWriteOnlyOnce(h, p) == mp.link[p].state = "up" /\ ~ mp.conn[h][p].connected
CanWrite(h, p) ==
  /\ mp.link[p].state = "up"
  /\ \/ ~ mp.conn[h][p].connected
     \/ mp.conn[h][p].out # <<>> /\ (Len(mp.link[p].in[Far(h)]) < LinkRoom \/ Hangup(h, p))

\* OnReadEvent of a path's end: it reads what has come, perhaps only a part of the
\* last frame; on a reset path, what has not come is lost.  atEnd: it goes on to
\* the end of the stream.
ReadFrames(m, h, p, n, part, atEnd) ==
  LET frames == SubSeq(m.link[p].in[h], 1, n)
      read == [m EXCEPT !.link[p].in[h] = IF @ = <<>> \/ m.link[p].state = "reset" THEN <<>>
                                          ELSE SubSeq(@, n + 1, Len(@)),
                        !.conn[h][p].part = IF n > 0 THEN part ELSE @ \/ part]
      ended == IF atEnd THEN Check(CloseFd(read, h, p), m.conn[h][p].out = <<>>, "OnReadEvent")
               ELSE read
  IN  Then(Deliver(ended, h, p, frames),
           LAMBDA q : Check(q, "FD_CLOSED" \in q.conn[h][p].io => ~ q.conn[h][p].part,
                            "fd_read_buffer_"))

OnPathReadEvent(m, h, p, hangup) ==
  LET count == Len(m.link[p].in[h])
      ended == m.link[p].state = "up" /\ ~ m.conn[Far(h)][p].open
      atEnd == IF ended THEN (IF hangup THEN {TRUE} ELSE BOOLEAN) ELSE {FALSE}
  IN  IF ~ m.conn[h][p].open THEN {m}
      ELSE IF m.link[p].state = "reset"
      THEN {ReadFrames(m, h, p, n, part, FALSE) :
              n \in 0 .. count, part \in IF count > 0 THEN BOOLEAN ELSE {FALSE}}
      ELSE {ReadFrames(m, h, p, count, FALSE, end) : end \in atEnd}
             \cup (IF count > 0 /\ ~ hangup
                   THEN {ReadFrames(m, h, p, count - 1, TRUE, FALSE)} ELSE {})

RightClosesFdOnly(m, p) ==
  Check(CloseFd(m, "client", p), m.conn["client"][p].out = <<>>, "OnEvent")

\* OnEvent of a TcpConnectionRight: a hangup closes it before anything is read, and
\* OnReadEvent then finds what an earlier one left.
RightCloses(m, p) ==
  LET c == m.conn["client"][p]
  IN  Check(Check(CloseEntity(CloseFd(m, "client", p), "client", p), c.out = <<>>, "OnEvent"),
            ~ c.part, "fd_read_buffer_")

RightConnected(m, p) ==
  LET s == m.conn["client"][p].server
  IN  Then(WriteMessage([m EXCEPT !.conn["client"][p].connected = TRUE], "client", p, "META"),
           LAMBDA q : IF s = "none" THEN q ELSE Call(q, s, LAMBDA r : LeftNotifyConnected(r, p)))

RightOnOut(m, p) ==
  Then(IF m.conn["client"][p].connected THEN m ELSE RightConnected(m, p),
       LAMBDA q : OnWriteEvent(q, "client", p))

RightOnEvent(p) ==
  /\ mp.conn["client"][p].open /\ Runs("client")
  /\ \/ Hangup("client", p) /\ Becomes(RightCloses(mp, p))
     \/ /\ CanWrite("client", p) \/ CanRead("client", p)
        /\ LET written == IF CanWrite("client", p) THEN RightOnOut(mp, p) ELSE mp
           IN  \E m \in IF CanRead("client", p)
                        THEN OnPathReadEvent(written, "client", p, FALSE) ELSE {written} :
                 Becomes(m)

\* OnEvent of a TcpConnectionLeft: a hangup comes last.
LeftCloses(m, p) ==
  LET out == m.conn["server"][p].out
  IN  Check(Then(CloseFd(m, "server", p), LAMBDA q : CheckCloseEntity(q, "server", p)),
            out = <<>>, "OnEvent")

LeftOnEvent(p) ==
  /\ mp.conn["server"][p].open
  /\ \E hangup \in BOOLEAN :
       /\ IF hangup THEN Hangup("server", p) ELSE CanRead("server", p) \/ CanWrite("server", p)
       /\ \E read \in IF hangup \/ CanRead("server", p)
                      THEN OnPathReadEvent(mp, "server", p, hangup) ELSE {mp} :
            LET written == IF CanWrite("server", p) THEN OnWriteEvent(read, "server", p) ELSE read
            IN  Becomes(IF hangup THEN LeftCloses(written, p) ELSE written)

\* OnEvent of a TpServerRight: connected, or not; then data; then a hangup.
OriginAnswers(m, s) ==
  FoldLeft(LAMBDA q, p : SendDstConnectMessage(q, p),
           [m EXCEPT !.srv[s].connected = TRUE], m.srv[s].ready)

ServerOnOut(m, s) ==
  Then(IF m.srv[s].connected THEN m ELSE OriginAnswers(m, s),
       LAMBDA q : CheckCloseServerFd(FlushServer(q, s), s))

TpServerRightOnEvent(s) ==
  LET k == mp.srv[s]
      out == k.reachable \in {"yes", "refused"} /\ (~ k.connected \/ (k.out > 0 /\ Taken(k, k.out) > 0))
  IN  /\ k.open
      /\ \E hangup \in BOOLEAN :
           /\ IF hangup THEN k.eof ELSE k.reachable # "refused" /\ (out \/ k.unread > 0)
           /\ LET written == IF out THEN ServerOnOut(mp, s) ELSE mp
              IN  \E m \in IF k.eof \/ k.unread > 0 THEN OnReadEvent(written, s) ELSE {written} :
                    Becomes(IF hangup THEN CloseServerEntity(CloseServerFd(m, s), s) ELSE m)

\* OnBudgetAlarm.  The read loop of a TpServerLeft may block at any read, so that its
\* reads are steps of their own; a budget that is overdrawn lets nothing be read.
HasAlarm(s) == mp.srv[s].alarm /\ mp.srv[s].life \in {"live", "destroyed"} /\ Runs(HostOf(s))

OnBudgetAlarm(s) ==
  /\ HasAlarm(s)
  /\ IF ~ mp.srv[s].open \/ BufferFull(s) THEN \E m \in AfterReading(mp, s) : Becomes(m)
     ELSE IF s = "left" THEN Becomes([mp EXCEPT !.srv[s].reading = TRUE])
     ELSE \E q \in OnReadEvent(mp, s) : \E m \in AfterReading(q, s) : Becomes(m)

OnBudgetAlarmOverdrawn(s) == HasAlarm(s) /\ \E m \in AfterReading(mp, s) : Becomes(m)

LeftReads ==
  LET k == mp.srv["left"]
      done == [mp EXCEPT !.srv["left"].reading = FALSE]
  IN  /\ k.reading
      /\ \/ \E n \in 1 .. k.unread : Becomes(ReadUnits(mp, "left", n))
         \/ \E n \in 1 .. k.unread :
              \E m \in AfterReading(ReadUnits(done, "left", n), "left") : Becomes(m)
         \/ /\ k.unread = 0 /\ k.eof
            /\ \E m \in AfterReading(CheckCloseServerEntity(CloseServerFd(done, "left"), "left"),
                                     "left") : Becomes(m)

\* The posted task: delete this.
Delete(s) ==
  /\ mp.srv[s].life = "destroyed" /\ Runs(HostOf(s))
  /\ Becomes([mp EXCEPT !.srv[s].life = "deleted"])

Callback ==
  \/ TpServerLeft \/ LeftReads
  \/ \E p \in Paths : RightOnEvent(p) \/ LeftOnEvent(p) \/ TpServerRightOnEvent(p)
  \/ \E s \in Servers : OnBudgetAlarm(s) \/ OnBudgetAlarmOverdrawn(s) \/ Delete(s)

-------------------------------------------------------------------------------
(* The network, the client and the origin server. *)

\* What the server host makes of a connection it accepts.
CreateEndpoint(m, p) ==
  [m EXCEPT !.conn["server"][p] = [NoConnection EXCEPT !.life = "live", !.open = TRUE,
                                                       !.connected = TRUE]]

PathConnects(p) ==
  /\ mp.link[p].state = "connecting"
  /\ Becomes(CreateEndpoint([mp EXCEPT !.link[p].state = "up"], p))

PathFails(p) ==
  /\ mp.link[p].state \in {"connecting", "up"}
  /\ \E h \in Hosts : mp.conn[h][p].open
  /\ Becomes([mp EXCEPT !.link[p].state = "reset"])

OriginAccepts(s) ==
  s # "left" /\ mp.srv[s].open /\ mp.srv[s].reachable = "connecting"
    /\ Becomes([mp EXCEPT !.srv[s].reachable = "yes"])
OriginRefuses(s) ==
  s # "left" /\ mp.srv[s].open /\ mp.srv[s].reachable = "connecting"
    /\ Becomes([mp EXCEPT !.srv[s].reachable = "refused", !.srv[s].eof = TRUE])

AppSends(s) ==
  LET k == mp.srv[s]
  IN  /\ k.open /\ k.reachable = "yes" /\ ~ k.eof
      /\ k.said < Data(s) /\ MapThenSumSet(LAMBDA r : mp.srv[r].said, Servers) < DataAll
      /\ Becomes([mp EXCEPT !.srv[s].unread = @ + 1, !.srv[s].said = @ + 1])

AppFinishes(s) ==
  /\ mp.srv[s].open /\ mp.srv[s].reachable = "yes" /\ ~ mp.srv[s].eof
  /\ Becomes([mp EXCEPT !.srv[s].eof = TRUE])

AppReceives(s) ==
  /\ mp.srv[s].pending > 0
  /\ Becomes([mp EXCEPT !.srv[s].pending = @ - 1])

Network ==
  \/ \E p \in Paths : PathConnects(p) \/ PathFails(p)
  \/ \E s \in Servers : OriginAccepts(s) \/ OriginRefuses(s)
                        \/ AppSends(s) \/ AppFinishes(s) \/ AppReceives(s)

Next == Callback \/ Network

Spec == Init /\ [][Next]_mp

\* Both event loops run their callbacks, alarms are set again at each alarm, connection
\* attempts end, and client and origin server go on reading.
Fairness ==
  /\ WF_mp(LeftReads)
  /\ \A p \in Paths :
       /\ WF_mp(RightOnEvent(p)) /\ WF_mp(LeftOnEvent(p)) /\ WF_mp(TpServerRightOnEvent(p))
       /\ WF_mp(PathConnects(p) \/ (mp.link[p].state = "connecting" /\ PathFails(p)))
       /\ WF_mp(OriginAccepts(p) \/ OriginRefuses(p))
  /\ \A s \in Servers : WF_mp(OnBudgetAlarm(s)) /\ WF_mp(Delete(s)) /\ WF_mp(AppReceives(s))

FairSpec == Spec /\ Fairness

\* A client that sends what it has and finishes.
UploadSpec == FairSpec /\ WF_mp(AppFinishes("left"))

-------------------------------------------------------------------------------
(* Properties. *)

\* Type invariant.
TypeOK ==
  /\ mp.conn \in [Hosts -> [Paths -> Connection]]
  /\ mp.srv \in [Servers -> Server]
  /\ mp.link \in [Paths -> Link]
  /\ \A p \in Paths : \A h \in Hosts : Len(mp.link[p].in[h]) <= LinkRoom
  /\ mp.table \in Paths \cup {"none"}
  /\ mp.fault \in {"none", "RegsiterSink", "UnRegsiterSink", "SendData", "server_", "Deliver",
                   "OnReadEvent", "fd_read_buffer_", "OnEvent"}

Reset == \E p \in Paths : mp.link[p].state = "reset"

\* What is on its way to host h on path p.
OnPath(h, p) == mp.conn[Far(h)][p].out \o mp.link[p].in[h]

\* Each of n units is in one frame that waits or is on its way to h, or was received.
Accounted(n, h, received) ==
  LET Count(p) == Cardinality(Units(Range(OnPath(h, p))))
  IN  /\ received \cup UNION {Units(Range(OnPath(h, p))) : p \in Paths} = 1 .. n
      /\ Cardinality(received) + MapThenSumSet(Count, Paths) = n

\* What was received without a gap was handed to the socket, or is about to be.
HandedOn(s) ==
  mp.srv[s].open => mp.srv[s].sent + mp.srv[s].out = Readable(mp.srv[s].received)

\* Frames are spread over the paths and overtake each other; yet as long as no path is
\* reset or closed with data unread, no unit of the client is lost or doubled, whoever
\* closes meanwhile, and the origin server gets them in order.
UploadAccounted ==
  (~ Reset /\ mp.fault = "none") =>
    /\ Accounted(mp.srv["left"].next - 1, "server", UNION {mp.srv[p].received : p \in Paths})
    /\ \A s \in Paths : HandedOn(s)

\* All paths of the session led to one connection to the origin server.  It is no
\* invariant: a META frame that comes after the session has ended starts it again.
OneOriginConnection == Cardinality({p \in Paths : mp.srv[p].life # "none"}) <= 1

\* The units of a remote host that no path will carry: those its socket was closed with,
\* and those that were in the buffer of a server that no longer has paths.
Dropped(k) == k.said - (k.next - 1) - (IF "ENTITY_CLOSED" \in k.io THEN 0 ELSE k.in + k.unread)

\* The same for the units of the origin server once they are on a path, and until then
\* none is lost while the origin server goes on and the client is there.  It is not so
\* when the origin server finishes: the hangup closes both sides of TpServerRight at
\* once and drops what was not read or not scheduled yet.  What the client gets is then
\* the beginning of the download, with no gap in it.  A session that was started again
\* has two origin servers that both number from 1.
DownloadAccounted ==
  (~ Reset /\ mp.fault = "none" /\ OneOriginConnection) =>
    /\ \A s \in Paths : mp.srv[s].life # "none" =>
         /\ Accounted(mp.srv[s].next - 1, "client", mp.srv["left"].received)
         /\ Dropped(mp.srv[s]) > 0 => mp.srv[s].eof \/ ~ mp.srv["left"].open
    /\ HandedOn("left")

\* server_ and the lists of the server agree, so that Notify(PROXY_CLOSE) reaches whom it
\* must: a path that has a server is on one of its lists, even when the server is to be
\* deleted, and a path on a list has that server.  It dangles only while the path waits
\* for the origin server, since CloseEntity of TpServerLeft forgets those.
ServersKnowTheirPaths ==
  mp.fault = "none" =>
    \A s \in Servers : \A p \in Paths :
      mp.conn[HostOf(s)][p].server = s <=> p \in Range(mp.srv[s].ready) \cup mp.srv[s].wait

\* CHECK(fd_>0) of SendData: a path that a server may choose is connected and open, or
\* it was reset in the middle of a frame.
ReadyPathsAreOpen ==
  \A s \in Servers : \A i \in DOMAIN mp.srv[s].ready :
    LET c == mp.conn[HostOf(s)][mp.srv[s].ready[i]]
    IN  c.server = s /\ c.connected /\ (c.open \/ c.part)

\* The table of sessions has a TpServerRight exactly from its making to DeleteSelf, and
\* so never two of them.
SessionTableAgrees ==
  mp.fault = "none" =>
    \A p \in Paths : mp.table = p <=> mp.srv[p].life = "live"

\* The lists of paths, the pointers of the paths, their sockets and the session table
\* of the server agree in every state between two callbacks.
SessionSound == TypeOK /\ ServersKnowTheirPaths /\ ReadyPathsAreOpen /\ SessionTableAgrees

\* TpServerRight closes the connection of an origin server that has not finished only
\* when the client has finished and all it sent was handed over, whatever the paths'
\* ends were in the middle of, unless a path was reset or came too late for the session.
Joined ==
  /\ OneOriginConnection
  /\ \A p \in Paths : Message("META") \notin Range(OnPath("server", p))
ClosesAfterUpload ==
  [][\A s \in Paths :
       /\ mp.srv[s].open /\ ~ mp'.srv[s].open /\ ~ mp.srv[s].eof
       /\ Joined /\ ~ Reset' /\ mp'.fault = "none"
       => /\ ~ mp.srv["left"].open /\ mp.srv["left"].in = 0
          /\ mp'.srv[s].sent = mp.srv["left"].next - 1]_mp

Over == mp.fault # "none" \/ Reset

\* All that a client sent before it finished, read or not by then, is written to the
\* origin server, unless that one finishes or refuses first or the path is reset.
UploadCompletes ==
  mp.srv["left"].eof ~>
    Over \/ \E s \in Paths : mp.srv[s].eof \/ mp.srv[s].sent = mp.srv["left"].said

\* A server whose socket was closed with units left in both buffers: without paths it
\* neither schedules the ones nor writes the others, and is never deleted.
Stranded(s) ==
  mp.srv[s].io = IoStatus /\ mp.srv[s].in > 0 /\ mp.srv[s].out > 0

\* When one of the servers is gone, the whole session is, on both hosts, but for a
\* server that is stranded.
SessionEnds ==
  (\E s \in Servers : mp.srv[s].life \in {"destroyed", "deleted"}) ~>
    \/ Over
    \/ /\ \A s \in Servers : mp.srv[s].life \in {"none", "deleted"} \/ Stranded(s)
       /\ \A h \in Hosts : \A p \in Paths : mp.conn[h][p].life \in {"none", "deleted"}
=============================================================================
