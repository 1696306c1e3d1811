--------------------------------- MODULE Hen ---------------------------------
(***************************************************************************)
(* The relay of src/hen: a host B accepts the connections of clients and   *)
(* carries each over a connection of its own to host C, which connects to  *)
(* the original destination.  Each host has two sticks for a connection,   *)
(* BL - BR and CL - CR, that hand what they read to each other.            *)
(*                                                                         *)
(*     client A --ab--> BL BR --bc--> CL CR --cd--> echo server D          *)
(*                                                                         *)
(* A and D are the programs a_echo and d_echo of the same directory.       *)
(* hx holds the links, the sticks and the contexts of both hosts; the      *)
(* methods are operators from hx to its next value.                        *)
(***************************************************************************)
EXTENDS Links, BaseContext, SequencesExt

CONSTANTS
  Requests,     \* messages the client sends (many_)
  Outstanding   \* those it may send before it waits; 1 in a_echo

ASSUME HenAssumption ==
  /\ Requests \in Nat /\ Outstanding \in Nat \ {0} /\ Outstanding <= Room

Hosts == {"B", "C"}
Sticks == {"BL", "BR", "CL", "CR"}
Host(s) == IF s \in {"BL", "BR"} THEN "B" ELSE "C"
SticksOf(h) == {s \in Sticks : Host(s) = h}
Mate(s) == CHOOSE t \in SticksOf(Host(s)) : t # s

Link(s) == CASE s = "BL" -> "ab" [] s \in {"BR", "CL"} -> "bc" [] s = "CR" -> "cd"
EndOf(s) == IF s \in {"BL", "CL"} THEN "far" ELSE "near"

Meta == 0     \* the address of the destination that BR sends first

VARIABLES
  hx,        \* [links, sticks, hosts]
  client,    \* a_echo: messages sent and received, and whether it still runs
  echoed     \* units d_echo has received and sent back

vars == <<hx, client, echoed>>

\* life: "destroyed" when the deletion is posted; mate: stick_ is not null;
\* mateStatus: stick_status_; parsed: meta_parsed_.
Stick ==
  [ life : {"none", "live", "destroyed", "deleted"},
    own : {"min", "connecting", "connected"},
    mate : BOOLEAN, mateStatus : {"min", "connected", "discon"},
    wb : Seq(Nat), parsed : BOOLEAN ]

NoStick ==
  [life |-> "none", own |-> "min", mate |-> FALSE, mateStatus |-> "min",
   wb |-> <<>>, parsed |-> FALSE]

\* One call after another: Call at the result of the calls before it.
Then(x, Call(_)) == CHOOSE y \in {Call(z) : z \in {x}} : TRUE

HasSocket(x, s) == HasFd(x.links[Link(s)], EndOf(s))
Gone(x, s) == x.hosts[Host(s)].gone

-------------------------------------------------------------------------------
(* The end of a host: its loop was told to stop, a CHECK failed, or it was    *)
(* killed by SIGPIPE.  The process or the kernel closes everything.           *)

CloseSocketOf(links, s) ==
  [links EXCEPT ![Link(s)] = Close(IF EndOf(s) = "far" THEN Abandon(@) ELSE @, EndOf(s))]
CloseSocketsOf(links, h) ==
  IF h = "B" THEN CloseSocketOf(CloseSocketOf(links, "BL"), "BR")
             ELSE CloseSocketOf(CloseSocketOf(links, "CL"), "CR")

EndStick(stick) ==
  [stick EXCEPT !.life = IF @ = "none" THEN @ ELSE "deleted", !.mate = FALSE]

End_(x, h) ==
  [x EXCEPT !.links = CloseSocketsOf(@, h),
            !.sticks = [s \in Sticks |-> IF Host(s) = h THEN EndStick(x.sticks[s]) ELSE x.sticks[s]],
            !.hosts[h] = Destroy(@)]

-------------------------------------------------------------------------------
(* Closing. *)

DeleteSelf(x, s) ==
  IF x.sticks[s].life # "live" THEN x
  ELSE [x EXCEPT !.sticks[s].life = "destroyed", !.hosts[Host(s)] = PostTask(@, s)]

\* Notify(STICK_DISCON)
NotifyDiscon(x, s) ==
  [x EXCEPT !.sticks[s].mateStatus = "discon", !.sticks[s].mate = FALSE]

CloseFdQuietly(x, s) ==
  DeleteSelf([x EXCEPT !.links[Link(s)] = Close(@, EndOf(s)), !.sticks[s].mate = FALSE], s)
CloseFd(x, s) ==
  LET closed == [x EXCEPT !.links[Link(s)] = Close(@, EndOf(s)), !.sticks[s].mate = FALSE]
  IN  DeleteSelf(IF x.sticks[s].mate THEN NotifyDiscon(closed, Mate(s)) ELSE closed, s)

CheckCloseFd(x, s) ==
  IF x.sticks[s].wb = <<>> /\ x.sticks[s].mateStatus = "discon" THEN CloseFd(x, s) ELSE x

-------------------------------------------------------------------------------
(* Data. *)

\* Sink only keeps the data: the next EPOLLOUT sends them.
SinkBefore(x, s, data) ==
  IF HasSocket(x, s) THEN [x EXCEPT !.sticks[s].wb = data \o @] ELSE x
Sink(x, s, data) ==
  IF HasSocket(x, s) THEN [x EXCEPT !.sticks[s].wb = @ \o data] ELSE x

FlushBuffer(x, s) ==
  LET wb == x.sticks[s].wb
      link == x.links[Link(s)]
      n == Taken(link, EndOf(s), Len(wb))
  IN  IF wb = <<>> THEN x
      ELSE IF ~ HasSocket(x, s) THEN End_(x, Host(s))                 \* CHECK
      ELSE IF RaisesSigpipe(link, EndOf(s)) THEN End_(x, Host(s))
      ELSE [x EXCEPT !.links[Link(s)] = Send(@, EndOf(s), wb),
                     !.sticks[s].wb = SubSeq(@, n + 1, Len(@))]

FlushOnly(x, s) == FlushBuffer(x, s)
OnWriteEvent(x, s) ==
  Then(FlushBuffer(x, s), LAMBDA y : IF Gone(y, s) THEN y ELSE CheckCloseFd(y, s))

\* The end of a read loop: the end of the stream closes, an error is ignored.
ReadOn(x, s) ==
  LET link == x.links[Link(s)]
  IN  IF ~ HasSocket(x, s) THEN x
      ELSE IF ReadsEnd(link, EndOf(s)) THEN CloseFd(x, s)
      ELSE IF ReadFails(link, EndOf(s))
           THEN [x EXCEPT !.links[Link(s)] = ErrorRead(@, EndOf(s))]
      ELSE x

Unread(x, s) == x.links[Link(s)][EndOf(s)].in
ReadUnits(x, s, n) == [x EXCEPT !.links[Link(s)] = Consume(@, EndOf(s), n)]

\* What is read is handed to the mate; without one the stick closes at once.
OnReadEvent(x, s) ==
  LET data == Unread(x, s)
  IN  IF ~ HasSocket(x, s) THEN x
      ELSE IF data = <<>> THEN ReadOn(x, s)
      ELSE IF x.sticks[s].mate
           THEN Then(Sink(ReadUnits(x, s, Len(data)), Mate(s), data), LAMBDA y : ReadOn(y, s))
      ELSE CloseFd(ReadUnits(x, s, 1), s)

-------------------------------------------------------------------------------
(* Sticks come and go. *)

NewStick == [NoStick EXCEPT !.life = "live"]

\* A right stick whose socket connects; both sticks know each other then.
Connect(x, left, right, first) ==
  [x EXCEPT !.links[Link(right)] = Connecting,
            !.sticks[right] = [NewStick EXCEPT !.own = "connecting", !.mate = TRUE, !.wb = first],
            !.sticks[left].mate = TRUE]

\* A right stick that could not be connected closes and deletes itself.
FailToConnect(x, right, first) ==
  DeleteSelf([x EXCEPT !.sticks[right] = [NewStick EXCEPT !.wb = first],
                       !.links[Link(right)]["near"].state = "closed"], right)

\* The constructor of BL: no original destination or no socket, a connect that
\* fails at once, or a connection under way.
BHenLeftStick(x) ==
  LET left == [x EXCEPT !.links["ab"] = Accept(@),
                        !.sticks["BL"] = [NewStick EXCEPT !.own = "connected"]]
  IN  { CloseFd(left, "BL"),
        CloseFd(FailToConnect(left, "BR", <<Meta>>), "BL"),
        Connect(left, "BL", "BR", <<Meta>>) }

CHenLeftStick(x) ==
  [x EXCEPT !.links["bc"] = Accept(@), !.sticks["CL"] = [NewStick EXCEPT !.own = "connected"]]

\* CreateRightStick of CL; if it fails there is no stick_, and CHECK(stick_) does.
CreateRightStick(x) == {Connect(x, "CL", "CR", <<>>), End_(x, "C")}

\* CL takes the address from the first bytes; what follows goes to CR.
ReadMetaOnly(x) ==
  LET parsed == [ReadUnits(x, "CL", Len(Unread(x, "CL"))) EXCEPT !.sticks["CL"].parsed = TRUE]
  IN  {IF Gone(y, "CL") THEN y ELSE ReadOn(y, "CL") : y \in CreateRightStick(parsed)}
ReadMeta(x) ==
  LET data == Unread(x, "CL")
      parsed == [ReadUnits(x, "CL", Len(data)) EXCEPT !.sticks["CL"].parsed = TRUE]
  IN  {IF Gone(y, "CL") THEN y ELSE ReadOn(Sink(y, "CR", Tail(data)), "CL") : y \in CreateRightStick(parsed)}

LeftOnReadEvent(x, s) ==
  IF s = "CL" /\ ~ x.sticks[s].parsed /\ Unread(x, s) # <<>>
  THEN ReadMeta(x)
  ELSE {OnReadEvent(x, s)}

-------------------------------------------------------------------------------
(* The callbacks of the event loops. *)

Init ==
  /\ hx = [ links |-> [ab |-> Dialled, bc |-> NoLink, cd |-> NoLink],
            sticks |-> [s \in Sticks |-> NoStick],
            hosts |-> [h \in Hosts |-> NewContext] ]
  /\ client = [sent |-> 0, got |-> <<>>]
  /\ echoed = <<>>

HostDoes(h, y) ==
  /\ InLoop(hx.hosts[h])
  /\ hx' = y
  /\ UNCHANGED <<client, echoed>>

Registered(s) == hx.sticks[s].life = "live" /\ HasSocket(hx, s)
EventsOf(s) == Reported(hx.links[Link(s)], EndOf(s), {"IN", "OUT", "RDHUP"})

\* PhysicalSocketServer accepts, and its backend makes the left stick.
AcceptB ==
  /\ hx.links["ab"]["far"].state = "queued"
  /\ \E y \in BHenLeftStick(hx) : HostDoes("B", y)

AcceptC ==
  /\ hx.links["bc"]["far"].state = "queued"
  /\ HostDoes("C", CHenLeftStick(hx))

LeftOnEvent(s) ==
  /\ s \in {"BL", "CL"} /\ Registered(s)
  /\ \E y \in IF "IN" \in EventsOf(s) THEN LeftOnReadEvent(hx, s) ELSE {hx} :
       HostDoes(Host(s), IF "OUT" \in EventsOf(s) /\ ~ Gone(y, s) THEN OnWriteEvent(y, s) ELSE y)

\* A right stick closes first and goes on with the other bits of the report.
RightConnected(x, s) ==
  IF x.sticks[s].own # "connecting" THEN x
  ELSE LET y == [x EXCEPT !.sticks[s].own = "connected"]
       IN  IF x.sticks[s].mate THEN [y EXCEPT !.sticks[Mate(s)].mateStatus = "connected"] ELSE y

RightOnEvent(s) ==
  LET closed == IF EventsOf(s) \cap {"RDHUP", "HUP"} # {} THEN CloseFd(hx, s) ELSE hx
      read == IF "IN" \in EventsOf(s) THEN OnReadEvent(closed, s) ELSE closed
  IN  /\ s \in {"BR", "CR"} /\ Registered(s)
      /\ HostDoes(Host(s), IF "OUT" \in EventsOf(s)
                           THEN OnWriteEvent(RightConnected(read, s), s) ELSE read)

\* The posted deletions, at the beginning of HandleEvent.
RunTasks(h) ==
  /\ hx.hosts[h].tasks # <<>>
  /\ HostDoes(h, [hx EXCEPT
       !.sticks = [s \in Sticks |->
                     IF s \in TasksOf(hx.hosts[h]) THEN [hx.sticks[s] EXCEPT !.life = "deleted"]
                                                   ELSE hx.sticks[s]],
       !.hosts[h] = ExecuteTask(@)])

\* The handler of a signal clears g_running; main leaves its loop and returns.
SignalHost(h) == hx.hosts[h].running /\ HostDoes(h, [hx EXCEPT !.hosts[h] = Stop(@)])
HostExits(h) == LoopEnds(hx.hosts[h]) /\ HostDoes(h, End_(hx, h))

-------------------------------------------------------------------------------
(* The client a_echo: it sends a message and waits for the answer.            *)

ClientRuns == HasFd(hx.links["ab"], "near")
ClientDoes(ab, c) ==
  hx' = [hx EXCEPT !.links["ab"] = ab] /\ client' = c /\ UNCHANGED echoed

SendMessage ==
  LET ab == hx.links["ab"]
      next == client.sent + 1
  IN  /\ ClientRuns /\ next <= Requests /\ next - Len(client.got) <= Outstanding
      /\ IF ab["near"].reset
         THEN ClientDoes(Close(ab, "near"), client)
         ELSE /\ RoomFor(ab, "near") > 0
              /\ ClientDoes(Send(ab, "near", <<next>>), [client EXCEPT !.sent = next])

\* recv blocks until there is something: an answer, the end or an error.
WaitReply ==
  LET ab == hx.links["ab"]
      in == ab["near"].in
  IN  /\ ClientRuns
      /\ IF in = <<>>
         THEN ab["near"].eof /\ ClientDoes(Close(ab, "near"), client)
         ELSE ClientDoes(Consume(ab, "near", Len(in)), [client EXCEPT !.got = @ \o in])

\* All is answered, or a signal ends the program.
ClientExits == ClientRuns /\ ClientDoes(Close(hx.links["ab"], "near"), client)

-------------------------------------------------------------------------------
(* The server d_echo. *)

ServerDoes(cd, e) ==
  hx' = [hx EXCEPT !.links["cd"] = cd] /\ echoed' = e /\ UNCHANGED client

AcceptD == hx.links["cd"]["far"].state = "queued" /\ ServerDoes(Accept(hx.links["cd"]), echoed)

\* Each chunk is sent back at once.  The descriptor is edge triggered, so that
\* after an error, which only ends the loop, nothing closes it any more.
EchoOnEvent ==
  LET cd == hx.links["cd"]
      in == cd["far"].in
      read == Send(Consume(cd, "far", Len(in)), "far", in)
  IN  /\ HasFd(cd, "far")
      /\ \/ in # <<>> /\ ServerDoes(IF cd["far"].eof /\ ~ cd["far"].reset
                                    THEN Close(read, "far") ELSE read, echoed \o in)
         \/ in = <<>> /\ cd["far"].eof /\ ~ cd["far"].reset /\ ServerDoes(Close(cd, "far"), echoed)

-------------------------------------------------------------------------------
(* The network. *)

NetworkDoes(l, link) == hx' = [hx EXCEPT !.links[l] = link] /\ UNCHANGED <<client, echoed>>

\* A connection reaches the listening socket of the host it goes to, if that runs.
Listens(l) == l = "bc" => ~ hx.hosts["C"].gone
Established(l) == UnderWay(hx.links[l]) /\ Listens(l) /\ NetworkDoes(l, Establish(hx.links[l]))
Refused(l) == UnderWay(hx.links[l]) /\ NetworkDoes(l, Refuse(hx.links[l]))
Breaks(l) == Carries(hx.links[l]) /\ ~ hx.links[l]["near"].reset /\ NetworkDoes(l, Break(hx.links[l]))

LinkNames == {"ab", "bc", "cd"}

\* One loop per host: it accepts, serves its sticks, runs tasks, and ends once told to.
HostServes(h) ==
  \/ h = "B" /\ AcceptB
  \/ h = "C" /\ AcceptC
  \/ \E s \in SticksOf(h) : LeftOnEvent(s) \/ RightOnEvent(s)
  \/ RunTasks(h) \/ HostExits(h)

EndsRead == WaitReply \/ AcceptD \/ EchoOnEvent
NetworkAnswers == \E l \in LinkNames : Established(l) \/ Refused(l)

Progress == (\E h \in Hosts : HostServes(h)) \/ EndsRead \/ NetworkAnswers

Next ==
  \/ Progress
  \/ \E h \in Hosts : SignalHost(h)
  \/ SendMessage \/ ClientExits
  \/ \E l \in LinkNames : Breaks(l)

\* The loops go on while there is anything to serve, the client and the server go on
\* reading, and an attempt to connect ends one way or the other.  No part can change
\* the state for ever, so that it is enough to ask for some part to move.
Fairness == WF_vars(Progress)

Spec == Init /\ [][Next]_vars /\ Fairness

-------------------------------------------------------------------------------
(* Properties. *)

Links == [LinkNames -> [Ends -> End]]

\* Type invariant.
TypeOK ==
  /\ hx.links \in Links
  /\ hx.sticks \in [Sticks -> Stick]
  /\ hx.hosts \in [Hosts -> Context(Sticks)]
  /\ client.sent \in 0 .. Requests /\ client.got \in Seq(Nat) /\ echoed \in Seq(Nat)

\* The two sticks of a host agree: stick_ points to a live stick that points back,
\* so that closing one is noticed by the other; a stick has its socket until it is
\* destroyed; and it is deleted by the task it posted, once.
SticksAgree ==
  /\ TypeOK
  /\ \A s \in Sticks :
       LET stick == hx.sticks[s]
       IN  /\ stick.mate => hx.sticks[Mate(s)].mate /\ hx.sticks[Mate(s)].life = "live"
           /\ stick.life = "live" <=> HasSocket(hx, s)
           /\ stick.life = "destroyed" <=> s \in TasksOf(hx.hosts[Host(s)])
           /\ stick.mateStatus = "discon" => hx.sticks[Mate(s)].life \in {"destroyed", "deleted"}

Units(n) == [i \in 1 .. n |-> i]
DataIn(queue) == IF queue # <<>> /\ Head(queue) = Meta THEN Tail(queue) ELSE queue
Whole(l) == hx.links[l]["near"].state # "closed" /\ ~ hx.links[l]["near"].reset
             /\ hx.links[l]["far"].state # "closed" /\ ~ hx.links[l]["far"].reset

\* What d_echo gets is what the client sent, in order, and what the client gets is
\* what d_echo sent back; while no connection ends nothing is missing: the rest is
\* in a buffer or on a link, in order.
EchoPreserved ==
  LET link(l, e) == hx.links[l][e].in
      wb(s) == hx.sticks[s].wb
      up == link("cd", "far") \o wb("CR") \o link("bc", "far") \o wb("BR") \o link("ab", "far")
      down == link("ab", "near") \o wb("BL") \o link("bc", "near") \o wb("CL") \o link("cd", "near")
  IN  /\ IsPrefix(echoed, Units(client.sent)) /\ IsPrefix(client.got, echoed)
      /\ (\A l \in LinkNames : Whole(l)) =>
            /\ echoed \o DataIn(up) = Units(client.sent)
            /\ client.got \o down = echoed

\* Whenever one connection of a relayed session ends, by its peer, by a reset, a
\* failed connect or the end of a host, all sticks of the session end.
Ended(s) == hx.sticks[s].life \in {"none", "deleted"}
HangupPropagates ==
  (\E s \in Sticks : hx.sticks[s].life \in {"destroyed", "deleted"})
     ~> \A s \in Sticks : Ended(s)

\* Every message is answered, or the client sees its connection end.
MessagesAreAnswered ==
  (client.sent > Len(client.got)) ~> (client.sent = Len(client.got) \/ ~ ClientRuns)
=============================================================================
