-------------------------------- MODULE Dash --------------------------------
(***************************************************************************)
(* The video player and the segment server of src/dash.  The player asks   *)
(* for one segment at a time, by its size, and plays what it has received  *)
(* frame by frame from an alarm; a second alarm delays requests.  Client   *)
(* and server are two processes, each with one epoll loop.                 *)
(*                                                                         *)
(* The client's round is split where the other side can interfere: after   *)
(* epoll_wait has returned, and before each alarm.  When an alarm is due   *)
(* is left open, so that rounds may be as late as they like.               *)
(***************************************************************************)
EXTENDS Links, BaseContext

CONSTANTS
  Segments,      \* segments of the video
  InitSegments,  \* init_segments_: received before the player starts
  Frames,        \* frames_in_segment_
  Sizes          \* sizes of a segment, over all qualities, in units of data

ASSUME DashAssumption ==
  /\ Segments \in Nat \ {0} /\ InitSegments \in 1 .. Segments
  /\ Frames \in Nat \ {0}
  /\ Sizes \subseteq Nat \ {0} /\ IsFiniteSet(Sizes)

Data == 0      \* a unit of a segment; a unit to the server is a request, with the size it asks for
Alarms == {"player", "request"}

VARIABLES
  link,   \* near: the player's socket, far: the endpoint's
  c,      \* the player and its process
  s,      \* the endpoint and its process
  faults  \* what the processes and the network did beyond the protocol

vars == <<link, c, s, faults>>

\* predicts: the algorithm uses BandwidthPredicator; report: what epoll_wait returned; due: the alarms to call in this round;
\* index, size, read, inBuffer, frames, played, count: index_, segment_bytes_,
\* read_bytes_, segments_in_buffer_, played_frames_ modulo frames_in_segment_,
\* playback_index_ and segment_counter_.
Client ==
  [ pc : {"wait", "serve", "alarms", "ended", "killed", "spins", "aborted"},
    predicts : BOOLEAN, running : BOOLEAN, report : SUBSET {"IN", "OUT", "RDHUP", "HUP"},
    status : {"connecting", "connected", "disconnected"},
    player : {"not_started", "init_buffering", "play", "paused", "done"},
    alarms : SUBSET Alarms, due : SUBSET Alarms,
    index : 0 .. Segments, size : Sizes \cup {0}, read : Nat,
    inBuffer : 0 .. Segments, frames : 0 .. Frames - 1, played : 0 .. Segments,
    count : 0 .. Segments ]

\* edge: the descriptor is still registered edge triggered; queue: request_bytes_.
Server ==
  [ life : {"none", "live", "destroyed", "deleted"}, edge : BOOLEAN, out : BOOLEAN,
    queue : Seq(Sizes), sent : Nat, host : Context({"endpoint"}) ]

Stopped == {"ended", "killed", "spins", "aborted"}
ClientState == [link |-> link, c |-> c]

-------------------------------------------------------------------------------
(* The player.  x is [link, c]. *)

\* Close, after UnregisterFD.
CloseClient(x) ==
  IF ~ HasFd(x.link, "near") THEN x
  ELSE [x EXCEPT !.link = Close(@, "near"), !.c.status = "disconnected"]

ClientEnds(x, how) == [CloseClient(x) EXCEPT !.c.pc = how]

\* The bytes of the request; the result of write is not looked at.
SendRequest(x) ==
  IF ~ HasFd(x.link, "near") THEN x
  ELSE IF RaisesSigpipe(x.link, "near") THEN ClientEnds(x, "killed")
  ELSE [x EXCEPT !.link = Send(@, "near", <<x.c.size>>)]

DelayRequestHandle(x) ==
  IF x.c.index < Segments THEN [SendRequest(x) EXCEPT !.c.index = @ + 1] ELSE x

\* The quality, and so the size, and the delay are what the algorithm says.
RequestWithoutReset(x) ==
  UNION { LET asked == [x EXCEPT !.c.size = size]
          IN  {DelayRequestHandle(asked), [asked EXCEPT !.c.alarms = @ \cup {"request"}]}
        : size \in Sizes }
RequestSegment(x) ==
  UNION { LET asked == [x EXCEPT !.c.read = 0, !.c.size = size]
          IN  {DelayRequestHandle(asked), [asked EXCEPT !.c.alarms = @ \cup {"request"}]}
        : size \in Sizes }

\* The play back alarm set to now belongs to the alarms of the same round.
StartPlayer(p) ==
  [p EXCEPT !.player = "play", !.alarms = @ \cup {"player"}, !.due = @ \cup {"player"}]
CheckOnlyInit(p) ==
  IF p.player = "init_buffering" /\ p.inBuffer >= InitSegments THEN StartPlayer(p) ELSE p
CheckBufferStatus(p) ==
  IF \/ p.player = "init_buffering" /\ p.inBuffer >= InitSegments
     \/ p.player = "paused" /\ p.inBuffer > 0
  THEN StartPlayer(p) ELSE p

\* A frame is played, the last one of a segment frees it; an empty buffer pauses
\* the player or ends the session.
PlayFrame(p) ==
  IF p.inBuffer = 0 THEN p
  ELSE LET last == (p.frames + 1) % Frames = 0
       IN  [p EXCEPT !.frames = (p.frames + 1) % Frames,
                     !.inBuffer = IF last THEN @ - 1 ELSE @,
                     !.played = IF last THEN @ + 1 ELSE @]
PlayOn(p) ==
  LET q == PlayFrame(p)
  IN  IF q.inBuffer > 0 THEN [q EXCEPT !.alarms = @ \cup {"player"}]
      ELSE [q EXCEPT !.player = IF q.played >= Segments THEN "done" ELSE "paused"]
PlayBackHandle(x) == [x EXCEPT !.c = PlayOn(@)]

\* The end of the read loop.  An end of file unregisters the descriptor, and the
\* loop goes on to read it again.
ReadEnd(x) ==
  IF ~ HasFd(x.link, "near") THEN x
  ELSE IF ReadsEnd(x.link, "near") THEN [x EXCEPT !.c.pc = "spins"]
  ELSE IF ReadFails(x.link, "near") THEN [x EXCEPT !.link = ErrorRead(@, "near")]
  ELSE x

BufferSegment(p) == CheckBufferStatus([p EXCEPT !.count = @ + 1, !.inBuffer = @ + 1])

\* A segment is complete when exactly its bytes were read.  The time is that of the
\* round: a segment read at once took none, at which Predict aborts the program.
SegmentDone(x, atOnce) ==
  LET got == [x EXCEPT !.c = BufferSegment(@)]
  IN  IF got.c.index = Segments THEN {CloseClient(got)}
      ELSE IF atOnce /\ got.c.predicts THEN {ClientEnds(got, "aborted")}
      ELSE {ReadEnd(y) : y \in RequestSegment(got)}
OnReadEvent(x) ==
  LET data == x.link["near"].in
      got == [x EXCEPT !.link = Consume(@, "near", Len(data)), !.c.read = @ + Len(data)]
  IN  IF ~ HasFd(x.link, "near") THEN {x}
      ELSE IF data # <<>> /\ got.c.read = got.c.size THEN SegmentDone(got, x.c.read = 0)
      ELSE {ReadEnd(got)}

OnConnected(x) == RequestSegment([x EXCEPT !.c.status = "connected", !.c.player = "init_buffering"])

\* A hangup ends the player; the other bits of the report then find no socket.
OnEvent(x, report) ==
  LET up == IF report \cap {"RDHUP", "HUP"} # {} THEN [CloseClient(x) EXCEPT !.c.player = "done"] ELSE x
      read == IF "IN" \in report THEN OnReadEvent(up) ELSE {up}
  IN  UNION { IF "OUT" \in report /\ y.c.status = "connecting" THEN OnConnected(y) ELSE {y} : y \in read }

\* AsynConnect and main: without a socket the program ends; a connect that fails at
\* once is found by epoll like one that fails later.
AsynConnect == {Connecting, Refuse(Connecting), NoLink}

Init ==
  /\ link \in AsynConnect
  /\ \E predicts \in BOOLEAN :
     c = [ predicts |-> predicts, pc |-> IF link = NoLink THEN "ended" ELSE "wait", running |-> TRUE, report |-> {},
           status |-> IF link = NoLink THEN "disconnected" ELSE "connecting",
           player |-> "not_started", alarms |-> {}, due |-> {}, index |-> 0, size |-> 0,
           read |-> 0, inBuffer |-> 0, frames |-> 0, played |-> 0, count |-> 0 ]
  /\ s = [ life |-> "none", edge |-> TRUE, out |-> FALSE, queue |-> <<>>, sent |-> 0,
           host |-> NewContext ]
  /\ faults = IF link = Connecting THEN {} ELSE {"refused"}

ClientDoes(x) == link' = x.link /\ c' = x.c /\ UNCHANGED <<s, faults>>

Mask == IF c.status = "connecting" THEN {"IN", "OUT", "RDHUP"} ELSE {"IN", "RDHUP"}

\* epoll_wait returns: events, alarms that are due, or the signal.
WaitForEvents ==
  LET report == Reported(link, "near", Mask)
  IN  /\ c.pc = "wait"
      /\ \E due \in SUBSET c.alarms :
           /\ report # {} \/ due # {} \/ ~ c.running
           /\ ClientDoes([link |-> link, c |-> [c EXCEPT !.pc = "serve", !.report = report, !.due = due]])

ServeEvents ==
  /\ c.pc = "serve"
  /\ \E x \in OnEvent(ClientState, c.report) :
       ClientDoes([x EXCEPT !.c.report = {}, !.c.pc = IF @ = "serve" THEN "alarms" ELSE @])

CallAlarm(alarm) ==
  LET x == [ClientState EXCEPT !.c.due = @ \ {alarm}, !.c.alarms = @ \ {alarm}]
  IN  /\ c.pc = "alarms" /\ alarm \in c.due
      /\ ClientDoes(IF alarm = "player" THEN PlayBackHandle(x) ELSE DelayRequestHandle(x))

\* The loop of main, and the destructor of the player behind it.
EndRound ==
  /\ c.pc = "alarms" /\ c.due = {}
  /\ ClientDoes(IF c.player = "done" \/ ~ c.running THEN ClientEnds(ClientState, "ended")
                ELSE [ClientState EXCEPT !.c.pc = "wait"])

-------------------------------------------------------------------------------
(* The endpoint of the server.  x is [link, s]. *)

ServerState == [link |-> link, s |-> s]
CloseEndpoint(x) == [x EXCEPT !.link = Close(@, "far")]

\* The process ends: the kernel closes what it had, and who waits to be accepted.
ServerEnds(x) ==
  [x EXCEPT !.link = Close(Abandon(@), "far"), !.s.life = IF @ = "none" THEN @ ELSE "deleted",
            !.s.host = Destroy(@)]

DeleteSelf(x) ==
  IF x.s.life # "live" THEN x
  ELSE [x EXCEPT !.s.life = "destroyed", !.s.host = PostTask(@, "endpoint")]
OnlyClose(x) == CloseEndpoint(x)
OnUnregistration(x) == DeleteSelf(CloseEndpoint(x))

\* The first request is answered, as far as the socket takes the bytes.
AnswerFirst(x) ==
  LET owed == Head(x.s.queue) - x.s.sent
      n == Taken(x.link, "far", owed)
      sent == [x EXCEPT !.link = Send(@, "far", [i \in 1 .. owed |-> Data])]
  IN  IF RaisesSigpipe(x.link, "far") THEN ServerEnds(x)
      ELSE IF n < owed THEN [sent EXCEPT !.s.sent = @ + n]
      ELSE [sent EXCEPT !.s.queue = Tail(@), !.s.sent = 0, !.s.out = Len(x.s.queue) > 1]

\* Requests are answered in turn, the next one when all before it are done with.
Responce(x) ==
  LET requests == Len(x.s.queue)
      after[k \in 0 .. requests] ==
        IF k = 0 THEN x
        ELSE LET y == after[k - 1]
             IN  IF Len(y.s.queue) = requests - (k - 1) THEN AnswerFirst(y) ELSE y
  IN  after[requests]

\* One request is taken from what was read, and the descriptor is level triggered
\* from then on.
TakeLost(x) ==
  LET requests == x.link["far"].in
  IN  IF requests = <<>> THEN x
      ELSE [x EXCEPT !.link = Consume(@, "far", Len(requests)), !.s.queue = Append(@, Head(requests)), !.s.edge = FALSE]
TakeRequest(x) ==
  LET requests == x.link["far"].in
  IN  IF requests = <<>> THEN x
      ELSE Responce([x EXCEPT !.link = Consume(@, "far", Len(requests)), !.s.queue = Append(@, Head(requests)),
                              !.s.edge = FALSE, !.s.out = TRUE])
EndpointReadEvent(x) ==
  LET y == TakeRequest(x)
  IN  IF ~ HasFd(y.link, "far") THEN y
      ELSE IF ReadsEnd(y.link, "far") THEN OnUnregistration(y)
      ELSE IF ReadFails(y.link, "far") THEN [y EXCEPT !.link = ErrorRead(@, "far")]
      ELSE y

ServerDoes(x) == InLoop(s.host) /\ link' = x.link /\ s' = x.s /\ UNCHANGED <<c, faults>>

CreateEndpoint ==
  /\ link["far"].state = "queued"
  /\ ServerDoes([ServerState EXCEPT !.link = Accept(@), !.s.life = "live"])

\* Edge triggered, an error that was read is not reported again.
EndpointEvents ==
  LET report == Reported(link, "far", IF s.out THEN {"IN", "OUT"} ELSE {"IN"})
  IN  IF s.edge /\ link["far"].in = <<>> /\ RaisesSigpipe(link, "far") THEN {} ELSE report
EndpointOnEvent ==
  LET read == IF "IN" \in EndpointEvents THEN EndpointReadEvent(ServerState) ELSE ServerState
  IN  /\ s.life = "live" /\ EndpointEvents # {}
      /\ ServerDoes(IF "OUT" \in EndpointEvents /\ HasFd(read.link, "far") THEN Responce(read) ELSE read)

RunTasks ==
  /\ s.host.tasks # <<>>
  /\ ServerDoes([ServerState EXCEPT !.s.life = "deleted", !.s.host = ExecuteTask(@)])

ServerExits == LoopEnds(s.host) /\ ServerDoes(ServerEnds(ServerState))

-------------------------------------------------------------------------------
(* The network and the signals. *)

Fault(f) == f \notin faults /\ faults' = faults \cup {f}
NetworkDoes(l) == link' = l /\ UNCHANGED <<c, s>>

Established == UnderWay(link) /\ InLoop(s.host) /\ NetworkDoes(Establish(link)) /\ UNCHANGED faults
Refused == UnderWay(link) /\ NetworkDoes(Refuse(link)) /\ Fault("refused")
Breaks == Carries(link) /\ ~ link["near"].reset /\ NetworkDoes(Break(link)) /\ Fault("broken")
SignalClient ==
  /\ c.pc \notin Stopped /\ Fault("client") /\ c' = [c EXCEPT !.running = FALSE] /\ UNCHANGED <<link, s>>
SignalServer ==
  /\ InLoop(s.host) /\ Fault("server") /\ s' = [s EXCEPT !.host = Stop(@)] /\ UNCHANGED <<link, c>>

ClientServes == WaitForEvents \/ ServeEvents \/ EndRound \/ \E alarm \in Alarms : CallAlarm(alarm)
ServerServes == CreateEndpoint \/ EndpointOnEvent \/ RunTasks \/ ServerExits

Progress == ClientServes \/ ServerServes \/ Established \/ Refused

Next == Progress \/ Breaks \/ SignalClient \/ SignalServer

\* Both loops go on, set alarms go off, and an attempt to connect ends one way or the
\* other; the signals and the network stop by themselves.  No part can change the
\* state for ever, so that it is enough to ask for some part to move.
Fairness == WF_vars(Progress)

Spec == Init /\ [][Next]_vars /\ Fairness

-------------------------------------------------------------------------------
(* Properties. *)

\* Type invariant.
TypeOK ==
  /\ link \in [Ends -> End] /\ c \in Client /\ s \in Server
  /\ faults \subseteq {"refused", "broken", "client", "server"}

\* Every segment received is in the buffer or played; the play back alarm is set while
\* the player plays, which it does while there is something to play; and a player
\* that is done has played the whole video or has lost its connection.
PlayerAgrees ==
  /\ TypeOK
  /\ c.count = c.inBuffer + c.played
  /\ c.player \in {"not_started", "init_buffering"} => c.played = 0 /\ c.inBuffer < InitSegments
  /\ c.player = "play" => c.inBuffer > 0 /\ "player" \in c.alarms
  /\ c.player = "paused" => c.inBuffer = 0 /\ c.count < Segments
  /\ c.player = "done" => c.played = Segments \/ faults # {}

\* While the connection lasts the bytes of the segment that was asked for are, each
\* once, read by the player, on the way, or still owed by the endpoint; the player has
\* one request under way, or the alarm of a delayed one and nothing else.
Whole == \A e \in Ends : link[e].state \in {"open", "queued"} /\ ~ link[e].reset
RequestAccounted ==
  LET requests == link["far"].in \o s.queue
      owed == (IF requests = <<>> THEN 0 ELSE Head(requests)) - s.sent
  IN  Whole /\ c.status = "connected" =>
        /\ Len(requests) <= 1
        /\ IF "request" \in c.alarms
           THEN c.index = c.count /\ c.read + Len(link["near"].in) + owed = 0
           ELSE c.index = c.count + 1 /\ c.read + Len(link["near"].in) + owed = c.size

\* The program ends with the whole video played, unless a process was told to stop, the
\* connection was refused or broken, or a download took no time.
PlaybackEnds == <>((c.pc = "ended" /\ c.played = Segments) \/ c.pc = "aborted" \/ faults # {})

\* An endpoint that has seen a request goes when its client has gone; before that the
\* edge triggered descriptor may lose the reset.
EndpointGoes ==
  (~ HasFd(link, "near") /\ s.life = "live" /\ (~ s.edge \/ ~ link["far"].reset)) ~> (s.life # "live")
=============================================================================
