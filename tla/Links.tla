-------------------------------- MODULE Links --------------------------------
(***************************************************************************)
(* TCP connections between two modelled programs, as the relays hen and    *)
(* octopus use them: nonblocking sockets that epoll reports level          *)
(* triggered.  A link has a near end, which connects, and a far end, which *)
(* is accepted.  The data are numbered units; what an end has not read yet *)
(* is in its queue, which stands for the receive buffer and for what is on *)
(* the way to it.                                                          *)
(***************************************************************************)
EXTENDS Integers, Sequences, FiniteSets, FiniteSetsExt

CONSTANT
  Room     \* units that fit between a sender and a reader who does not read

ASSUME RoomAssumption == Room \in Nat \ {0}

Ends == {"near", "far"}
Peer(e) == IF e = "near" THEN "far" ELSE "near"

\* eof: the peer closed; reset: nothing can be sent or received any more;
\* error: the reset has not been returned by a call yet.
End ==
  [ state : {"none", "connecting", "queued", "open", "closed"},
    in : Seq(Int), eof : BOOLEAN, reset : BOOLEAN, error : BOOLEAN ]

NoEnd == [state |-> "none", in |-> <<>>, eof |-> FALSE, reset |-> FALSE, error |-> FALSE]

NoLink == [e \in Ends |-> NoEnd]
Connecting == [NoLink EXCEPT !["near"].state = "connecting"]

HasFd(l, e) == l[e].state \in {"connecting", "open"}
RoomFor(l, e) == Room - Len(l[Peer(e)].in)

ResetEnd(end) == [end EXCEPT !.reset = TRUE, !.error = TRUE, !.eof = TRUE]

\* What poll finds; HUP stands for EPOLLERR and EPOLLHUP, which are always reported.
Ready(l, e) ==
  {event \in {"IN", "OUT", "RDHUP", "HUP"} :
     \/ event = "IN" /\ (l[e].in # <<>> \/ l[e].eof)
     \/ event = "OUT" /\ (l[e].reset \/ (l[e].state = "open" /\ RoomFor(l, e) > 0))
     \/ event = "RDHUP" /\ l[e].eof
     \/ event = "HUP" /\ l[e].reset}

Reported(l, e, mask) ==
  IF HasFd(l, e) THEN Ready(l, e) \cap (mask \cup {"HUP"}) ELSE {}

-------------------------------------------------------------------------------
(* The calls of a program on its end. *)

Accept(l) == [l EXCEPT !["far"].state = "open"]

\* send: how much the kernel takes.  What is sent to a closed peer is taken, and
\* answered with a reset.
Taken(l, e, n) ==
  IF l[e].state # "open" \/ l[e].reset THEN 0 ELSE Min({n, RoomFor(l, e)})

Send(l, e, data) ==
  LET n == Taken(l, e, Len(data))
  IN  IF n = 0 THEN [l EXCEPT ![e].error = FALSE]
      ELSE IF l[Peer(e)].state = "closed" THEN [l EXCEPT ![e] = ResetEnd(@)]
      ELSE [l EXCEPT ![Peer(e)].in = @ \o SubSeq(data, 1, n)]

\* send on a connection whose reset is known raises SIGPIPE.
RaisesSigpipe(l, e) == l[e].reset /\ ~ l[e].error

Consume(l, e, n) == [l EXCEPT ![e].in = SubSeq(@, n + 1, Len(@))]

\* A read that finds no data: an error, the end of the stream, or nothing yet.
ReadFails(l, e) == l[e].in = <<>> /\ l[e].error
ReadsEnd(l, e) == l[e].in = <<>> /\ l[e].eof /\ ~ l[e].error
ErrorRead(l, e) == [l EXCEPT ![e].error = FALSE]

\* close: the peer sees the end of the stream, or a reset if data were not read.
Close(l, e) ==
  IF ~ HasFd(l, e) THEN l
  ELSE LET p == Peer(e)
           closed == [l EXCEPT ![e] = [NoEnd EXCEPT !.state = "closed"]]
       IN  IF l[p].state \notin {"open", "queued"} THEN closed
           ELSE IF l[e].in # <<>> THEN [closed EXCEPT ![p] = ResetEnd(@)]
           ELSE [closed EXCEPT ![p].eof = TRUE]

-------------------------------------------------------------------------------
(* The network. *)

\* The handshake succeeds: the far end waits to be accepted.
Establish(l) == [l EXCEPT !["near"].state = "open", !["far"].state = "queued"]
Dialled == Establish(Connecting)
Refuse(l) == [l EXCEPT !["near"] = ResetEnd(@)]
Break(l) == [e \in Ends |-> IF HasFd(l, e) THEN ResetEnd(l[e]) ELSE l[e]]

\* The listening socket is closed: whoever waits to be accepted is reset.
Abandon(l) ==
  IF l["far"].state # "queued" THEN l
  ELSE [l EXCEPT !["near"] = ResetEnd(@), !["far"] = [NoEnd EXCEPT !.state = "closed"]]

UnderWay(l) == l["near"].state = "connecting" /\ ~ l["near"].reset
Carries(l) == l["near"].state = "open" /\ l["far"].state = "open"
=============================================================================
