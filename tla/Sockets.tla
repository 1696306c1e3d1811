------------------------------ MODULE Sockets -------------------------------
(***************************************************************************)
(* TCP sockets of the kernel, nonblocking and edge-triggered, as the       *)
(* proxies use them: a socket is a record and each system call an operator *)
(* from a socket to its next value.                                        *)
(*                                                                         *)
(* The data are units that are numbered by each remote host, so that loss, *)
(* duplication and reordering are visible.                                 *)
(***************************************************************************)
EXTENDS Naturals, Sequences, FiniteSets, FiniteSetsExt

CONSTANTS
  SendRoom     \* units the kernel buffers for a slow remote host

ASSUME SocketAssumption == SendRoom \in Nat \ {0}

Events == {"IN", "OUT", "RDHUP", "HUP"}

\* err: an error to be returned by the next call; dead: reset, nothing can be
\* sent any more; edge: is the socket on the ready list of epoll?
Socket ==
  [ open : BOOLEAN, connecting : BOOLEAN,
    unread : Seq(Nat), eof : BOOLEAN, err : BOOLEAN, dead : BOOLEAN,
    room : 0 .. SendRoom, sent : Seq(Nat),
    mask : SUBSET Events, edge : BOOLEAN ]

NoSocket ==
  [ open |-> FALSE, connecting |-> FALSE,
    unread |-> <<>>, eof |-> FALSE, err |-> FALSE, dead |-> FALSE,
    room |-> SendRoom, sent |-> <<>>,
    mask |-> {}, edge |-> FALSE ]

AcceptedSocket == [NoSocket EXCEPT !.open = TRUE]
ConnectingSocket == [NoSocket EXCEPT !.open = TRUE, !.connecting = TRUE]

\* The events poll finds; a hangup is reported whether it was asked for or not.
Ready(k) ==
  {e \in Events :
     \/ e = "IN" /\ (k.unread # <<>> \/ k.eof)
     \/ e = "OUT" /\ ~ k.connecting /\ (k.room > 0 \/ k.dead)
     \/ e = "RDHUP" /\ k.eof
     \/ e = "HUP" /\ k.dead}

Reported(k) == Ready(k) \cap (k.mask \cup {"HUP"})

\* epoll_ctl: an edge is seen at once if the socket is ready for the new mask.
\* Every registration of the program asks for RDHUP.
Arm(k, mask) ==
  LET armed == [k EXCEPT !.mask = mask \cup {"RDHUP"}]
  IN  [armed EXCEPT !.edge = Reported(armed) # {}]

\* Something happened to the socket that concerns event e.
Wake(k, e) == [k EXCEPT !.edge = @ \/ (k.open /\ e \in k.mask \cup {"HUP"})]

CloseSocket(k) ==
  [k EXCEPT !.open = FALSE, !.mask = {}, !.edge = FALSE]

\* send returns how much it took; Taken is 0 also when it fails.
Taken(k, n) == IF k.dead \/ k.connecting THEN 0 ELSE Min({n, k.room})
Send(k, data) ==
  LET n == Taken(k, Len(data))
  IN  [k EXCEPT !.room = @ - n, !.sent = @ \o SubSeq(data, 1, n),
                !.err = IF k.dead THEN FALSE ELSE @]

\* A read that finds no data returns 0 at the end of the stream and -1 otherwise.
ReadsEnd(k) == k.open /\ k.unread = <<>> /\ k.eof /\ ~ k.err
ReadsError(k) == [k EXCEPT !.err = FALSE]

-------------------------------------------------------------------------------
(* What the remote host and the network do to a socket. *)

Arrive(k, unit) == Wake([k EXCEPT !.unread = Append(@, unit)], "IN")
Finish(k) == Wake(Wake([k EXCEPT !.eof = TRUE], "IN"), "RDHUP")
Reset(k) ==
  Wake([k EXCEPT !.eof = TRUE, !.err = TRUE, !.dead = TRUE, !.connecting = FALSE], "HUP")
Drain(k, room) ==
  LET drained == [k EXCEPT !.room = room] IN IF k.room = 0 THEN Wake(drained, "OUT") ELSE drained
Establish(k) == Wake([k EXCEPT !.connecting = FALSE], "OUT")

Listening(k) == k.open /\ ~ k.connecting /\ ~ k.dead
=============================================================================
