----------------------------- MODULE EpollServer -----------------------------
(***************************************************************************)
(* SimpleEpollServer (src/base/simple_epoll_server): the registrations of  *)
(* file descriptors, the ready list, and the loop that turns what epoll    *)
(* reports into calls of OnEvent.  Alarms are in EpollAlarms.              *)
(*                                                                         *)
(* The server is the record eps; its methods are operators from one value  *)
(* of the record to the next.  They are called by the program between two  *)
(* rounds of the loop and by the callback whose OnEvent is running.        *)
(*                                                                         *)
(* The two intrusive lists are sets: within a round the order in which the *)
(* callbacks run is that of the array epoll filled in, which is arbitrary. *)
(***************************************************************************)
EXTENDS Naturals, FiniteSets

CONSTANTS
  Fds,        \* file descriptors the program opens
  Callbacks,  \* EpollCallbackInterface objects
  Events,     \* bits of an event mask
  Always,     \* the bits epoll reports whatever the mask (EPOLLERR, EPOLLHUP)
  Null,       \* a node without callback
  NoFd        \* no OnEvent is running

ASSUME EpollAssumption ==
  /\ Null \notin Callbacks
  /\ NoFd \notin Fds
  /\ Always \subseteq Events

VARIABLES
  eps,      \* the server
  running,  \* the OnEvent (or OnShutdown) call in progress: its fd and callback
  loop      \* "idle", "dispatch" (in CallReadyListCallbacks), "shutdown" or "down"

vars == <<eps, running, loop>>

Node == [cb : Callbacks \cup {Null}, mask : SUBSET Events,
         asserted : SUBSET Events, fake : SUBSET Events, inUse : BOOLEAN]

Known(s) == DOMAIN s.nodes
Live(s) == {fd \in Known(s) : s.nodes[fd].cb # Null}
Listed(s) == s.ready \cup s.tmp

SetNode(s, fd, node) ==
  [s EXCEPT !.nodes = [f \in DOMAIN @ \cup {fd} |-> IF f = fd THEN node ELSE @[f]]]
EraseNode(s, fd) == [s EXCEPT !.nodes = [f \in DOMAIN @ \ {fd} |-> @[f]]]

-------------------------------------------------------------------------------
(* epoll_ctl: a wrong operation is fatal. *)

AddFD(s, fd, mask) ==
  IF fd \in DOMAIN s.kernel THEN [s EXCEPT !.fatal = TRUE]
  ELSE [s EXCEPT !.kernel = [f \in DOMAIN @ \cup {fd} |->
                               IF f = fd THEN mask \cup Always ELSE @[f]]]

ModFD(s, fd, mask) ==
  IF fd \notin DOMAIN s.kernel THEN [s EXCEPT !.fatal = TRUE]
  ELSE [s EXCEPT !.kernel[fd] = mask \cup Always]

DelFD(s, fd) ==
  IF fd \notin DOMAIN s.kernel THEN [s EXCEPT !.fatal = TRUE]
  ELSE [s EXCEPT !.kernel = [f \in DOMAIN @ \ {fd} |-> @[f]]]

-------------------------------------------------------------------------------
(* The methods. *)

\* A node goes to the ready list unless it is on one of the two lists.
AddToReadyListInFront(s, fd) ==
  IF fd \in Listed(s) THEN s
  ELSE IF s.tmp # {} THEN [s EXCEPT !.tmp = @ \cup {fd}]
  ELSE [s EXCEPT !.ready = @ \cup {fd}]
AddToReadyList(s, fd) ==
  IF fd \in Listed(s) THEN s ELSE [s EXCEPT !.ready = @ \cup {fd}]

RemoveFromReadyList(s, fd) == [s EXCEPT !.ready = @ \ {fd}, !.tmp = @ \ {fd}]

\* Register a callback: replace another one, recycle a node whose callback is
\* gone, or make a new node.
RegisterFDByMod(s, fd, cb, mask) ==
  LET old == s.nodes[fd]
      node == [old EXCEPT !.cb = cb, !.mask = mask, !.fake = {}]
  IN  IF fd \notin Known(s)
      THEN SetNode(AddFD(s, fd, mask), fd,
                   [cb |-> cb, mask |-> mask, asserted |-> {}, fake |-> {}, inUse |-> FALSE])
      ELSE SetNode(ModFD(RemoveFromReadyList(s, fd), fd, mask), fd, node)
RegisterFD(s, fd, cb, mask) ==
  LET old == s.nodes[fd]
      node == [old EXCEPT !.cb = cb, !.mask = mask, !.fake = {}]
  IN  IF fd \notin Known(s)
      THEN SetNode(AddFD(s, fd, mask), fd,
                   [cb |-> cb, mask |-> mask, asserted |-> {}, fake |-> {}, inUse |-> FALSE])
      ELSE IF old.cb # Null
      THEN SetNode(ModFD(RemoveFromReadyList(s, fd), fd, mask), fd, node)
      ELSE SetNode(AddFD(s, fd, mask), fd, node)

\* Unregister a callback.  The node of a running OnEvent is kept, without it.
UnregisterFDKeepingNode(s, fd) ==
  IF fd \notin Live(s) THEN s
  ELSE [DelFD(s, fd) EXCEPT !.nodes[fd] = [@ EXCEPT !.cb = Null, !.mask = {}, !.fake = {}]]
UnregisterFDStayingListed(s, fd) ==
  LET t == DelFD(s, fd)
  IN  IF fd \notin Live(s) THEN s
      ELSE IF s.nodes[fd].inUse
      THEN [t EXCEPT !.nodes[fd] = [@ EXCEPT !.cb = Null, !.mask = {}, !.fake = {}]]
      ELSE EraseNode(t, fd)
UnregisterFD(s, fd) ==
  LET t == DelFD(RemoveFromReadyList(s, fd), fd)
  IN  IF fd \notin Live(s) THEN s
      ELSE IF s.nodes[fd].inUse
      THEN [t EXCEPT !.nodes[fd] = [@ EXCEPT !.cb = Null, !.mask = {}, !.fake = {}]]
      ELSE EraseNode(t, fd)

ModifyCallback(s, fd, mask) ==
  IF fd \notin Live(s) THEN s
  ELSE [ModFD(s, fd, mask) EXCEPT !.nodes[fd].mask = mask]

SetFDReady(s, fd, events) ==
  IF fd \notin Live(s) THEN s
  ELSE AddToReadyList([s EXCEPT !.nodes[fd].fake = events], fd)

SetFDNotReady(s, fd) == IF fd \notin Known(s) THEN s ELSE RemoveFromReadyList(s, fd)

\* HandleEvent for each descriptor epoll reported: overwrites what it reported
\* before; descriptors without a callback are ignored.
HandleEvents(s, events) ==
  LET seen == DOMAIN events \cap Live(s)
  IN  [s EXCEPT
        !.nodes = [f \in DOMAIN @ |->
                     IF f \in seen THEN [@[f] EXCEPT !.asserted = events[f]] ELSE @[f]],
        !.ready = @ \cup (seen \ s.tmp)]

-------------------------------------------------------------------------------
(* Calls of the program. *)

NotRunning == [fd |-> NoFd, cb |-> Null, events |-> {}, out |-> {}]

Init ==
  /\ eps = [nodes |-> <<>>, kernel |-> <<>>, ready |-> {}, tmp |-> {}, fatal |-> FALSE]
  /\ running = NotRunning
  /\ loop = "idle"

\* Any method, called between rounds or from the callback that is running.
\* Nothing but UnregisterFD is called while the server shuts down.
ApiCall ==
  /\ loop = "idle" \/ running # NotRunning
  /\ \E fd \in Fds :
       \/ eps' = UnregisterFD(eps, fd)
       \/ /\ loop # "shutdown"
          /\ \/ \E cb \in Callbacks, mask \in SUBSET (Events \ Always) :
                  eps' = RegisterFD(eps, fd, cb, mask)
             \/ \E mask \in SUBSET (Events \ Always) : eps' = ModifyCallback(eps, fd, mask)
             \/ \E events \in SUBSET Events : eps' = SetFDReady(eps, fd, events)
             \/ eps' = SetFDNotReady(eps, fd)
  /\ UNCHANGED <<running, loop>>

\* The callback asks to stay on the ready list with a mask (out_ready_mask).
SetOutReadyMask ==
  /\ loop = "dispatch" /\ running # NotRunning
  /\ \E events \in SUBSET Events : running' = [running EXCEPT !.out = events]
  /\ UNCHANGED <<eps, loop>>

-------------------------------------------------------------------------------
(* The loop. *)

\* epoll_wait returns; all that is reported is marked before any callback runs,
\* and the ready list becomes the list of this round.
Wait ==
  /\ loop = "idle"
  /\ \E reported \in SUBSET DOMAIN eps.kernel :
       \E events \in [reported -> (SUBSET Events) \ {{}}] :
         LET marked == HandleEvents(eps, events) IN
         /\ \A f \in reported : events[f] \subseteq eps.kernel[f]
         /\ eps' = [marked EXCEPT !.ready = {}, !.tmp = marked.ready]
         /\ loop' = IF marked.ready = {} THEN "idle" ELSE "dispatch"
  /\ UNCHANGED running

\* Call OnEvent of a listed node with the events reported and faked for it.
CallOnEvent ==
  /\ loop = "dispatch" /\ running = NotRunning
  /\ \E fd \in eps.tmp :
       LET node == eps.nodes[fd] IN
       /\ running' = [fd |-> fd, cb |-> node.cb,
                      events |-> node.asserted \cup node.fake, out |-> {}]
       /\ eps' = [RemoveFromReadyList(eps, fd) EXCEPT
                    !.nodes[fd] = [@ EXCEPT !.asserted = {}, !.fake = {}, !.inUse = TRUE]]
  /\ UNCHANGED loop

\* OnEvent returns: the node goes if its callback went, and is listed again if
\* the callback asked for it.
AfterOnEventKeepingNode(s, fd, out) ==
  LET t == [s EXCEPT !.nodes[fd].inUse = FALSE]
  IN  IF s.nodes[fd].cb # Null /\ out # {}
      THEN AddToReadyList([t EXCEPT !.nodes[fd].fake = out], fd)
      ELSE t
AfterOnEvent(s, fd, out) ==
  LET t == [s EXCEPT !.nodes[fd].inUse = FALSE]
  IN  IF s.nodes[fd].cb = Null THEN EraseNode(t, fd)
      ELSE IF out # {} THEN AddToReadyList([t EXCEPT !.nodes[fd].fake = out], fd)
      ELSE t

OnEventReturns ==
  /\ loop = "dispatch" /\ running # NotRunning
  /\ eps' = AfterOnEvent(eps, running.fd, running.out)
  /\ running' = NotRunning
  /\ loop' = IF eps.tmp = {} THEN "idle" ELSE "dispatch"

-------------------------------------------------------------------------------
(* The destructor. *)

Shutdown ==
  /\ loop = "idle"
  /\ loop' = "shutdown"
  /\ UNCHANGED <<eps, running>>

CallOnShutdown ==
  /\ loop = "shutdown" /\ running = NotRunning
  /\ \E fd \in Known(eps) :
       /\ running' = [NotRunning EXCEPT !.fd = fd, !.cb = eps.nodes[fd].cb]
       /\ eps' = [eps EXCEPT !.nodes[fd].inUse = TRUE]
  /\ UNCHANGED loop

\* The entry is erased after OnShutdown whatever became of it.
OnShutdownReturns ==
  /\ loop = "shutdown" /\ running # NotRunning
  /\ eps' = EraseNode(eps, running.fd)
  /\ running' = NotRunning
  /\ UNCHANGED loop

Down ==
  /\ loop = "shutdown" /\ running = NotRunning /\ Known(eps) = {}
  /\ loop' = "down"
  /\ eps' = [eps EXCEPT !.ready = {}, !.tmp = {}]
  /\ UNCHANGED running

Next ==
  \/ ApiCall \/ SetOutReadyMask
  \/ Wait \/ CallOnEvent \/ OnEventReturns
  \/ Shutdown \/ CallOnShutdown \/ OnShutdownReturns \/ Down

\* The thread runs its loop, and every callback returns.
Fairness ==
  /\ WF_vars(Wait) /\ WF_vars(CallOnEvent) /\ WF_vars(OnEventReturns)

Spec == Init /\ [][Next]_vars
FairSpec == Spec /\ Fairness

-------------------------------------------------------------------------------
(* Properties. *)

TypeOK ==
  /\ Known(eps) \subseteq Fds /\ \A fd \in Known(eps) : eps.nodes[fd] \in Node
  /\ eps.ready \subseteq Fds /\ eps.tmp \subseteq Fds
  /\ running = NotRunning \/ (running.fd \in Fds /\ running.cb \in Callbacks)
  /\ loop \in {"idle", "dispatch", "shutdown", "down"}

\* The loop calls cb_and_mask->cb without looking: a node on either list has a
\* callback, and it is on one list only.
ListedNodesAreLive ==
  loop \in {"idle", "dispatch"} =>
    /\ Listed(eps) \subseteq Live(eps)
    /\ eps.ready \cap eps.tmp = {}

\* No epoll_ctl ever fails: through every registration, replacement, recycling
\* and removal, from within and from outside callbacks, the kernel watches
\* exactly the descriptors with a callback, for the mask they registered.
KernelAgrees ==
  /\ ~ eps.fatal
  /\ loop \in {"idle", "dispatch"} =>
       /\ DOMAIN eps.kernel = Live(eps)
       /\ \A fd \in Live(eps) : eps.kernel[fd] = eps.nodes[fd].mask \cup Always

\* The node of the OnEvent that is running stays in the map until it returns,
\* and a node without callback is never left behind for longer than that.
RunningNodeIsKept ==
  /\ running # NotRunning => running.fd \in Known(eps) /\ eps.nodes[running.fd].inUse
  /\ \A fd \in Known(eps) \ Live(eps) : fd = running.fd

\* The lists, the map of nodes, the running callback and the kernel's interest set
\* describe the same registrations after every call, wherever it was made from.
RegistryAgrees == TypeOK /\ ListedNodesAreLive /\ KernelAgrees /\ RunningNodeIsKept

\* A listed descriptor is called or unlisted in the end, even if every callback
\* puts itself back on the ready list each time it is called.
ListedIsServed ==
  \A fd \in Fds :
    fd \in Listed(eps) ~> (fd \notin Listed(eps) \/ loop \in {"shutdown", "down"})
==============================================================================
