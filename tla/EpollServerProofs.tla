-------------------------- MODULE EpollServerProofs --------------------------
(***************************************************************************)
(* The registry of the event loop stays consistent, for any descriptors,   *)
(* callbacks and event bits, whatever is registered, replaced, removed or  *)
(* re-registered between the rounds and from within running callbacks.     *)
(*                                                                         *)
(* RegistryAgrees is not inductive: a node is freed or kept by its in_use  *)
(* bit, which has to be that of the one running callback; and while the    *)
(* destructor runs the kernel still watches all that have a callback, and  *)
(* more.                                                                   *)
(***************************************************************************)
EXTENDS EpollServer, TLAPS

NodeMaps == UNION {[S -> Node] : S \in SUBSET Fds}
InterestSets == UNION {[S -> SUBSET Events] : S \in SUBSET Fds}
Servers == [nodes : NodeMaps, kernel : InterestSets,
            ready : SUBSET Fds, tmp : SUBSET Fds, fatal : {FALSE}]
Calls == [fd : Fds, cb : Callbacks, events : SUBSET Events, out : SUBSET Events]

\* Nothing failed, and only the node of running callback fd is in use or without callback.
NodesAgree(s, fd) ==
  /\ s \in Servers
  /\ fd \in Known(s) \cup {NoFd}
  /\ \A f \in Known(s) : s.nodes[f].inUse <=> f = fd
  /\ \A f \in Known(s) \ Live(s) : f = fd

Watched(s) ==
  /\ DOMAIN s.kernel = Live(s)
  /\ \A fd \in Live(s) : s.kernel[fd] = s.nodes[fd].mask \cup Always

ListsAgree(s) == Listed(s) \subseteq Live(s) /\ s.ready \cap s.tmp = {}

Serving(s) == Watched(s) /\ ListsAgree(s)

\* In the destructor.
Covered(s) == Live(s) \subseteq DOMAIN s.kernel

RegistryInv ==
  /\ running \in Calls \cup {NotRunning}
  /\ loop \in {"idle", "dispatch", "shutdown", "down"}
  /\ NodesAgree(eps, running.fd)
  /\ loop \in {"idle", "dispatch"} => Serving(eps)
  /\ loop = "shutdown" => Covered(eps)
  /\ loop \in {"idle", "down"} => running = NotRunning

-------------------------------------------------------------------------------
(* Partial functions. *)

LEMMA NodeMapsHave ==
  ASSUME NEW nodes \in NodeMaps
  PROVE  DOMAIN nodes \in SUBSET Fds /\ nodes \in [DOMAIN nodes -> Node]
  BY DEF NodeMaps

LEMMA NodeMapsGet ==
  ASSUME NEW S \in SUBSET Fds, NEW nodes \in [S -> Node]
  PROVE  nodes \in NodeMaps /\ DOMAIN nodes = S
  BY DEF NodeMaps

LEMMA InterestSetsHave ==
  ASSUME NEW kernel \in InterestSets
  PROVE  DOMAIN kernel \in SUBSET Fds /\ kernel \in [DOMAIN kernel -> SUBSET Events]
  BY DEF InterestSets

LEMMA InterestSetsGet ==
  ASSUME NEW S \in SUBSET Fds, NEW kernel \in [S -> SUBSET Events]
  PROVE  kernel \in InterestSets /\ DOMAIN kernel = S
  BY DEF InterestSets

LEMMA ServerParts ==
  ASSUME NEW s \in Servers
  PROVE  /\ s.nodes \in NodeMaps /\ s.kernel \in InterestSets /\ s.fatal = FALSE
         /\ s.ready \in SUBSET Fds /\ s.tmp \in SUBSET Fds
         /\ Known(s) \in SUBSET Fds /\ s.nodes \in [Known(s) -> Node]
         /\ \A f \in Known(s) : s.nodes[f] \in Node /\ s.nodes[f].inUse \in BOOLEAN
  BY NodeMapsHave DEF Servers, Known, Node

-------------------------------------------------------------------------------
(* What the steps of the methods leave. *)

LEMMA SetNodeLeaves ==
  ASSUME NEW s \in Servers, NEW fd \in Fds, NEW node \in Node
  PROVE  LET t == SetNode(s, fd, node)
         IN  /\ t \in Servers /\ t.kernel = s.kernel /\ t.ready = s.ready /\ t.tmp = s.tmp
             /\ Known(t) = Known(s) \cup {fd}
             /\ t.nodes[fd] = node
             /\ \A f \in Known(s) \ {fd} : t.nodes[f] = s.nodes[f]
<1>. DEFINE nodes == [f \in Known(s) \cup {fd} |-> IF f = fd THEN node ELSE s.nodes[f]]
<1>1. SetNode(s, fd, node) = [s EXCEPT !.nodes = nodes]
  BY DEF SetNode, Known
<1>2. Known(s) \cup {fd} \in SUBSET Fds /\ nodes \in [Known(s) \cup {fd} -> Node]
  BY ServerParts
<1>3. nodes \in NodeMaps /\ DOMAIN nodes = Known(s) \cup {fd}
  BY <1>2, NodeMapsGet
<1>4. nodes[fd] = node /\ \A f \in Known(s) \ {fd} : nodes[f] = s.nodes[f]
  OBVIOUS
<1>. HIDE DEF nodes
<1>. QED  BY <1>1, <1>3, <1>4 DEF Servers, Known

LEMMA EraseNodeLeaves ==
  ASSUME NEW s \in Servers, NEW fd \in Fds
  PROVE  LET t == EraseNode(s, fd)
         IN  /\ t \in Servers /\ t.kernel = s.kernel /\ t.ready = s.ready /\ t.tmp = s.tmp
             /\ Known(t) = Known(s) \ {fd}
             /\ \A f \in Known(s) \ {fd} : t.nodes[f] = s.nodes[f]
<1>. DEFINE nodes == [f \in Known(s) \ {fd} |-> s.nodes[f]]
<1>1. EraseNode(s, fd) = [s EXCEPT !.nodes = nodes]
  BY DEF EraseNode, Known
<1>2. Known(s) \ {fd} \in SUBSET Fds /\ nodes \in [Known(s) \ {fd} -> Node]
  BY ServerParts
<1>3. nodes \in NodeMaps /\ DOMAIN nodes = Known(s) \ {fd}
  BY <1>2, NodeMapsGet
<1>4. \A f \in Known(s) \ {fd} : nodes[f] = s.nodes[f]
  OBVIOUS
<1>. HIDE DEF nodes
<1>. QED  BY <1>1, <1>3, <1>4 DEF Servers, Known

\* A change of a node that exists.
LEMMA ChangedNode ==
  ASSUME NEW s \in Servers, NEW fd \in Known(s), NEW node
  PROVE  [s EXCEPT !.nodes[fd] = node] = SetNode(s, fd, node)
<1>1. Known(s) \cup {fd} = Known(s)
  OBVIOUS
<1>2. [s.nodes EXCEPT ![fd] = node] = [f \in Known(s) |-> IF f = fd THEN node ELSE s.nodes[f]]
  BY ServerParts DEF Known
<1>. QED  BY <1>1, <1>2 DEF SetNode, Known

WithInterest(s, fd, mask) ==
  [s EXCEPT !.kernel = [f \in DOMAIN @ \cup {fd} |-> IF f = fd THEN mask \cup Always ELSE @[f]]]

LEMMA WithInterestLeaves ==
  ASSUME NEW s \in Servers, NEW fd \in Fds, NEW mask \in SUBSET Events
  PROVE  LET t == WithInterest(s, fd, mask)
         IN  /\ t \in Servers /\ t.nodes = s.nodes /\ t.ready = s.ready /\ t.tmp = s.tmp
             /\ DOMAIN t.kernel = DOMAIN s.kernel \cup {fd}
             /\ t.kernel[fd] = mask \cup Always
             /\ \A f \in DOMAIN s.kernel \ {fd} : t.kernel[f] = s.kernel[f]
<1>. DEFINE S == DOMAIN s.kernel \cup {fd}
            kernel == [f \in S |-> IF f = fd THEN mask \cup Always ELSE s.kernel[f]]
<1>1. S \in SUBSET Fds /\ kernel \in [S -> SUBSET Events]
  BY ServerParts, InterestSetsHave, EpollAssumption
<1>2. kernel \in InterestSets /\ DOMAIN kernel = S
  BY <1>1, InterestSetsGet
<1>3. kernel[fd] = mask \cup Always /\ \A f \in DOMAIN s.kernel \ {fd} : kernel[f] = s.kernel[f]
  OBVIOUS
<1>4. WithInterest(s, fd, mask) = [s EXCEPT !.kernel = kernel]
  BY DEF WithInterest
<1>. HIDE DEF kernel
<1>. QED  BY <1>2, <1>3, <1>4 DEF Servers

LEMMA AddFDSets ==
  ASSUME NEW s \in Servers, NEW fd, NEW mask, fd \notin DOMAIN s.kernel
  PROVE  AddFD(s, fd, mask) = WithInterest(s, fd, mask)
  BY DEF AddFD, WithInterest

LEMMA ModFDSets ==
  ASSUME NEW s \in Servers, NEW fd \in DOMAIN s.kernel, NEW mask
  PROVE  ModFD(s, fd, mask) = WithInterest(s, fd, mask)
<1>1. DOMAIN s.kernel \cup {fd} = DOMAIN s.kernel
  OBVIOUS
<1>2. s.kernel \in [DOMAIN s.kernel -> SUBSET Events]
  BY ServerParts, InterestSetsHave
<1>3. [s.kernel EXCEPT ![fd] = mask \cup Always] =
        [f \in DOMAIN s.kernel \cup {fd} |-> IF f = fd THEN mask \cup Always ELSE s.kernel[f]]
  BY <1>1, <1>2
<1>. QED  BY <1>3 DEF ModFD, WithInterest

LEMMA DelFDLeaves ==
  ASSUME NEW s \in Servers, NEW fd \in Fds, fd \in DOMAIN s.kernel
  PROVE  LET t == DelFD(s, fd)
         IN  /\ t \in Servers /\ t.nodes = s.nodes /\ t.ready = s.ready /\ t.tmp = s.tmp
             /\ DOMAIN t.kernel = DOMAIN s.kernel \ {fd}
             /\ \A f \in DOMAIN s.kernel \ {fd} : t.kernel[f] = s.kernel[f]
<1>. DEFINE kernel == [f \in DOMAIN s.kernel \ {fd} |-> s.kernel[f]]
<1>1. DOMAIN s.kernel \ {fd} \in SUBSET Fds /\ kernel \in [DOMAIN s.kernel \ {fd} -> SUBSET Events]
  BY ServerParts, InterestSetsHave
<1>2. kernel \in InterestSets /\ DOMAIN kernel = DOMAIN s.kernel \ {fd}
  BY <1>1, InterestSetsGet
<1>3. \A f \in DOMAIN s.kernel \ {fd} : kernel[f] = s.kernel[f]
  OBVIOUS
<1>4. DelFD(s, fd) = [s EXCEPT !.kernel = kernel]
  BY DEF DelFD
<1>. HIDE DEF kernel
<1>. QED  BY <1>2, <1>3, <1>4 DEF Servers

LEMMA RemoveLeaves ==
  ASSUME NEW s \in Servers, NEW fd
  PROVE  LET t == RemoveFromReadyList(s, fd)
         IN  /\ t \in Servers /\ t.nodes = s.nodes /\ t.kernel = s.kernel /\ Known(t) = Known(s)
             /\ t.ready = s.ready \ {fd} /\ t.tmp = s.tmp \ {fd}
<1>1. RemoveFromReadyList(s, fd) = [s EXCEPT !.ready = s.ready \ {fd}, !.tmp = s.tmp \ {fd}]
  BY DEF RemoveFromReadyList
<1>2. s.ready \ {fd} \in SUBSET Fds /\ s.tmp \ {fd} \in SUBSET Fds
  BY ServerParts
<1>. QED  BY <1>1, <1>2 DEF Servers, Known

LEMMA AddLeaves ==
  ASSUME NEW s \in Servers, NEW fd \in Fds, s.ready \cap s.tmp = {}
  PROVE  LET t == AddToReadyList(s, fd)
         IN  /\ t \in Servers /\ t.nodes = s.nodes /\ t.kernel = s.kernel /\ Known(t) = Known(s)
             /\ t.tmp = s.tmp /\ t.ready \subseteq s.ready \cup {fd} /\ t.ready \cap t.tmp = {}
<1>1. CASE fd \in Listed(s)
  BY <1>1 DEF AddToReadyList
<1>2. CASE fd \notin Listed(s)
  <2>1. AddToReadyList(s, fd) = [s EXCEPT !.ready = s.ready \cup {fd}]
    BY <1>2 DEF AddToReadyList
  <2>2. s.ready \cup {fd} \in SUBSET Fds
    BY ServerParts
  <2>. QED  BY <1>2, <2>1, <2>2 DEF Servers, Known, Listed
<1>. QED  BY <1>1, <1>2

-------------------------------------------------------------------------------
(* The methods. *)

LEMMA LiveNodes ==
  ASSUME NEW s \in Servers, NEW f
  PROVE  f \in Live(s) <=> f \in Known(s) /\ s.nodes[f].cb # Null
  BY DEF Live

\* A node that gets another callback, or none.
LEMMA ReboundNode ==
  ASSUME NEW old \in Node, NEW cb \in Callbacks \cup {Null}, NEW mask \in SUBSET Events
  PROVE  LET node == [old EXCEPT !.cb = cb, !.mask = mask, !.fake = {}]
         IN  node \in Node /\ node.cb = cb /\ node.mask = mask /\ node.inUse = old.inUse
  BY DEF Node

\* One node is put, with its callback; what it is watched for and the lists may change.
LEMMA PutKeeps ==
  ASSUME NEW s, NEW r, NodesAgree(s, r), Serving(s), NEW t \in Servers, NEW fd \in Fds,
         Known(t) = Known(s) \cup {fd},
         \A f \in Known(s) \ {fd} : t.nodes[f] = s.nodes[f],
         t.nodes[fd].cb # Null, t.nodes[fd].inUse <=> fd = r,
         DOMAIN t.kernel = DOMAIN s.kernel \cup {fd},
         t.kernel[fd] = t.nodes[fd].mask \cup Always,
         \A f \in DOMAIN s.kernel \ {fd} : t.kernel[f] = s.kernel[f],
         Listed(t) \subseteq Listed(s) \cup {fd}, t.ready \cap t.tmp = {}
  PROVE  NodesAgree(t, r) /\ Serving(t)
<1>1. Live(t) = Live(s) \cup {fd}
  BY DEF Live
<1>2. NodesAgree(t, r)
  BY <1>1 DEF NodesAgree
<1>3. Watched(t)
  BY <1>1, LiveNodes DEF Serving, Watched, NodesAgree
<1>. QED  BY <1>1, <1>2, <1>3 DEF Serving, ListsAgree

LEMMA RegisterFDKeeps ==
  ASSUME NEW s, NEW r, NodesAgree(s, r), Serving(s),
         NEW fd \in Fds, NEW cb \in Callbacks, NEW mask \in SUBSET Events
  PROVE  LET t == RegisterFD(s, fd, cb, mask) IN NodesAgree(t, r) /\ Serving(t)
<1>. DEFINE fresh == [cb |-> cb, mask |-> mask, asserted |-> {}, fake |-> {}, inUse |-> FALSE]
            node == [s.nodes[fd] EXCEPT !.cb = cb, !.mask = mask, !.fake = {}]
            removed == RemoveFromReadyList(s, fd)
<1>1. /\ s \in Servers /\ DOMAIN s.kernel = Live(s) /\ Live(s) \subseteq Known(s)
      /\ s.ready \cap s.tmp = {} /\ cb # Null
  BY EpollAssumption DEF NodesAgree, Serving, Watched, ListsAgree, Live
<1>2. CASE fd \notin Known(s)
  <2>1. /\ fresh \in Node /\ fresh.cb = cb /\ fresh.mask = mask /\ fresh.inUse = FALSE
    BY DEF Node
  <2>. HIDE DEF fresh
  <2>2. fd \notin DOMAIN s.kernel /\ fd # r
    BY <1>1, <1>2, EpollAssumption DEF NodesAgree
  <2>3. AddFD(s, fd, mask) \in Servers /\ Known(AddFD(s, fd, mask)) = Known(s)
    BY <1>1, <2>2, AddFDSets, WithInterestLeaves DEF Known
  <2>4. RegisterFD(s, fd, cb, mask) = SetNode(AddFD(s, fd, mask), fd, fresh)
    BY <1>2 DEF RegisterFD, fresh
  <2>. QED
    BY <1>1, <2>1, <2>2, <2>3, <2>4, AddFDSets, WithInterestLeaves, SetNodeLeaves, PutKeeps DEF Listed
<1>3. CASE fd \in Known(s)
  <2>0. s.nodes[fd] \in Node /\ (s.nodes[fd].inUse <=> fd = r)
    BY <1>1, <1>3, ServerParts DEF NodesAgree
  <2>1. /\ node \in Node /\ node.cb = cb /\ node.mask = mask
        /\ node.inUse = s.nodes[fd].inUse /\ (node.inUse <=> fd = r)
    BY <2>0 DEF Node
  <2>. HIDE DEF node
  <2>2. CASE s.nodes[fd].cb # Null
    <3>1. fd \in DOMAIN s.kernel
      BY <1>1, <1>3, <2>2 DEF Live
    <3>2. /\ removed \in Servers /\ removed.nodes = s.nodes /\ removed.kernel = s.kernel
          /\ Known(removed) = Known(s)
          /\ Listed(removed) \subseteq Listed(s) /\ removed.ready \cap removed.tmp = {}
      BY <1>1, RemoveLeaves DEF Listed
    <3>3. RegisterFD(s, fd, cb, mask) = SetNode(ModFD(removed, fd, mask), fd, node)
      BY <1>3, <2>2 DEF RegisterFD, node
    <3>. HIDE DEF removed
    <3>4. ModFD(removed, fd, mask) \in Servers /\ Known(ModFD(removed, fd, mask)) = Known(s)
      BY <3>1, <3>2, ModFDSets, WithInterestLeaves DEF Known
    <3>. QED
      BY <1>1, <1>3, <2>1, <3>1, <3>2, <3>3, <3>4, ModFDSets, WithInterestLeaves, SetNodeLeaves, PutKeeps
         DEF Listed
  <2>3. CASE s.nodes[fd].cb = Null
    <3>1. fd \notin DOMAIN s.kernel
      BY <1>1, <2>3 DEF Live
    <3>2. RegisterFD(s, fd, cb, mask) = SetNode(AddFD(s, fd, mask), fd, node)
      BY <1>3, <2>3 DEF RegisterFD, node
    <3>3. AddFD(s, fd, mask) \in Servers /\ Known(AddFD(s, fd, mask)) = Known(s)
      BY <1>1, <3>1, AddFDSets, WithInterestLeaves DEF Known
    <3>. QED
      BY <1>1, <1>3, <2>1, <3>1, <3>2, <3>3, AddFDSets, WithInterestLeaves, SetNodeLeaves, PutKeeps DEF Listed
  <2>. QED  BY <2>2, <2>3
<1>. QED  BY <1>2, <1>3

\* The node of the running callback stays, without callback; any other one goes.
LEMMA UnregisterFDKeeps ==
  ASSUME NEW s, NEW r, NodesAgree(s, r), Covered(s), NEW fd \in Fds
  PROVE  LET t == UnregisterFD(s, fd)
         IN  NodesAgree(t, r) /\ Covered(t) /\ (Serving(s) => Serving(t))
<1>1. CASE fd \notin Live(s)
  BY <1>1 DEF UnregisterFD
<1>2. CASE fd \in Live(s)
  <2>. DEFINE removed == RemoveFromReadyList(s, fd)
              u == DelFD(removed, fd)
              node == [s.nodes[fd] EXCEPT !.cb = Null, !.mask = {}, !.fake = {}]
              t == UnregisterFD(s, fd)
  <2>1. s \in Servers /\ fd \in Known(s) /\ fd \in DOMAIN s.kernel /\ Live(s) \subseteq Known(s)
    BY <1>2 DEF NodesAgree, Covered, Live
  <2>2. /\ removed \in Servers /\ removed.nodes = s.nodes /\ removed.kernel = s.kernel
        /\ removed.ready = s.ready \ {fd} /\ removed.tmp = s.tmp \ {fd}
    BY <2>1, RemoveLeaves
  <2>. HIDE DEF removed
  <2>3. /\ u \in Servers /\ u.nodes = s.nodes /\ Known(u) = Known(s)
        /\ u.ready = s.ready \ {fd} /\ u.tmp = s.tmp \ {fd}
        /\ DOMAIN u.kernel = DOMAIN s.kernel \ {fd}
        /\ \A f \in DOMAIN s.kernel \ {fd} : u.kernel[f] = s.kernel[f]
    BY <2>1, <2>2, DelFDLeaves DEF Known
  <2>4. /\ node \in Node /\ node.cb = Null /\ node.inUse = s.nodes[fd].inUse
    <3>1. s.nodes[fd] \in Node
      BY <2>1, ServerParts
    <3>. QED  BY <3>1 DEF Node
  <2>5. /\ t \in Servers /\ Live(t) = Live(s) \ {fd} /\ t.ready = u.ready /\ t.tmp = u.tmp
        /\ t.kernel = u.kernel
        /\ \A f \in Live(s) \ {fd} : t.nodes[f] = s.nodes[f]
        /\ NodesAgree(t, r)
    <3>1. CASE s.nodes[fd].inUse
      <4>1. t = [u EXCEPT !.nodes[fd] = node]
        BY <1>2, <2>3, <3>1 DEF UnregisterFD, u, removed
      <4>. HIDE DEF u, node, t
      <4>2. t = SetNode(u, fd, node)
        BY <2>1, <2>3, <4>1, ChangedNode
      <4>3. /\ t \in Servers /\ Known(t) = Known(s) /\ t.nodes[fd] = node
            /\ t.ready = u.ready /\ t.tmp = u.tmp /\ t.kernel = u.kernel
            /\ \A f \in Known(s) \ {fd} : t.nodes[f] = s.nodes[f]
        <5>1. Known(s) \cup {fd} = Known(s)
          BY <2>1
        <5>2. u \in Servers /\ node \in Node /\ Known(u) = Known(s) /\ u.nodes = s.nodes
          BY <2>3, <2>4
        <5>3. /\ t \in Servers /\ Known(t) = Known(u) \cup {fd} /\ t.nodes[fd] = node
              /\ t.ready = u.ready /\ t.tmp = u.tmp /\ t.kernel = u.kernel
          BY <4>2, <5>2, SetNodeLeaves
        <5>4. \A f \in Known(u) \ {fd} : t.nodes[f] = u.nodes[f]
          BY <4>2, <5>2, SetNodeLeaves
        <5>. QED  BY <5>1, <5>2, <5>3, <5>4
      <4>4. Live(t) = Live(s) \ {fd} /\ fd = r
        BY <2>1, <2>4, <3>1, <4>3 DEF Live, NodesAgree
      <4>. QED  BY <2>1, <2>4, <3>1, <4>3, <4>4 DEF NodesAgree
    <3>2. CASE ~ s.nodes[fd].inUse
      <4>1. t = EraseNode(u, fd)
        BY <1>2, <3>2 DEF UnregisterFD, u, removed
      <4>. HIDE DEF u, node, t
      <4>2. /\ t \in Servers /\ Known(t) = Known(s) \ {fd}
            /\ t.ready = u.ready /\ t.tmp = u.tmp /\ t.kernel = u.kernel
            /\ \A f \in Known(s) \ {fd} : t.nodes[f] = s.nodes[f]
        BY <2>1, <2>3, <4>1, EraseNodeLeaves
      <4>3. Live(t) = Live(s) \ {fd} /\ fd # r
        BY <2>1, <3>2, <4>2 DEF Live, NodesAgree
      <4>. QED  BY <2>1, <4>2, <4>3, EpollAssumption DEF NodesAgree
    <3>. QED  BY <3>1, <3>2
  <2>. HIDE DEF u, node, t
  <2>6. Covered(t)
    BY <2>3, <2>5 DEF Covered
  <2>7. Serving(s) => Serving(t)
    BY <2>1, <2>3, <2>5 DEF Serving, Watched, ListsAgree, Listed
  <2>. QED  BY <2>5, <2>6, <2>7 DEF t
<1>. QED  BY <1>1, <1>2

LEMMA ModifyCallbackKeeps ==
  ASSUME NEW s, NEW r, NodesAgree(s, r), Serving(s), NEW fd \in Fds, NEW mask \in SUBSET Events
  PROVE  LET t == ModifyCallback(s, fd, mask) IN NodesAgree(t, r) /\ Serving(t)
<1>1. CASE fd \notin Live(s)
  BY <1>1 DEF ModifyCallback
<1>2. CASE fd \in Live(s)
  <2>. DEFINE u == ModFD(s, fd, mask)
              node == [s.nodes[fd] EXCEPT !.mask = mask]
  <2>1. s \in Servers /\ fd \in Known(s) /\ fd \in DOMAIN s.kernel /\ s.nodes[fd] \in Node
        /\ s.nodes[fd].cb # Null /\ (s.nodes[fd].inUse <=> fd = r) /\ s.ready \cap s.tmp = {}
    BY <1>2, ServerParts DEF NodesAgree, Serving, Watched, ListsAgree, Live
  <2>2. /\ u \in Servers /\ u.nodes = s.nodes /\ Known(u) = Known(s)
        /\ u.ready = s.ready /\ u.tmp = s.tmp
        /\ DOMAIN u.kernel = DOMAIN s.kernel /\ u.kernel[fd] = mask \cup Always
        /\ \A f \in DOMAIN s.kernel \ {fd} : u.kernel[f] = s.kernel[f]
    <3>1. u = WithInterest(s, fd, mask) /\ DOMAIN s.kernel \cup {fd} = DOMAIN s.kernel
      BY <2>1, ModFDSets
    <3>. HIDE DEF u
    <3>2. /\ u \in Servers /\ u.nodes = s.nodes /\ u.ready = s.ready /\ u.tmp = s.tmp
          /\ DOMAIN u.kernel = DOMAIN s.kernel \cup {fd} /\ u.kernel[fd] = mask \cup Always
      BY <2>1, <3>1, WithInterestLeaves
    <3>3. \A f \in DOMAIN s.kernel \ {fd} : u.kernel[f] = s.kernel[f]
      BY <2>1, <3>1, WithInterestLeaves
    <3>. QED  BY <3>1, <3>2, <3>3 DEF Known
  <2>3. node \in Node /\ node.cb = s.nodes[fd].cb /\ node.mask = mask /\ node.inUse = s.nodes[fd].inUse
    BY <2>1 DEF Node
  <2>4. ModifyCallback(s, fd, mask) = [u EXCEPT !.nodes[fd] = node]
    BY <1>2, <2>2 DEF ModifyCallback
  <2>. HIDE DEF u, node
  <2>5. ModifyCallback(s, fd, mask) = SetNode(u, fd, node)
    BY <2>1, <2>2, <2>4, ChangedNode
  <2>. QED  BY <2>1, <2>2, <2>3, <2>5, SetNodeLeaves, PutKeeps, SMTT(30) DEF Listed
<1>. QED  BY <1>1, <1>2

\* A node with callback that stays in use as it was goes on the ready list.
LEMMA MarkedKeeps ==
  ASSUME NEW s, NEW r, NodesAgree(s, r), Serving(s), NEW fd \in Live(s), NEW events \in SUBSET Events
  PROVE  LET t == AddToReadyList([s EXCEPT !.nodes[fd].fake = events], fd)
         IN  NodesAgree(t, r) /\ Serving(t)
<1>. DEFINE node == [s.nodes[fd] EXCEPT !.fake = events]
            u == SetNode(s, fd, node)
<1>1. s \in Servers /\ fd \in Known(s) /\ fd \in Fds /\ fd \in DOMAIN s.kernel /\ s.nodes[fd] \in Node
      /\ s.nodes[fd].cb # Null /\ (s.nodes[fd].inUse <=> fd = r) /\ s.ready \cap s.tmp = {}
      /\ s.kernel[fd] = s.nodes[fd].mask \cup Always
  BY ServerParts DEF NodesAgree, Serving, Watched, ListsAgree, Live
<1>2. node \in Node /\ node.cb = s.nodes[fd].cb /\ node.mask = s.nodes[fd].mask
      /\ node.inUse = s.nodes[fd].inUse
  BY <1>1 DEF Node
<1>3. [s EXCEPT !.nodes[fd].fake = events] = [s EXCEPT !.nodes[fd] = node]
  OBVIOUS
<1>. HIDE DEF node
<1>4. [s EXCEPT !.nodes[fd].fake = events] = u
  BY <1>1, <1>3, ChangedNode
<1>5. /\ u \in Servers /\ u.kernel = s.kernel /\ u.ready = s.ready /\ u.tmp = s.tmp
      /\ Known(u) = Known(s) \cup {fd} /\ u.nodes[fd] = node
      /\ \A f \in Known(s) \ {fd} : u.nodes[f] = s.nodes[f]
  BY <1>1, <1>2, SetNodeLeaves
<1>. HIDE DEF u
<1>. QED  BY <1>1, <1>2, <1>4, <1>5, AddLeaves, PutKeeps, SMTT(30) DEF Listed

LEMMA SetFDReadyKeeps ==
  ASSUME NEW s, NEW r, NodesAgree(s, r), Serving(s), NEW fd \in Fds, NEW events \in SUBSET Events
  PROVE  LET t == SetFDReady(s, fd, events) IN NodesAgree(t, r) /\ Serving(t)
  BY MarkedKeeps DEF SetFDReady

LEMMA SetFDNotReadyKeeps ==
  ASSUME NEW s, NEW r, NodesAgree(s, r), Serving(s), NEW fd \in Fds
  PROVE  LET t == SetFDNotReady(s, fd) IN NodesAgree(t, r) /\ Serving(t)
<1>. DEFINE t == RemoveFromReadyList(s, fd)
<1>1. /\ t \in Servers /\ t.nodes = s.nodes /\ t.kernel = s.kernel /\ Known(t) = Known(s)
      /\ Listed(t) \subseteq Listed(s) /\ t.ready \cap t.tmp \subseteq s.ready \cap s.tmp
  BY RemoveLeaves DEF NodesAgree, Listed
<1>. HIDE DEF t
<1>2. NodesAgree(t, r) /\ Serving(t)
  BY <1>1 DEF NodesAgree, Serving, Watched, ListsAgree, Live
<1>. QED  BY <1>2 DEF SetFDNotReady, t

LEMMA HandleEventsKeeps ==
  ASSUME NEW s, NEW r, NodesAgree(s, r), Serving(s),
         NEW reported, NEW events \in [reported -> (SUBSET Events) \ {{}}]
  PROVE  LET t == HandleEvents(s, events)
         IN  NodesAgree(t, r) /\ Serving(t)
<1>. DEFINE seen == DOMAIN events \cap Live(s)
            nodes == [f \in Known(s) |->
                        IF f \in seen THEN [s.nodes[f] EXCEPT !.asserted = events[f]] ELSE s.nodes[f]]
            t == HandleEvents(s, events)
<1>1. /\ s \in Servers /\ Known(s) \in SUBSET Fds /\ Live(s) \subseteq Known(s)
      /\ \A f \in Known(s) : s.nodes[f] \in Node
  BY ServerParts DEF NodesAgree, Live
<1>2. \A f \in seen : events[f] \in SUBSET Events
  OBVIOUS
<1>3. \A f \in Known(s) : /\ nodes[f] \in Node /\ nodes[f].cb = s.nodes[f].cb
                          /\ nodes[f].mask = s.nodes[f].mask /\ nodes[f].inUse = s.nodes[f].inUse
  <2>1. TAKE f \in Known(s)
  <2>2. CASE f \in seen
    BY <1>1, <1>2, <2>2 DEF Node
  <2>3. CASE f \notin seen
    BY <1>1, <2>3
  <2>. QED  BY <2>2, <2>3
<1>4. nodes \in [Known(s) -> Node]
  BY <1>3
<1>5. nodes \in NodeMaps /\ DOMAIN nodes = Known(s)
  BY <1>1, <1>4, NodeMapsGet
<1>6. t = [s EXCEPT !.nodes = nodes, !.ready = s.ready \cup (seen \ s.tmp)]
  BY DEF HandleEvents, Known
<1>7. seen \subseteq Live(s) /\ s.ready \cup (seen \ s.tmp) \in SUBSET Fds
  BY <1>1, ServerParts
<1>. HIDE DEF nodes, t, seen
<1>8. /\ t \in Servers /\ t.nodes = nodes /\ Known(t) = Known(s) /\ t.kernel = s.kernel
      /\ t.ready = s.ready \cup (seen \ s.tmp) /\ t.tmp = s.tmp
  BY <1>1, <1>5, <1>6, <1>7 DEF Servers, Known
<1>9. Live(t) = Live(s)
  BY <1>3, <1>8 DEF Live
<1>10. NodesAgree(t, r)
  BY <1>3, <1>8, <1>9 DEF NodesAgree
<1>11. Watched(t)
  BY <1>1, <1>3, <1>8, <1>9 DEF Serving, Watched
<1>12. ListsAgree(t)
  BY <1>7, <1>8, <1>9 DEF Serving, ListsAgree, Listed
<1>. QED  BY <1>10, <1>11, <1>12 DEF Serving, t

\* A node that is taken into use or let go, which changes nothing the kernel sees.
UseLeaves(s, t, fd, used) ==
  /\ t \in Servers /\ Known(t) = Known(s) /\ Live(t) = Live(s)
  /\ t.kernel = s.kernel
  /\ t.nodes[fd].inUse = used
  /\ \A f \in Known(s) \ {fd} : t.nodes[f] = s.nodes[f]
  /\ t.nodes[fd].mask = s.nodes[fd].mask

LEMMA UseKeepsNode ==
  ASSUME NEW s \in Servers, NEW fd \in Known(s), NEW node \in Node,
         node.cb = s.nodes[fd].cb, node.mask = s.nodes[fd].mask, NEW used, node.inUse = used
  PROVE  /\ UseLeaves(s, SetNode(s, fd, node), fd, used)
         /\ SetNode(s, fd, node).ready = s.ready /\ SetNode(s, fd, node).tmp = s.tmp
<1>. DEFINE t == SetNode(s, fd, node)
<1>1. fd \in Fds /\ Known(s) \cup {fd} = Known(s)
  BY ServerParts
<1>2. /\ t \in Servers /\ Known(t) = Known(s) \cup {fd} /\ t.kernel = s.kernel
      /\ t.ready = s.ready /\ t.tmp = s.tmp /\ t.nodes[fd] = node
      /\ \A f \in Known(s) \ {fd} : t.nodes[f] = s.nodes[f]
  BY <1>1, SetNodeLeaves
<1>. HIDE DEF t
<1>3. Known(t) = Known(s)
  BY <1>1, <1>2
<1>4. Live(t) = Live(s)
  BY <1>2, <1>3 DEF Live
<1>. QED  BY <1>2, <1>3, <1>4 DEF UseLeaves, t

LEMMA InUseKeeps ==
  ASSUME NEW s, NEW t, NEW fd \in Known(s), NodesAgree(s, NoFd), UseLeaves(s, t, fd, TRUE)
  PROVE  /\ NodesAgree(t, fd) /\ (Covered(s) => Covered(t)) /\ (Watched(s) => Watched(t))
<1>1. NodesAgree(t, fd)
  BY EpollAssumption, ServerParts DEF NodesAgree, UseLeaves
<1>. QED  BY <1>1, LiveNodes DEF NodesAgree, UseLeaves, Covered, Watched

LEMMA LetGoKeeps ==
  ASSUME NEW s, NEW t, NEW fd \in Live(s), NodesAgree(s, fd), UseLeaves(s, t, fd, FALSE)
  PROVE  NodesAgree(t, NoFd) /\ (Watched(s) => Watched(t))
<1>1. NodesAgree(t, NoFd)
  BY EpollAssumption, ServerParts DEF NodesAgree, UseLeaves, Live
<1>. QED  BY <1>1, LiveNodes DEF NodesAgree, UseLeaves, Watched

\* The node of a callback that is over is erased.
LEMMA EraseKeeps ==
  ASSUME NEW s, NEW fd \in Known(s), NodesAgree(s, fd)
  PROVE  LET t == EraseNode(s, fd)
         IN  /\ NodesAgree(t, NoFd) /\ Live(t) = Live(s) \ {fd} /\ t.kernel = s.kernel
             /\ t.ready = s.ready /\ t.tmp = s.tmp
             /\ \A f \in Live(s) \ {fd} : t.nodes[f] = s.nodes[f]
<1>. DEFINE t == EraseNode(s, fd)
<1>1. s \in Servers /\ Known(s) \in SUBSET Fds /\ Live(s) \subseteq Known(s)
  BY ServerParts DEF NodesAgree, Live
<1>2. /\ t \in Servers /\ Known(t) = Known(s) \ {fd} /\ t.kernel = s.kernel
      /\ t.ready = s.ready /\ t.tmp = s.tmp
      /\ \A f \in Known(s) \ {fd} : t.nodes[f] = s.nodes[f]
  BY <1>1, EraseNodeLeaves
<1>. HIDE DEF t
<1>3. Live(t) = Live(s) \ {fd}
  BY <1>2 DEF Live
<1>4. NodesAgree(t, NoFd)
  BY <1>1, <1>2, <1>3, EpollAssumption DEF NodesAgree
<1>. QED  BY <1>1, <1>2, <1>3, <1>4 DEF t

-------------------------------------------------------------------------------
(* The steps of the loop. *)

LEMMA WaitKeeps ==
  ASSUME NEW s, NodesAgree(s, NoFd), Serving(s),
         NEW reported, NEW events \in [reported -> (SUBSET Events) \ {{}}]
  PROVE  LET marked == HandleEvents(s, events)
             t == [marked EXCEPT !.ready = {}, !.tmp = marked.ready]
         IN  NodesAgree(t, NoFd) /\ Serving(t)
<1>. DEFINE marked == HandleEvents(s, events)
            t == [marked EXCEPT !.ready = {}, !.tmp = marked.ready]
<1>1. NodesAgree(marked, NoFd) /\ Serving(marked)
  BY HandleEventsKeeps
<1>. HIDE DEF marked
<1>2. marked \in Servers /\ marked.ready \in SUBSET Fds /\ {} \in SUBSET Fds
  BY <1>1, ServerParts DEF NodesAgree
<1>3. /\ t \in Servers /\ t.nodes = marked.nodes /\ t.kernel = marked.kernel
      /\ Known(t) = Known(marked) /\ t.ready = {} /\ t.tmp = marked.ready
  BY <1>2 DEF Servers, Known
<1>. HIDE DEF t
<1>4. Live(t) = Live(marked)
  BY <1>3 DEF Live
<1>5. NodesAgree(t, NoFd)
  BY <1>1, <1>3, <1>4 DEF NodesAgree
<1>6. Watched(t)
  BY <1>1, <1>3, <1>4 DEF Serving, Watched
<1>7. ListsAgree(t)
  BY <1>1, <1>3, <1>4 DEF Serving, ListsAgree, Listed
<1>. QED  BY <1>5, <1>6, <1>7 DEF Serving, t, marked

LEMMA OnEventStarts ==
  ASSUME NEW s, NodesAgree(s, NoFd), Serving(s), NEW fd \in s.tmp
  PROVE  LET t == [RemoveFromReadyList(s, fd) EXCEPT
                     !.nodes[fd] = [@ EXCEPT !.asserted = {}, !.fake = {}, !.inUse = TRUE]]
         IN  NodesAgree(t, fd) /\ Serving(t)
<1>. DEFINE removed == RemoveFromReadyList(s, fd)
            node == [s.nodes[fd] EXCEPT !.asserted = {}, !.fake = {}, !.inUse = TRUE]
            t == SetNode(removed, fd, node)
<1>1. s \in Servers /\ fd \in Live(s) /\ fd \in Known(s) /\ s.ready \cap s.tmp = {}
  BY DEF NodesAgree, Serving, ListsAgree, Listed, Live
<1>2. /\ node \in Node /\ node.cb = s.nodes[fd].cb /\ node.mask = s.nodes[fd].mask
      /\ node.inUse = TRUE
  <2>1. s.nodes[fd] \in Node
    BY <1>1, ServerParts
  <2>. QED  BY <2>1 DEF Node
<1>3. /\ removed \in Servers /\ removed.nodes = s.nodes /\ removed.kernel = s.kernel
      /\ Known(removed) = Known(s)
      /\ removed.ready = s.ready \ {fd} /\ removed.tmp = s.tmp \ {fd}
  BY <1>1, RemoveLeaves
<1>4. [removed EXCEPT !.nodes[fd] = [@ EXCEPT !.asserted = {}, !.fake = {}, !.inUse = TRUE]] =
        [removed EXCEPT !.nodes[fd] = node]
  BY <1>3
<1>. HIDE DEF removed, node
<1>5. [removed EXCEPT !.nodes[fd] = node] = t
  BY <1>1, <1>3, ChangedNode
<1>6. UseLeaves(removed, t, fd, TRUE) /\ t.ready = removed.ready /\ t.tmp = removed.tmp
  BY <1>1, <1>2, <1>3, UseKeepsNode, ZenonT(40)
<1>. HIDE DEF t
<1>7. Live(removed) = Live(s)
  BY <1>3 DEF Live
<1>8. UseLeaves(s, t, fd, TRUE)
  BY <1>3, <1>6, <1>7 DEF UseLeaves
<1>9. NodesAgree(t, fd) /\ Watched(t)
  BY <1>1, <1>8, InUseKeeps DEF Serving
<1>10. ListsAgree(t)
  BY <1>3, <1>6, <1>8 DEF Serving, ListsAgree, Listed, UseLeaves
<1>. QED  BY <1>4, <1>5, <1>9, <1>10 DEF Serving, removed

LEMMA OnEventEnds ==
  ASSUME NEW s, NEW fd \in Fds, NodesAgree(s, fd), Serving(s), NEW out \in SUBSET Events
  PROVE  LET t == AfterOnEvent(s, fd, out) IN NodesAgree(t, NoFd) /\ Serving(t)
<1>. DEFINE node == [s.nodes[fd] EXCEPT !.inUse = FALSE]
            u == SetNode(s, fd, node)
<1>1. s \in Servers /\ fd \in Known(s) /\ s.nodes[fd] \in Node
  BY EpollAssumption, ServerParts DEF NodesAgree
<1>2. /\ node \in Node /\ node.cb = s.nodes[fd].cb /\ node.mask = s.nodes[fd].mask
      /\ node.inUse = FALSE
  BY <1>1 DEF Node
<1>3. [s EXCEPT !.nodes[fd].inUse = FALSE] = [s EXCEPT !.nodes[fd] = node]
  OBVIOUS
<1>. HIDE DEF node
<1>4. [s EXCEPT !.nodes[fd] = node] = u
  BY <1>1, ChangedNode
<1>5. UseLeaves(s, u, fd, FALSE) /\ u.ready = s.ready /\ u.tmp = s.tmp
  BY <1>1, <1>2, UseKeepsNode
<1>. HIDE DEF u
<1>6. CASE s.nodes[fd].cb = Null
  <2>1. AfterOnEvent(s, fd, out) = EraseNode(u, fd)
    BY <1>3, <1>4, <1>6 DEF AfterOnEvent
  <2>2. EraseNode(u, fd) = EraseNode(s, fd)
    <3>1. u = [s EXCEPT !.nodes = u.nodes] /\ DOMAIN u.nodes = DOMAIN s.nodes
      BY <1>1, <1>3, <1>4, <1>5 DEF UseLeaves, Known, Servers
    <3>2. [f \in DOMAIN u.nodes \ {fd} |-> u.nodes[f]] = [f \in DOMAIN s.nodes \ {fd} |-> s.nodes[f]]
      BY <1>5, <3>1 DEF UseLeaves, Known
    <3>. QED  BY <1>1, <3>1, <3>2 DEF EraseNode, Servers
  <2>. DEFINE t == EraseNode(s, fd)
  <2>3. fd \notin Live(s)
    BY <1>6 DEF Live
  <2>4. /\ NodesAgree(t, NoFd) /\ Live(t) = Live(s) \ {fd} /\ t.kernel = s.kernel
        /\ t.ready = s.ready /\ t.tmp = s.tmp
        /\ \A f \in Live(s) \ {fd} : t.nodes[f] = s.nodes[f]
    BY <1>1, EraseKeeps
  <2>. HIDE DEF t
  <2>5. Serving(t)
    BY <2>3, <2>4 DEF Serving, Watched, ListsAgree, Listed
  <2>. QED  BY <2>1, <2>2, <2>4, <2>5 DEF t
<1>7. CASE s.nodes[fd].cb # Null
  <2>1. fd \in Live(s)
    BY <1>1, <1>7 DEF Live
  <2>2. NodesAgree(u, NoFd) /\ Watched(u)
    BY <1>5, <2>1, LetGoKeeps DEF Serving
  <2>3. ListsAgree(u)
    BY <1>5 DEF Serving, ListsAgree, Listed, UseLeaves
  <2>4. Serving(u) /\ fd \in Live(u)
    BY <1>5, <2>1, <2>2, <2>3 DEF Serving, UseLeaves
  <2>5. CASE out = {}
    <3>1. AfterOnEvent(s, fd, out) = u
      BY <1>3, <1>4, <1>7, <2>5 DEF AfterOnEvent
    <3>. QED  BY <2>2, <2>4, <3>1
  <2>6. CASE out # {}
    <3>1. AfterOnEvent(s, fd, out) = AddToReadyList([u EXCEPT !.nodes[fd].fake = out], fd)
      BY <1>3, <1>4, <1>7, <2>6 DEF AfterOnEvent
    <3>. QED  BY <2>2, <2>4, <3>1, MarkedKeeps
  <2>. QED  BY <2>5, <2>6
<1>. QED  BY <1>6, <1>7

LEMMA OnShutdownStarts ==
  ASSUME NEW s, NodesAgree(s, NoFd), Covered(s), NEW fd \in Known(s)
  PROVE  LET t == [s EXCEPT !.nodes[fd].inUse = TRUE] IN NodesAgree(t, fd) /\ Covered(t)
<1>. DEFINE node == [s.nodes[fd] EXCEPT !.inUse = TRUE]
<1>1. s \in Servers /\ s.nodes[fd] \in Node
  BY ServerParts DEF NodesAgree
<1>2. /\ node \in Node /\ node.cb = s.nodes[fd].cb /\ node.mask = s.nodes[fd].mask
      /\ node.inUse = TRUE
  BY <1>1 DEF Node
<1>3. [s EXCEPT !.nodes[fd].inUse = TRUE] = [s EXCEPT !.nodes[fd] = node]
  OBVIOUS
<1>. HIDE DEF node
<1>4. [s EXCEPT !.nodes[fd] = node] = SetNode(s, fd, node)
  BY <1>1, ChangedNode
<1>5. UseLeaves(s, SetNode(s, fd, node), fd, TRUE)
  BY <1>1, <1>2, UseKeepsNode
<1>. QED  BY <1>3, <1>4, <1>5, InUseKeeps, ZenonT(40)

-------------------------------------------------------------------------------
(* The theorem. *)

LEMMA RegistryInit == Init => RegistryInv
<1>. SUFFICES ASSUME Init  PROVE RegistryInv
  OBVIOUS
<1>1. /\ eps = [nodes |-> <<>>, kernel |-> <<>>, ready |-> {}, tmp |-> {}, fatal |-> FALSE]
      /\ running = NotRunning /\ loop = "idle" /\ running.fd = NoFd
  BY DEF Init, NotRunning
<1>2. DOMAIN <<>> = {} /\ <<>> \in [{} -> Node] /\ <<>> \in [{} -> SUBSET Events]
  <2>1. DOMAIN <<>> = {}
    OBVIOUS
  <2>2. <<>> = [f \in {} |-> f]
    OBVIOUS
  <2>3. [f \in {} |-> f] \in [{} -> Node] /\ [f \in {} |-> f] \in [{} -> SUBSET Events]
    OBVIOUS
  <2>. QED  BY <2>1, <2>2, <2>3
<1>3. {} \in SUBSET Fds
  OBVIOUS
<1>4. <<>> \in NodeMaps /\ <<>> \in InterestSets
  BY <1>2, <1>3, NodeMapsGet, InterestSetsGet
<1>5. eps \in Servers /\ Known(eps) = {} /\ DOMAIN eps.kernel = {} /\ Listed(eps) = {}
  BY <1>1, <1>2, <1>4 DEF Servers, Known, Listed
<1>6. Live(eps) = {}
  BY <1>5 DEF Live
<1>7. NodesAgree(eps, running.fd)
  BY <1>1, <1>5, <1>6 DEF NodesAgree
<1>8. Serving(eps)
  BY <1>1, <1>5, <1>6 DEF Serving, Watched, ListsAgree
<1>. QED  BY <1>1, <1>7, <1>8 DEF RegistryInv

LEMMA ServingCovers ==
  ASSUME NEW s, Serving(s)
  PROVE  Covered(s)
  BY DEF Serving, Watched, Covered

LEMMA RegistryStep == RegistryInv /\ [Next]_vars => RegistryInv'
<1>. SUFFICES ASSUME RegistryInv, [Next]_vars  PROVE RegistryInv'
  OBVIOUS
<1>0. /\ running \in Calls \cup {NotRunning} /\ NodesAgree(eps, running.fd)
      /\ running = NotRunning => running.fd = NoFd
      /\ running # NotRunning => running \in Calls /\ running.fd \in Fds /\ running.out \in SUBSET Events
      /\ loop \in {"idle", "dispatch", "shutdown", "down"}
      /\ loop \in {"idle", "dispatch"} => Serving(eps)
      /\ loop = "shutdown" => Covered(eps)
      /\ loop \in {"idle", "down"} => running = NotRunning
  BY DEF RegistryInv, Calls, NotRunning
<1>1. CASE ApiCall
  <2>1. PICK fd \in Fds :
          \/ eps' = UnregisterFD(eps, fd)
          \/ /\ loop # "shutdown"
             /\ \/ \E cb \in Callbacks, mask \in SUBSET (Events \ Always) :
                     eps' = RegisterFD(eps, fd, cb, mask)
                \/ \E mask \in SUBSET (Events \ Always) : eps' = ModifyCallback(eps, fd, mask)
                \/ \E events \in SUBSET Events : eps' = SetFDReady(eps, fd, events)
                \/ eps' = SetFDNotReady(eps, fd)
    BY <1>1 DEF ApiCall
  <2>2. UNCHANGED <<running, loop>> /\ loop # "down"
    BY <1>0, <1>1 DEF ApiCall
  <2>3. CASE eps' = UnregisterFD(eps, fd)
    <3>1. Covered(eps)
      BY <1>0, <2>2, ServingCovers
    <3>2. NodesAgree(eps', running.fd) /\ Covered(eps') /\ (Serving(eps) => Serving(eps'))
      BY <1>0, <2>3, <3>1, UnregisterFDKeeps
    <3>. QED  BY <1>0, <2>2, <3>2 DEF RegistryInv
  <2>4. CASE loop # "shutdown" /\ eps' # UnregisterFD(eps, fd)
    <3>1. Serving(eps) /\ SUBSET (Events \ Always) \subseteq SUBSET Events
      BY <1>0, <2>2, <2>4
    <3>2. NodesAgree(eps', running.fd) /\ Serving(eps')
      <4>1. CASE \E cb \in Callbacks, mask \in SUBSET (Events \ Always) :
                   eps' = RegisterFD(eps, fd, cb, mask)
        BY <1>0, <3>1, <4>1, RegisterFDKeeps
      <4>2. CASE \E mask \in SUBSET (Events \ Always) : eps' = ModifyCallback(eps, fd, mask)
        BY <1>0, <3>1, <4>2, ModifyCallbackKeeps
      <4>3. CASE \E events \in SUBSET Events : eps' = SetFDReady(eps, fd, events)
        BY <1>0, <3>1, <4>3, SetFDReadyKeeps
      <4>4. CASE eps' = SetFDNotReady(eps, fd)
        BY <1>0, <3>1, <4>4, SetFDNotReadyKeeps
      <4>. QED  BY <2>1, <2>4, <4>1, <4>2, <4>3, <4>4
    <3>. QED  BY <1>0, <2>2, <2>4, <3>2 DEF RegistryInv
  <2>. QED  BY <2>1, <2>3, <2>4
<1>2. CASE SetOutReadyMask
  <2>1. running' \in Calls /\ running'.fd = running.fd
    BY <1>0, <1>2 DEF SetOutReadyMask, Calls
  <2>2. UNCHANGED <<eps, loop>> /\ loop = "dispatch"
    BY <1>2 DEF SetOutReadyMask
  <2>. QED  BY <1>0, <2>1, <2>2 DEF RegistryInv
<1>3. CASE Wait
  <2>1. loop = "idle" /\ UNCHANGED running
    BY <1>3 DEF Wait
  <2>2. PICK reported \in SUBSET DOMAIN eps.kernel :
          \E events \in [reported -> (SUBSET Events) \ {{}}] :
            LET marked == HandleEvents(eps, events) IN
            /\ eps' = [marked EXCEPT !.ready = {}, !.tmp = marked.ready]
            /\ loop' = IF marked.ready = {} THEN "idle" ELSE "dispatch"
    BY <1>3 DEF Wait
  <2>3. PICK events \in [reported -> (SUBSET Events) \ {{}}] :
          LET marked == HandleEvents(eps, events) IN
          /\ eps' = [marked EXCEPT !.ready = {}, !.tmp = marked.ready]
          /\ loop' \in {"idle", "dispatch"}
    BY <2>2
  <2>4. NodesAgree(eps', NoFd) /\ Serving(eps')
    BY <1>0, <2>1, <2>3, WaitKeeps
  <2>. QED  BY <1>0, <2>1, <2>3, <2>4 DEF RegistryInv
<1>4. CASE CallOnEvent
  <2>1. loop = "dispatch" /\ running = NotRunning /\ UNCHANGED loop
    BY <1>4 DEF CallOnEvent
  <2>2. PICK fd \in eps.tmp :
          /\ running' = [fd |-> fd, cb |-> eps.nodes[fd].cb,
                         events |-> eps.nodes[fd].asserted \cup eps.nodes[fd].fake, out |-> {}]
          /\ eps' = [RemoveFromReadyList(eps, fd) EXCEPT
                       !.nodes[fd] = [@ EXCEPT !.asserted = {}, !.fake = {}, !.inUse = TRUE]]
    BY <1>4 DEF CallOnEvent
  <2>3. NodesAgree(eps', fd) /\ Serving(eps')
    BY <1>0, <2>1, <2>2, OnEventStarts
  <2>4. running' \in Calls /\ running'.fd = fd
    <3>1. fd \in Fds /\ fd \in Live(eps) /\ eps.nodes[fd] \in Node
      BY <1>0, <2>1, ServerParts DEF NodesAgree, Serving, ListsAgree, Listed, Live
    <3>2. eps.nodes[fd].cb \in Callbacks
      BY <3>1 DEF Live, Node
    <3>. QED  BY <2>2, <3>1, <3>2 DEF Calls, Node
  <2>. QED  BY <2>1, <2>3, <2>4 DEF RegistryInv
<1>5. CASE OnEventReturns
  <2>1. /\ loop = "dispatch" /\ running # NotRunning /\ running' = NotRunning
        /\ loop' \in {"idle", "dispatch"} /\ running'.fd = NoFd
        /\ eps' = AfterOnEvent(eps, running.fd, running.out)
    BY <1>5 DEF OnEventReturns, NotRunning
  <2>2. NodesAgree(eps', NoFd) /\ Serving(eps')
    BY <1>0, <2>1, OnEventEnds
  <2>. QED  BY <2>1, <2>2 DEF RegistryInv
<1>6. CASE Shutdown
  <2>1. loop = "idle" /\ loop' = "shutdown" /\ UNCHANGED <<eps, running>>
    BY <1>6 DEF Shutdown
  <2>2. Covered(eps)
    BY <1>0, <2>1, ServingCovers
  <2>. QED  BY <1>0, <2>1, <2>2 DEF RegistryInv
<1>7. CASE CallOnShutdown
  <2>1. loop = "shutdown" /\ running = NotRunning /\ UNCHANGED loop
    BY <1>7 DEF CallOnShutdown
  <2>2. PICK fd \in Known(eps) :
          /\ running' = [NotRunning EXCEPT !.fd = fd, !.cb = eps.nodes[fd].cb]
          /\ eps' = [eps EXCEPT !.nodes[fd].inUse = TRUE]
    BY <1>7 DEF CallOnShutdown
  <2>3. NodesAgree(eps', fd) /\ Covered(eps')
    BY <1>0, <2>1, <2>2, OnShutdownStarts
  <2>4. running' \in Calls /\ running'.fd = fd
    <3>1. fd \in Fds /\ fd \in Live(eps) /\ eps.nodes[fd] \in Node
      BY <1>0, <2>1, EpollAssumption, ServerParts DEF NodesAgree
    <3>2. eps.nodes[fd].cb \in Callbacks
      BY <3>1 DEF Live, Node
    <3>. QED  BY <2>2, <3>1, <3>2 DEF Calls, NotRunning
  <2>. QED  BY <2>1, <2>3, <2>4 DEF RegistryInv
<1>8. CASE OnShutdownReturns
  <2>1. /\ loop = "shutdown" /\ running # NotRunning /\ running' = NotRunning
        /\ UNCHANGED loop /\ running'.fd = NoFd /\ eps' = EraseNode(eps, running.fd)
    BY <1>8 DEF OnShutdownReturns, NotRunning
  <2>2. running.fd \in Known(eps) /\ Covered(eps)
    BY <1>0, <2>1, EpollAssumption DEF NodesAgree
  <2>3. NodesAgree(eps', NoFd) /\ Live(eps') = Live(eps) \ {running.fd} /\ eps'.kernel = eps.kernel
    BY <1>0, <2>1, <2>2, EraseKeeps
  <2>. QED  BY <2>1, <2>2, <2>3 DEF RegistryInv, Covered
<1>9. CASE Down
  <2>1. /\ running = NotRunning /\ loop' = "down" /\ UNCHANGED running
        /\ eps' = [eps EXCEPT !.ready = {}, !.tmp = {}]
    BY <1>9 DEF Down
  <2>2. eps \in Servers /\ {} \in SUBSET Fds
    BY <1>0 DEF NodesAgree
  <2>3. eps' \in Servers /\ eps'.nodes = eps.nodes /\ Known(eps') = Known(eps)
    BY <2>1, <2>2 DEF Servers, Known
  <2>4. NodesAgree(eps', running.fd)
    BY <1>0, <2>3 DEF NodesAgree, Live
  <2>. QED  BY <1>0, <2>1, <2>4 DEF RegistryInv
<1>10. CASE UNCHANGED vars
  BY <1>10 DEF RegistryInv, vars
<1>. QED  BY <1>1, <1>2, <1>3, <1>4, <1>5, <1>6, <1>7, <1>8, <1>9, <1>10 DEF Next

LEMMA RegistryFollows == RegistryInv => RegistryAgrees
<1>. SUFFICES ASSUME RegistryInv  PROVE RegistryAgrees
  OBVIOUS
<1>0. running \in Calls \cup {NotRunning} /\ NodesAgree(eps, running.fd)
  BY DEF RegistryInv
<1>1. /\ running = NotRunning => running.fd = NoFd
      /\ running # NotRunning => running.fd \in Fds /\ running.cb \in Callbacks
      /\ NodesAgree(eps, running.fd) /\ eps \in Servers /\ eps.fatal = FALSE
  <2>1. running = NotRunning => running.fd = NoFd
    BY DEF NotRunning
  <2>2. running # NotRunning => running.fd \in Fds /\ running.cb \in Callbacks
    BY <1>0 DEF Calls
  <2>. QED  BY <1>0, <2>1, <2>2, ServerParts DEF NodesAgree
<1>2. TypeOK
  BY <1>1, ServerParts DEF TypeOK, RegistryInv
<1>3. ListedNodesAreLive
  BY DEF RegistryInv, ListedNodesAreLive, Serving, ListsAgree
<1>4. KernelAgrees
  BY <1>1 DEF RegistryInv, KernelAgrees, Serving, Watched
<1>5. RunningNodeIsKept
  BY <1>1, EpollAssumption DEF RunningNodeIsKept, NodesAgree
<1>. QED  BY <1>2, <1>3, <1>4, <1>5 DEF RegistryAgrees

\* Whatever is registered, replaced, removed or marked ready between the rounds
\* of the loop and from within OnEvent and OnShutdown, for any descriptors and
\* callbacks: a listed node has a callback, no epoll_ctl fails, the kernel
\* watches exactly the descriptors that have one, and the node of the running
\* callback outlives it.
THEOREM RegistryAlwaysAgrees == Spec => []RegistryAgrees
<1>1. Init => RegistryInv
  BY RegistryInit
<1>2. RegistryInv /\ [Next]_vars => RegistryInv'
  BY RegistryStep
<1>3. RegistryInv => RegistryAgrees
  BY RegistryFollows
<1>. QED  BY <1>1, <1>2, <1>3, PTL DEF Spec

=============================================================================
