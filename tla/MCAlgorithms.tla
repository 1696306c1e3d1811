---------------------------- MODULE MCAlgorithms ----------------------------
(***************************************************************************)
(* The data structures and algorithms that the programs call, for TLC in   *)
(* one run: subject says which of them a behaviour is about, and the       *)
(* variables of the others keep their first values.                        *)
(***************************************************************************)
EXTENDS IntervalSet, ByteCodec, Goodput, DashAdaptation

VARIABLE subject

Subjects == {"intervals", "codec", "goodput", "adaptation"}
algorithmVars == <<subject, iset, codecVars, goodputVars, adaptationVars>>

\* dash_client_test.cc plays six qualities, here in 100 kbps.
MCRates == <<3, 8, 12, 18, 28, 43>>

SomeCapacity == [bytes |-> <<>>, capacity |-> Min(Capacities), fields |-> <<>>]
SomePlayer == player.algorithm = "festive" /\ bandwidth = Min(Bandwidths)

Init ==
  /\ subject \in Subjects
  /\ IntervalInit /\ CodecInit /\ GoodputInit /\ AdaptationInit
  /\ subject # "codec" => writer = SomeCapacity
  /\ subject # "adaptation" => SomePlayer

Next ==
  \/ subject = "intervals" /\ IntervalNext /\ UNCHANGED <<subject, codecVars, goodputVars, adaptationVars>>
  \/ subject = "codec" /\ CodecNext /\ UNCHANGED <<subject, iset, goodputVars, adaptationVars>>
  \/ subject = "goodput" /\ GoodputNext /\ UNCHANGED <<subject, iset, codecVars, adaptationVars>>
  \/ subject = "adaptation" /\ AdaptationNext /\ UNCHANGED <<subject, iset, codecVars, goodputVars>>

\* The player asks for segment after segment.
Asks == subject = "adaptation" /\ RequestSegment /\ UNCHANGED <<subject, iset, codecVars, goodputVars>>

Spec == Init /\ [][Next]_algorithmVars /\ WF_algorithmVars(Asks)

\* SetsAreExact, looked at where the set changes: the operations and queries of an
\* interval set are those of the set of numbers it stands for.
IntervalSetsAreExact == subject = "intervals" => SetsAreExact
=============================================================================
