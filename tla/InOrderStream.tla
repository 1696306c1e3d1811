---------------------------- MODULE InOrderStream ----------------------------
(***************************************************************************)
(* What a reassembly buffer promises to the application that reads it,     *)
(* without rings, blocks, intervals or callbacks: bytes arrive at any      *)
(* offset of a bounded window, the first byte that arrives at an offset is *)
(* the one that counts, and the application is given the bytes in offset   *)
(* order, each once, never one that has not arrived.                       *)
(*                                                                         *)
(* One step may take in bytes and deliver some of them.  SequencerBuffer   *)
(* and StreamSequencer are shown to implement it.                          *)
(***************************************************************************)
EXTENDS Integers, Sequences

CONSTANTS
  Window,   \* how far beyond the read position a byte may be kept
  Bytes     \* the byte values

VARIABLES
  arrived,    \* function from the offsets that arrived to the first byte seen
  position,   \* offset of the next byte to deliver
  delivered   \* the bytes given to the application so far

vars == <<arrived, position, delivered>>

Init ==
  /\ arrived = <<>>
  /\ position = 0
  /\ delivered = <<>>

\* Bytes arrive inside the window; what arrived before keeps its value, and
\* stays at least until the read position has passed it.
Arrivals ==
  /\ position' \in position .. (position + Window)
  /\ DOMAIN arrived' \subseteq 0 .. (position' + Window - 1)
  /\ \A o \in DOMAIN arrived' : arrived'[o] \in Bytes
  /\ \A o \in DOMAIN arrived :
       IF o \in DOMAIN arrived' THEN arrived'[o] = arrived[o] ELSE o >= position'

\* The application is given the next n bytes, all of which have arrived.
Deliver(n) ==
  /\ position .. (position + n - 1) \subseteq DOMAIN arrived'
  /\ delivered' = delivered \o [i \in 1 .. n |-> arrived'[position + i - 1]]

\* Everything that arrived is kept and the position moves over delivered bytes.
Advance ==
  /\ Arrivals
  /\ DOMAIN arrived \subseteq DOMAIN arrived'
  /\ Deliver(position' - position)

\* The reader gives up what it has not been given: the position may skip bytes
\* and nothing beyond it is kept.
Discard ==
  /\ Arrivals
  /\ DOMAIN arrived' \subseteq 0 .. (position' - 1)
  /\ \E n \in 0 .. (position' - position) : Deliver(n)

Next == Advance \/ Discard

Spec == Init /\ [][Next]_vars
==============================================================================
