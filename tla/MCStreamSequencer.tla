-------------------------- MODULE MCStreamSequencer --------------------------
(***************************************************************************)
(* StreamSequencer for TLC: frames of up to MaxPayload bytes at the        *)
(* offsets 0 .. MaxOffset.                                                 *)
(***************************************************************************)
EXTENDS StreamSequencer

CONSTANTS MaxOffset, MaxPayload

MCOffsets == 0 .. MaxOffset
MCPayloads == UNION {[1 .. n -> Bytes] : n \in 0 .. MaxPayload}
==============================================================================
