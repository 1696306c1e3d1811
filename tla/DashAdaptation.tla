--------------------------- MODULE DashAdaptation ---------------------------
(***************************************************************************)
(* The rate adaptation algorithms of src/dash/dash_algorithm.cc: the       *)
(* quality of the next segment, from the bandwidth, the level of the play  *)
(* back buffer and what the algorithm remembers.  Their delays are left to *)
(* Dash, which allows any.                                                 *)
(*                                                                         *)
(* The bandwidth is what Predict returns; for panda it is its smoothed     *)
(* share, which panda computes from the last one and keeps: here any value *)
(* may come at each request, so that nothing is said of how the share      *)
(* follows the link.  For osmp, raahs and sftm, which look at the duration *)
(* of the last download, it is the bandwidth at which a segment of average *)
(* size takes that long.  Fractions are compared with their denominators   *)
(* multiplied out.  A download takes at least a millisecond.               *)
(***************************************************************************)
EXTENDS Integers, Sequences, SequencesExt, FiniteSets, FiniteSetsExt

CONSTANTS
  Rates,       \* averageBitrate, ascending, in 100 kbps
  Bandwidths,  \* in 100 kbps
  Levels       \* levels of the play back buffer, in seconds

ASSUME AdaptationAssumption ==
  /\ Rates \in Seq(Nat \ {0}) /\ Len(Rates) \in 2 .. 10
  /\ \A i \in 1 .. Len(Rates) - 1 : Rates[i] < Rates[i + 1]
  /\ Bandwidths \subseteq Nat \ {0} /\ Levels \subseteq Nat

Top == Len(Rates) - 1
Rate(q) == Rates[q + 1]
Algorithms == {"festive", "panda", "tobasco", "osmp", "raahs", "fdash", "sftm", "svaa"}

VARIABLES
  player,     \* the algorithm, its quality_ and what it remembers
  bandwidth,  \* of the last downloads
  steady      \* from now on the bandwidth does not change

adaptationVars == <<player, bandwidth, steady>>

-------------------------------------------------------------------------------
(* Helpers. *)

\* The highest of the qualities q for which P(q), or else.
Highest(P(_), else) ==
  LET qualities == {q \in 0 .. Top : P(q)} IN IF qualities = {} THEN else ELSE Max(qualities)

LastOf(s, n) == SubSeq(s, Max({1, Len(s) - n + 1}), Len(s))
Absolute(n) == IF n < 0 THEN - n ELSE n

\* Steps between neighbouring rates, relative to the lower and to the higher of both.
StepUp(q) == [n |-> Rate(q + 1) - Rate(q), d |-> Rate(q)]
StepDown(q) == [n |-> Rate(q) - Rate(q - 1), d |-> Rate(q)]

\* x / y > 1 + m * step, and x / y < 1 - m * step.
ExceedsStep(x, y, m, step) == x * step.d > y * m * step.n
Exceeds(x, y, m, step) == x * step.d > y * (step.d + m * step.n)
FallsBelow(x, y, m, step) == x * step.d < y * (step.d - m * step.n)

Returns(p, q) == [p EXCEPT !.quality = q]

-------------------------------------------------------------------------------
(* Festive: one step at a time, upwards only after several segments, and only if the   *)
(* gain in efficiency is worth the loss of stability.                                  *)

FestiveTarget(bw) == LET Fits(q) == 10 * Rate(q) <= 8 * bw IN Highest(Fits, 0)

FestiveReferenceForgets(p, bw) ==
  LET up == FestiveTarget(bw) > p.quality /\ p.switchUp + 1 > p.quality
  IN  [ count |-> 0,
        quality |-> IF up THEN p.quality + 1
                    ELSE IF FestiveTarget(bw) < p.quality THEN p.quality - 1 ELSE p.quality ]
\* kSwitchUpThreshold[q] is q.  More than Top + 1 need not be counted.
FestiveReference(p, bw) ==
  LET up == FestiveTarget(bw) > p.quality
      count == IF up THEN Min({p.switchUp + 1, Top + 2}) ELSE 0
  IN  [ count |-> count,
        quality |-> IF up THEN (IF count > p.quality THEN p.quality + 1 ELSE p.quality)
                    ELSE IF FestiveTarget(bw) < p.quality THEN p.quality - 1 ELSE p.quality ]

\* CalculateCombineScore of the current quality is at most that of the reference, with
\* n changes among the last qualities.
StaysBetter(p, bw, ref) ==
  LET n == Cardinality({i \in DOMAIN p.changes : p.changes[i]})
      d == Min({bw, Rate(ref)})
  IN  12 * (Absolute(Rate(p.quality) - d) - Absolute(Rate(ref) - d)) <= 2^n * d

Festive(p, bw) ==
  LET ref == FestiveReference(p, bw)
      moves == ref.quality # p.quality /\ ~ StaysBetter(p, bw, ref.quality)
  IN  [p EXCEPT !.quality = IF moves THEN ref.quality ELSE @,
                !.switchUp = IF moves /\ ref.quality > p.quality THEN 0 ELSE ref.count]

-------------------------------------------------------------------------------
(* Panda: a margin of 0.3 Mbps below the smoothed share, and more of it upwards; never *)
(* the highest quality.                                                                *)

FindLargest(fits) == Max({0} \cup {q \in fits : q < Top})
Panda(p, bw) ==
  LET up == FindLargest({q \in 0 .. Top : 100 * Rate(q) <= 85 * bw - 300})
      down == FindLargest({q \in 0 .. Top : Rate(q) <= bw - 3})
  IN  Returns(p, IF p.quality < up THEN up ELSE IF p.quality <= down THEN p.quality ELSE down)

-------------------------------------------------------------------------------
(* Tobasco: a fast start while the buffer grows, then by the level of the buffer. *)

TobascoFastStart(p, bw) ==
  /\ p.fast /\ p.quality # Top /\ p.rising
  /\ 100 * Rate(p.quality) <= 75 * bw
TobascoFraction(level) == IF level < 10 THEN 33 ELSE IF level < 20 THEN 50 ELSE 75
Tobasco(p, bw) ==
  LET up == Min({p.quality + 1, Top})
      down == Max({p.quality - 1, 0})
  IN  IF TobascoFastStart(p, bw)
      THEN IF 100 * Rate(up) <= TobascoFraction(p.level) * bw THEN Returns(p, up) ELSE p
      ELSE Returns([p EXCEPT !.fast = FALSE],
             CASE p.level < 10 -> 0
               [] p.level \in 10 .. 19 /\ Rate(p.quality) >= bw -> down
               [] p.level >= 40 /\ 10 * Rate(up) < 9 * bw -> up
               [] OTHER -> p.quality)

-------------------------------------------------------------------------------
(* Osmp: by the ratio of the duration of a segment and of its download. *)

OsmpUpUnbounded(p, bw) ==
  Min({q \in 1 .. Top + 1 : q <= Top - 1 => bw < Rate(q + 1)} \ {Top})
OsmpUp(p, bw) ==
  LET Stops(q) == q = Top \/ bw < Rate(q + 1)
  IN  Min({q \in 1 .. Top : Stops(q)})
\* From the highest quality a download that is fast enough leads to the lowest one.
Osmp(p, bw) ==
  Returns(p, IF bw < Rate(p.quality)
           THEN IF p.quality = 0 \/ bw < Rate(p.quality - 1) THEN 0 ELSE p.quality - 1
           ELSE IF p.quality < Top THEN OsmpUp(p, bw) ELSE 0)

-------------------------------------------------------------------------------
(* Raahs: up by one if the download beats every step between rates, down to what the   *)
(* link carries.  The index of the loop is unsigned: if no lower rate is below the     *)
(* bandwidth, it reads far beyond the rates.                                           *)

Raahs(p, bw) ==
  LET Carried(q) == q < p.quality /\ Rate(q) < bw
  IN  IF \A q \in 0 .. Top - 1 : Exceeds(bw, Rate(p.quality), 1, StepUp(q))
      THEN Returns(p, Min({p.quality + 1, Top}))
      ELSE IF 100 * bw < 67 * Rate(p.quality)
      THEN IF \E q \in 0 .. Top : Carried(q) THEN Returns(p, Highest(Carried, 0)) ELSE [p EXCEPT !.crashed = TRUE]
      ELSE p

-------------------------------------------------------------------------------
(* Fdash: fuzzy logic gives a factor between a quarter and four; what is expected of   *)
(* the buffer in a minute can veto the change.                                         *)

Fdash(p, bw, quarters) ==
  LET Fits(q) == quarters * bw > 4 * Rate(q)
      wanted == Highest(Fits, p.quality)
      \* t_60 - t, times the rate
      later == (p.level - 20) * Rate(wanted) + 60 * (bw - Rate(wanted))
      vetoed == \/ wanted > p.quality /\ later < 0
                \/ wanted < p.quality /\ later > 0
  IN  IF vetoed THEN p ELSE Returns(p, wanted)

-------------------------------------------------------------------------------
(* Sftm: the time left for the next segment, in quarters of its duration, against the  *)
(* time the last one took; at least three quarters, until once it was more.            *)

Sftm(p, bw, left) ==
  LET exceeded == p.exceeded \/ left >= 3
      x == Min({4, IF exceeded THEN left ELSE 3}) * bw
      y == 4 * Rate(p.quality)
      up == /\ p.quality < Top
            /\ \/ Exceeds(x, y, 2, StepUp(p.quality))
               \/ \A q \in 0 .. Top - 1 : Exceeds(x, y, 1, StepUp(q))
      down == /\ p.quality # 0 /\ FallsBelow(x, y, 1, StepDown(p.quality))
              /\ \E q \in 1 .. Top : FallsBelow(x, y, 2, StepDown(q))
      \* none that fits, no change
      Fits(q) == q < p.quality /\ 4 * Rate(q) < x
  IN  Returns([p EXCEPT !.exceeded = exceeded],
            IF up THEN p.quality + 1 ELSE IF down THEN Highest(Fits, p.quality) ELSE p.quality)

-------------------------------------------------------------------------------
(* Svaa: at once when the buffer is low, else after the expected rate has exceeded the *)
(* current one often enough.  tendency compares both rates, which the level decides,   *)
(* and patience is m_k, by the change of the level.                                    *)

SvaaWaits == {1, 5, 15, 20}
Svaa(p, bw, tendency, patience) ==
  LET Fits(q) == Rate(q) <= bw
      best == Highest(Fits, 0)
      m == (patience + p.waits[1] + p.waits[2]) \div 3
      seen == [p EXCEPT !.waits = <<patience, p.waits[1]>>]
  IN  IF p.level < 10 THEN Returns(seen, best)
      ELSE IF tendency = "above"
      THEN IF p.counter + 1 > m THEN Returns([seen EXCEPT !.counter = 0], best)
           ELSE [seen EXCEPT !.counter = @ + 1]
      ELSE IF tendency = "below" THEN [seen EXCEPT !.counter = 0] ELSE seen

-------------------------------------------------------------------------------
(* RequestSegment. *)

\* What the algorithm can return.
GetNextQuality(p, bw) ==
  CASE p.algorithm = "festive" -> {Festive(p, bw)}
    [] p.algorithm = "panda" -> {Panda(p, bw)}
    [] p.algorithm = "tobasco" -> {Tobasco(p, bw)}
    [] p.algorithm = "osmp" -> {Osmp(p, bw)}
    [] p.algorithm = "raahs" -> {Raahs(p, bw)}
    [] p.algorithm = "fdash" -> {Fdash(p, bw, quarters) : quarters \in 1 .. 16}
    [] p.algorithm = "sftm" -> {Sftm(p, bw, left) : left \in -1 .. 4}
    [] p.algorithm = "svaa" -> {Svaa(p, bw, tendency, patience) :
                                  tendency \in {"above", "same", "below"}, patience \in SvaaWaits}

UsesLevel == {"tobasco", "fdash", "svaa"}

\* history_quality_ counts for festive only, whether the last qualities differ, and
\* bufferLevelNew for tobasco only, whether it ever fell.
Remember(before, after) ==
  LET all == Append(before.changes, before.quality # after.quality)
  IN  [after EXCEPT !.changes = IF after.algorithm = "festive" THEN LastOf(all, 4) ELSE @,
                    !.level = IF after.algorithm = "tobasco" /\ after.rising THEN @ ELSE 0]

\* The first segment is of the lowest quality.
AdaptationInit ==
  /\ \E algorithm \in Algorithms :
       player = [ algorithm |-> algorithm, quality |-> 0, level |-> 0, rising |-> TRUE, fast |-> TRUE,
                  switchUp |-> 0, changes |-> <<>>, exceeded |-> FALSE, waits |-> <<0, 0>>, counter |-> 0,
                  crashed |-> FALSE ]
  /\ bandwidth \in Bandwidths /\ steady = FALSE

RequestSegment ==
  /\ ~ player.crashed
  /\ \E level \in IF player.algorithm \in UsesLevel THEN Levels ELSE {0} :
     \E next \in GetNextQuality([player EXCEPT !.level = level, !.rising = @ /\ level >= player.level], bandwidth) :
       player' = Remember(player, next)
  /\ UNCHANGED <<bandwidth, steady>>

LinkChanges == ~ steady /\ bandwidth' \in Bandwidths /\ UNCHANGED <<player, steady>>
LinkSettles == ~ steady /\ steady' = TRUE /\ UNCHANGED <<player, bandwidth>>

AdaptationNext == RequestSegment \/ LinkChanges \/ LinkSettles

-------------------------------------------------------------------------------
(* Properties. *)

\* Every quality an algorithm returns exists, in whatever way the link behaves; an
\* index out of range is possible in raahs alone.
QualityInRange ==
  player.quality \in 0 .. Top /\ (player.crashed => player.algorithm = "raahs")

\* The algorithms that go by the bandwidth never raise the quality to a rate the link
\* does not carry, and every quality exists.
Cautious == {"festive", "panda", "tobasco", "raahs", "sftm", "svaa"}
RaisesOnlyWhatTheLinkCarries ==
  []QualityInRange /\
  [][ player.algorithm \in Cautious /\ player'.quality > player.quality =>
        Rate(player'.quality) <= bandwidth ]_adaptationVars

\* Once the bandwidth that is estimated from the last downloads has become steady, the
\* quality of festive settles at the highest rate of at most 0.8 of it, and that of svaa
\* settles however the level of the buffer moves.  Nothing is said of the others: panda,
\* osmp, raahs and sftm go by a share they keep or by the ratio of one download, which a
\* steady link does not hold still, and tobasco and fdash follow the level of the buffer.
Settling == {"festive", "svaa"}
QualitySettles ==
  /\ <>[](steady /\ player.algorithm = "festive" => player.quality = FestiveTarget(bandwidth))
  /\ <>[][steady /\ player.algorithm \in Settling => player'.quality = player.quality]_adaptationVars
=============================================================================
