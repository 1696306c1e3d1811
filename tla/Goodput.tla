------------------------------- MODULE Goodput -------------------------------
(***************************************************************************)
(* How fast a path may send: the goodput filter and the packet budget of a *)
(* TcpConnectionBase (src/tpproxy/mpproxy_types.cc), the same as those of  *)
(* a TpProxyBase.  One alarm measures the goodput, another grants budget,  *)
(* each as late as the event loop is; the path sends while budget is left. *)
(*                                                                         *)
(* Time is counted in budget intervals, rates in bytes per interval.       *)
(***************************************************************************)
EXTENDS Integers, Sequences

CONSTANTS
  Window,        \* kBandwithWindowSize, in measurements
  MaxAcked,      \* bytes acknowledged in an interval
  MinGoodput,    \* kMinGoodput
  BudgetWindow,  \* kWindowMs
  Late,          \* how many intervals a budget alarm can be late
  Chunk          \* bytes of one send

ASSUME GoodputAssumption ==
  /\ Window \in Nat \ {0} /\ Chunk \in Nat \ {0} /\ Late \in Nat \ {0}
  /\ BudgetWindow \in Nat \ {0} /\ MinGoodput \in Nat \ {0}
  /\ MaxAcked \in Nat
  /\ Chunk <= BudgetWindow * ((5 * MinGoodput) \div 4)

VARIABLES
  filter,   \* max_goodput_: the best, second and third estimate, each with its age
  recent,   \* the measurements of the last Window + 1 rounds, the newest first
  budget,   \* packet_budget_: its rate and bytes
  excess    \* what was sent beyond what the rate allows so far

goodputVars == <<filter, recent, budget, excess>>

-------------------------------------------------------------------------------
(* WindowedFilter with MaxFilter. *)

Estimate(x) == [sample |-> x, age |-> 0]
ResetFilter(x) == [i \in 1 .. 3 |-> Estimate(x)]

\* A sample as good as the second or the third estimate takes its place.
Improve(f, x) ==
  IF x >= f[2].sample THEN <<f[1], Estimate(x), Estimate(x)>>
  ELSE IF x >= f[3].sample THEN [f EXCEPT ![3] = Estimate(x)] ELSE f

\* The best estimate leaves the window, the second one may have left it as well.
Promote(f, x) ==
  IF f[2].age > Window THEN <<f[3], Estimate(x), Estimate(x)>> ELSE <<f[2], f[3], Estimate(x)>>

\* The second estimate is to be from the second quarter of the window, the third one
\* from its second half.
SpreadNothing(f, x) == f
Spread(f, x) ==
  CASE f[2].sample = f[1].sample /\ f[2].age > Window \div 4 -> <<f[1], Estimate(x), Estimate(x)>>
    [] f[2].sample # f[1].sample \/ f[2].age <= Window \div 4 ->
         IF f[3].sample = f[2].sample /\ f[3].age > Window \div 2 THEN [f EXCEPT ![3] = Estimate(x)] ELSE f

UpdateFilter(old, x) ==
  LET f == [i \in 1 .. 3 |-> [old[i] EXCEPT !.age = @ + 1]]
      better == Improve(f, x)
  IN  IF f[1].sample = 0 \/ x >= f[1].sample \/ f[3].age > Window THEN ResetFilter(x)
      ELSE IF better[1].age > Window THEN Promote(better, x)
      ELSE Spread(better, x)

GetBest == filter[1].sample

-------------------------------------------------------------------------------
(* IntervalBudget. *)

Lower(a, b) == IF a <= b THEN a ELSE b
Higher(a, b) == IF a <= b THEN b ELSE a

MaxBytes(rate) == BudgetWindow * rate
SetTargetRate(b, rate) ==
  [rate |-> rate, remaining |-> Lower(Higher(- MaxBytes(rate), b.remaining), MaxBytes(rate))]
IncreaseBudgetAlways(b, bytes) ==
  [b EXCEPT !.remaining = Lower(@ + bytes, MaxBytes(b.rate))]
IncreaseBudget(b, bytes) ==
  [b EXCEPT !.remaining = Lower(IF @ < 0 THEN @ + bytes ELSE bytes, MaxBytes(b.rate))]
UseBudget(b, bytes) == [b EXCEPT !.remaining = Higher(@ - bytes, - MaxBytes(b.rate))]

-------------------------------------------------------------------------------
(* The path. *)

GoodputWithMinimum(best) == Higher(best, MinGoodput)
Target(best) == (5 * GoodputWithMinimum(best)) \div 4

\* FromBytesAndTimeDelta, if bytes were acknowledged and time has passed.
Sample(acked, elapsed) == IF elapsed > 0 THEN acked \div elapsed ELSE 0

\* What the rate allows in the time that has passed pays for what was sent.
Grant(b, bytes) ==
  /\ budget' = IncreaseBudget(b, bytes)
  /\ excess' = Higher(excess - bytes, 0)

GoodputInit ==
  /\ filter = ResetFilter(0) /\ recent = <<>> /\ excess = 0
  /\ budget = IncreaseBudget(SetTargetRate([rate |-> 0, remaining |-> 0], Target(0)), Target(0))

OnGoodputAlarm ==
  /\ \E acked \in 0 .. MaxAcked, elapsed \in {0, 1} :
       LET x == Sample(acked, elapsed)
       IN  /\ filter' = UpdateFilter(filter, x)
           /\ recent' = SubSeq(<<x>> \o recent, 1, Lower(Len(recent) + 1, Window + 1))
  /\ budget' = SetTargetRate(budget, Target(filter'[1].sample))
  /\ UNCHANGED excess

\* Nothing is granted when the clock has not moved since the last alarm.
OnBudgetAlarm ==
  /\ \E elapsed \in 0 .. Late :
       LET b == SetTargetRate(budget, Target(GetBest))
       IN  IF elapsed > 0 THEN Grant(b, b.rate * elapsed) ELSE UNCHANGED <<budget, excess>>
  /\ UNCHANGED <<filter, recent>>

CanSend == budget.remaining > 0
FlushChunk ==
  /\ CanSend
  /\ \E sent \in 1 .. Chunk : budget' = UseBudget(budget, sent) /\ excess' = excess + sent
  /\ UNCHANGED <<filter, recent>>

GoodputNext == OnGoodputAlarm \/ OnBudgetAlarm \/ FlushChunk

GoodputSpec == GoodputInit /\ [][GoodputNext]_goodputVars

-------------------------------------------------------------------------------
(* Properties. *)

\* An estimate is what was measured when its age says, within the window, and nothing
\* measured since then is as good.
IsMeasured(e, r) ==
  /\ e.age <= Window /\ e.age < Len(r) /\ e.sample = r[e.age + 1]
  /\ \A k \in 1 .. e.age : r[k] < e.sample

\* d takes over from e when e leaves the window: it is no better, and younger unless
\* both are the same measurement, at most limit rounds old.
Follows(d, e, limit) ==
  /\ d.sample <= e.sample /\ d.age <= e.age
  /\ d.age = e.age => e.age <= limit

EstimatesSound(f, r) ==
  /\ \A i \in 1 .. 3 : IsMeasured(f[i], r)
  /\ Follows(f[2], f[1], Window \div 2 + 1) /\ Follows(f[3], f[2], Window \div 2)

\* The rate of a path rests on goodputs measured in the window, the best of all since
\* they were measured, and one from the later part of the window is always at hand.
EstimatesAreRecent == recent # <<>> => EstimatesSound(filter, recent)

\* However late the alarms are and however the goodput changes, a path never sends
\* more beyond its rate than one late grant and the rest of one chunk.
LargestGrant == LET rate == Target(MaxAcked) IN Lower(rate * Late, MaxBytes(rate))
BurstBounded == excess <= LargestGrant + Chunk - 1
=============================================================================
