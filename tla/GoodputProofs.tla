---------------------------- MODULE GoodputProofs ----------------------------
(***************************************************************************)
(* What sets and what limits the rate of a path, for every window, rate,   *)
(* chunk size and lateness of the alarms.                                  *)
(*                                                                         *)
(* The bound on the bursts is not inductive by itself: what a path may     *)
(* still send counts too, and the budget must never be overdrawn by a      *)
(* whole chunk, or a change of the rate would forgive a part of what was   *)
(* overdrawn.  The three estimates of the filter are inductive: each case  *)
(* of UpdateFilter builds them of estimates grown by a round and of the    *)
(* newest measurement, so that a lemma for either kind of part, and one    *)
(* for what may take over from it, cover all of them.                      *)
(***************************************************************************)
EXTENDS Goodput, TLAPS

Goodputs == 0 .. MaxAcked
Estimates == [sample : Goodputs, age : Nat]
Filters == [1 .. 3 -> Estimates]

TopRate == Target(MaxAcked)

\* The budget is overdrawn by less than a chunk, and what was sent too much together
\* with what may still be sent is never more than one late grant.
BurstInv ==
  /\ filter \in Filters
  /\ budget \in [rate : Target(0) .. TopRate, remaining : Int]
  /\ 1 - Chunk <= budget.remaining
  /\ excess \in Nat
  /\ excess + budget.remaining <= LargestGrant

-------------------------------------------------------------------------------
(* Rates. *)

LEMMA TargetType ==
  ASSUME NEW best \in Goodputs
  PROVE  Target(best) \in Target(0) .. TopRate /\ Target(0) \in Nat \ {0}
  BY GoodputAssumption, SMT DEF Goodputs, Target, TopRate, GoodputWithMinimum, Higher

LEMMA Monotone ==
  ASSUME NEW a \in Nat, NEW b \in Nat, NEW c \in Nat, a <= b
  PROVE  c * a \in Nat /\ c * a <= c * b
  OBVIOUS

LEMMA MaxBytesType ==
  ASSUME NEW rate \in Target(0) .. TopRate
  PROVE  /\ rate \in Nat /\ MaxBytes(rate) \in Nat /\ Chunk <= MaxBytes(rate)
         /\ MaxBytes(rate) <= MaxBytes(TopRate)
<1>1. Target(0) \in Nat /\ TopRate \in Nat /\ BudgetWindow \in Nat /\ rate \in Nat
  BY GoodputAssumption, SMT DEF Target, TopRate, GoodputWithMinimum, Higher
<1>2. Target(0) = (5 * MinGoodput) \div 4
  BY GoodputAssumption, SMT DEF Target, GoodputWithMinimum, Higher
<1>3. BudgetWindow * Target(0) <= BudgetWindow * rate
      /\ BudgetWindow * rate <= BudgetWindow * TopRate
      /\ BudgetWindow * Target(0) \in Nat /\ BudgetWindow * rate \in Nat /\ BudgetWindow * TopRate \in Nat
  BY <1>1, Monotone
<1>. QED  BY <1>1, <1>2, <1>3, GoodputAssumption DEF MaxBytes

LEMMA LargestGrantType == LargestGrant \in Nat /\ LargestGrant = Lower(TopRate * Late, MaxBytes(TopRate))
<1>1. TopRate \in Nat /\ TopRate \in Target(0) .. TopRate
  BY GoodputAssumption, SMT DEF Target, TopRate, GoodputWithMinimum, Higher
<1>2. MaxBytes(TopRate) \in Nat
  BY <1>1, MaxBytesType
<1>3. TopRate * Late \in Nat
  BY <1>1, GoodputAssumption
<1>. QED  BY <1>2, <1>3 DEF LargestGrant, Lower, TopRate

\* What one grant adds is never more than the largest.
LEMMA GrantBounded ==
  ASSUME NEW rate \in Target(0) .. TopRate, NEW elapsed \in 0 .. Late
  PROVE  rate * elapsed \in Nat /\ Lower(rate * elapsed, MaxBytes(rate)) <= LargestGrant
<1>1. rate \in Nat /\ TopRate \in Nat /\ elapsed \in Nat /\ Late \in Nat /\ rate <= TopRate /\ elapsed <= Late
  BY GoodputAssumption, SMT DEF Target, TopRate, GoodputWithMinimum, Higher
<1>2. rate * elapsed \in Nat /\ rate * elapsed <= rate * Late
  BY <1>1, Monotone
<1>3. Late * rate <= Late * TopRate /\ rate * Late = Late * rate /\ TopRate * Late = Late * TopRate
      /\ Late * rate \in Nat /\ Late * TopRate \in Nat
  BY <1>1, Monotone
<1>4. rate * elapsed <= TopRate * Late
  BY <1>2, <1>3
<1>. QED  BY <1>2, <1>3, <1>4, MaxBytesType, LargestGrantType DEF Lower, MaxBytes

-------------------------------------------------------------------------------
(* The filter. *)

LEMMA EstimateType == ASSUME NEW x \in Goodputs PROVE Estimate(x) \in Estimates
  BY DEF Estimate, Estimates

LEMMA FilterOfThree ==
  ASSUME NEW a \in Estimates, NEW b \in Estimates, NEW c \in Estimates
  PROVE  <<a, b, c>> \in Filters
  BY DEF Filters

LEMMA FilterParts ==
  ASSUME NEW f \in Filters
  PROVE  f[1] \in Estimates /\ f[2] \in Estimates /\ f[3] \in Estimates
  BY DEF Filters

LEMMA FilterExcept ==
  ASSUME NEW f \in Filters, NEW e \in Estimates
  PROVE  [f EXCEPT ![3] = e] \in Filters
  BY DEF Filters

LEMMA ResetFilterType == ASSUME NEW x \in Goodputs PROVE ResetFilter(x) \in Filters
  BY EstimateType DEF ResetFilter, Filters

\* Whatever is measured, the estimates are goodputs.
LEMMA UpdateFilterType ==
  ASSUME NEW old \in Filters, NEW x \in Goodputs
  PROVE  UpdateFilter(old, x) \in Filters
<1>. DEFINE f == [i \in 1 .. 3 |-> [old[i] EXCEPT !.age = @ + 1]]
            better == Improve(f, x)
<1>1. f \in Filters
  BY DEF Filters, Estimates
<1>2. Estimate(x) \in Estimates
  BY EstimateType
<1>. HIDE DEF f
<1>3. better \in Filters
  BY <1>1, <1>2, FilterOfThree, FilterParts, FilterExcept DEF Improve
<1>. HIDE DEF better
<1>4. Promote(better, x) \in Filters
  BY <1>2, <1>3, FilterOfThree, FilterParts DEF Promote
<1>5. Spread(better, x) \in Filters
  <2>1. /\ <<better[1], Estimate(x), Estimate(x)>> \in Filters
        /\ [better EXCEPT ![3] = Estimate(x)] \in Filters
    BY <1>2, <1>3, FilterOfThree, FilterParts, FilterExcept
  <2>2. CASE better[2].sample = better[1].sample /\ better[2].age > Window \div 4
    <3>1. ~ (better[2].sample # better[1].sample \/ better[2].age <= Window \div 4)
      BY <1>3, <2>2, FilterParts, GoodputAssumption DEF Estimates
    <3>. QED  BY <1>3, <2>1, <2>2, <3>1 DEF Spread
  <2>3. CASE better[2].sample # better[1].sample \/ better[2].age <= Window \div 4
    <3>1. ~ (better[2].sample = better[1].sample /\ better[2].age > Window \div 4)
      BY <1>3, <2>3, FilterParts, GoodputAssumption DEF Estimates
    <3>. QED  BY <1>3, <2>1, <2>3, <3>1 DEF Spread
  <2>. QED  BY <1>3, <2>2, <2>3, FilterParts, GoodputAssumption DEF Estimates
<1>. QED  BY <1>4, <1>5, ResetFilterType DEF UpdateFilter, f, better

-------------------------------------------------------------------------------
(* The budget. *)

\* A change of the rate takes from what may be sent, and never adds to it.
LEMMA SetTargetRateType ==
  ASSUME NEW b \in [rate : Int, remaining : Int], NEW rate \in Target(0) .. TopRate,
         1 - Chunk <= b.remaining
  PROVE  LET new == SetTargetRate(b, rate)
         IN  /\ new \in [rate : Target(0) .. TopRate, remaining : Int] /\ new.rate = rate
             /\ 1 - Chunk <= new.remaining
             /\ new.remaining <= b.remaining
<1>1. MaxBytes(rate) \in Nat /\ Chunk <= MaxBytes(rate) /\ Chunk \in Nat \ {0}
  BY MaxBytesType, GoodputAssumption
<1>2. - MaxBytes(rate) <= b.remaining /\ b.remaining \in Int
  BY <1>1
<1>. QED  BY <1>1, <1>2 DEF SetTargetRate, Lower, Higher

\* A grant pays back as much as it adds, or leaves less than the largest one.
LEMMA GrantKeeps ==
  ASSUME NEW b \in [rate : Target(0) .. TopRate, remaining : Int], NEW elapsed \in 0 .. Late,
         1 - Chunk <= b.remaining, excess \in Nat, excess + b.remaining <= LargestGrant,
         Grant(b, b.rate * elapsed)
  PROVE  /\ budget' \in [rate : Target(0) .. TopRate, remaining : Int]
         /\ 1 - Chunk <= budget'.remaining
         /\ excess' \in Nat
         /\ excess' + budget'.remaining <= LargestGrant
<1>. DEFINE bytes == b.rate * elapsed
<1>1. /\ bytes \in Nat /\ Lower(bytes, MaxBytes(b.rate)) <= LargestGrant
      /\ LargestGrant \in Nat /\ MaxBytes(b.rate) \in Nat
      /\ b.remaining \in Int /\ Chunk \in Nat \ {0}
  BY GrantBounded, LargestGrantType, MaxBytesType, GoodputAssumption
<1>2. budget' = IncreaseBudget(b, bytes) /\ excess' = Higher(excess - bytes, 0)
  BY DEF Grant
<1>. HIDE DEF bytes
<1>3. /\ budget' = [b EXCEPT !.remaining = budget'.remaining]
      /\ budget'.remaining = Lower(IF b.remaining < 0 THEN b.remaining + bytes ELSE bytes, MaxBytes(b.rate))
  BY <1>2 DEF IncreaseBudget
<1>4. budget'.remaining \in Int /\ 1 - Chunk <= budget'.remaining
  BY <1>1, <1>3 DEF Lower
<1>5. budget'.remaining <= LargestGrant
  BY <1>1, <1>3 DEF Lower
<1>6. excess' \in Nat
  BY <1>1, <1>2 DEF Higher
<1>7. excess' + budget'.remaining <= LargestGrant
  BY <1>1, <1>2, <1>3, <1>4, <1>5 DEF Lower, Higher
<1>. QED  BY <1>3, <1>4, <1>6, <1>7

-------------------------------------------------------------------------------
(* The invariant. *)

LEMMA BurstInit == GoodputInit => BurstInv
<1>. SUFFICES ASSUME GoodputInit PROVE BurstInv
  OBVIOUS
<1>. DEFINE empty == [rate |-> 0, remaining |-> 0]
            b == SetTargetRate(empty, Target(0))
<1>1. Target(0) \in Target(0) .. TopRate /\ Target(0) \in Nat \ {0} /\ 0 \in Goodputs
  BY TargetType, GoodputAssumption DEF Goodputs
<1>2. filter \in Filters
  BY <1>1, ResetFilterType DEF GoodputInit
<1>3. /\ b \in [rate : Target(0) .. TopRate, remaining : Int] /\ b.rate = Target(0)
      /\ b.remaining = 0
  BY <1>1, MaxBytesType, SMT DEF SetTargetRate, Lower, Higher
<1>4. budget = [b EXCEPT !.remaining = Lower(Target(0), MaxBytes(Target(0)))] /\ excess = 0
  BY <1>3, SMT DEF GoodputInit, IncreaseBudget
<1>. HIDE DEF b
<1>5. Target(0) * 1 = Target(0) /\ 1 \in 0 .. Late
  BY <1>1, GoodputAssumption
<1>6. Lower(Target(0), MaxBytes(Target(0))) <= LargestGrant
  BY <1>1, <1>5, GrantBounded
<1>7. Lower(Target(0), MaxBytes(Target(0))) \in Nat
  BY <1>1, MaxBytesType DEF Lower
<1>. QED  BY <1>2, <1>3, <1>4, <1>6, <1>7, GoodputAssumption, LargestGrantType DEF BurstInv

LEMMA BurstStep == BurstInv /\ [GoodputNext]_goodputVars => BurstInv'
<1>. SUFFICES ASSUME BurstInv, [GoodputNext]_goodputVars PROVE BurstInv'
  OBVIOUS
<1>. USE DEF BurstInv
<1>1. CASE OnGoodputAlarm
  <2>1. PICK acked \in 0 .. MaxAcked, elapsed \in {0, 1} :
          filter' = UpdateFilter(filter, Sample(acked, elapsed))
    BY <1>1 DEF OnGoodputAlarm
  <2>2. Sample(acked, elapsed) \in Goodputs
    BY GoodputAssumption, SMT DEF Sample, Goodputs
  <2>3. filter' \in Filters
    BY <2>1, <2>2, UpdateFilterType
  <2>4. Target(filter'[1].sample) \in Target(0) .. TopRate
    BY <2>3, FilterParts, TargetType DEF Estimates
  <2>5. /\ budget' = SetTargetRate(budget, Target(filter'[1].sample))
        /\ excess' = excess
    BY <1>1 DEF OnGoodputAlarm
  <2>6. budget \in [rate : Int, remaining : Int] /\ LargestGrant \in Nat
    BY LargestGrantType, TargetType, GoodputAssumption DEF Goodputs
  <2>7. /\ budget' \in [rate : Target(0) .. TopRate, remaining : Int]
        /\ 1 - Chunk <= budget'.remaining /\ budget'.remaining <= budget.remaining
    BY <2>4, <2>5, <2>6, SetTargetRateType
  <2>. QED  BY <2>3, <2>5, <2>6, <2>7
<1>2. CASE OnBudgetAlarm
  <2>. DEFINE b == SetTargetRate(budget, Target(GetBest))
  <2>1. PICK elapsed \in 0 .. Late :
          IF elapsed > 0 THEN Grant(b, b.rate * elapsed) ELSE UNCHANGED <<budget, excess>>
    BY <1>2 DEF OnBudgetAlarm
  <2>2. filter' = filter
    BY <1>2 DEF OnBudgetAlarm
  <2>3. Target(GetBest) \in Target(0) .. TopRate
    BY FilterParts, TargetType DEF Estimates, GetBest
  <2>4. budget \in [rate : Int, remaining : Int] /\ LargestGrant \in Nat /\ budget.remaining \in Int
    BY LargestGrantType, TargetType, GoodputAssumption DEF Goodputs
  <2>5. /\ b \in [rate : Target(0) .. TopRate, remaining : Int]
        /\ 1 - Chunk <= b.remaining /\ b.remaining <= budget.remaining
    BY <2>3, <2>4, SetTargetRateType
  <2>. HIDE DEF b
  <2>6. excess + b.remaining <= LargestGrant
    BY <2>4, <2>5
  <2>7. CASE elapsed > 0
    BY <2>1, <2>2, <2>5, <2>6, <2>7, GrantKeeps
  <2>8. CASE ~ (elapsed > 0)
    BY <2>1, <2>2, <2>8
  <2>. QED  BY <2>7, <2>8
<1>3. CASE FlushChunk
  <2>1. PICK sent \in 1 .. Chunk : budget' = UseBudget(budget, sent) /\ excess' = excess + sent
    BY <1>3 DEF FlushChunk
  <2>2. filter' = filter /\ budget.remaining > 0
    BY <1>3 DEF FlushChunk, CanSend
  <2>3. MaxBytes(budget.rate) \in Nat /\ Chunk <= MaxBytes(budget.rate) /\ Chunk \in Nat \ {0}
        /\ LargestGrant \in Nat
    BY MaxBytesType, GoodputAssumption, LargestGrantType
  <2>4. budget' = [budget EXCEPT !.remaining = budget.remaining - sent]
    BY <2>1, <2>2, <2>3 DEF UseBudget, Higher
  <2>. QED  BY <2>1, <2>2, <2>3, <2>4
<1>4. CASE UNCHANGED goodputVars
  BY <1>4 DEF goodputVars
<1>. QED  BY <1>1, <1>2, <1>3, <1>4 DEF GoodputNext

\* The bytes that the invariant speaks of bound what was sent: a path never sends more
\* beyond its rate than one late grant and the rest of one chunk.
LEMMA BurstFollows == BurstInv => BurstBounded
  BY LargestGrantType, GoodputAssumption DEF BurstInv, BurstBounded

\* However late the alarms are and however the measured goodput changes, the bursts
\* of OnBudgetAlarm and FlushBuffer stay bounded, for every window, rate, chunk size
\* and lateness.
THEOREM BurstAlwaysBounded == GoodputSpec => []BurstBounded
<1>1. GoodputSpec => []BurstInv
  BY BurstInit, BurstStep, PTL DEF GoodputSpec
<1>. QED  BY <1>1, BurstFollows, PTL
-------------------------------------------------------------------------------
(* The estimates. *)

Measurements == Seq(Goodputs)

FilterInv ==
  /\ filter \in Filters /\ recent \in Measurements /\ Len(recent) <= Window + 1
  /\ IF recent = <<>> THEN filter = ResetFilter(0) ELSE EstimatesSound(filter, recent)

\* s is what was measured by the round after r, whose measurement is x.
Records(s, r, x) ==
  /\ Len(s) = Lower(Len(r) + 1, Window + 1)
  /\ s[1] = x /\ \A k \in 1 .. Len(s) - 1 : s[k + 1] = r[k]

Grown(e) == [e EXCEPT !.age = @ + 1]

LEMMA WindowParts ==
  /\ Window \in Nat \ {0} /\ Window \div 2 \in Nat /\ Window \div 4 \in Nat
  /\ Window \div 4 <= Window \div 2
  BY GoodputAssumption, SMT

LEMMA EstimateParts ==
  ASSUME NEW e \in Estimates
  PROVE  /\ e.sample \in Nat /\ e.age \in Nat
         /\ Grown(e) \in Estimates /\ Grown(e).sample = e.sample /\ Grown(e).age = e.age + 1
  BY GoodputAssumption DEF Estimates, Goodputs, Grown

LEMMA NewestParts ==
  ASSUME NEW x \in Goodputs
  PROVE  Estimate(x) \in Estimates /\ Estimate(x).sample = x /\ Estimate(x).age = 0 /\ x \in Nat
  BY GoodputAssumption DEF Estimate, Estimates, Goodputs

LEMMA NewestMeasured ==
  ASSUME NEW s \in Measurements, NEW x \in Goodputs, s[1] = x, Len(s) > 0
  PROVE  IsMeasured(Estimate(x), s)
<1>1. Estimate(x).age = 0 /\ Estimate(x).sample = s[1] /\ 0 + 1 = 1 /\ Len(s) \in Nat
  BY NewestParts
<1>. QED  BY <1>1, WindowParts DEF IsMeasured

\* An estimate that beats the newest measurement and stays in the window stays sound.
LEMMA GrownMeasured ==
  ASSUME NEW r \in Measurements, NEW s \in Measurements, NEW x \in Goodputs, Records(s, r, x),
         NEW e \in Estimates, IsMeasured(e, r), x < e.sample, e.age + 1 <= Window
  PROVE  IsMeasured(Grown(e), s)
<1>1. /\ e.age \in Nat /\ Grown(e).sample = e.sample /\ Grown(e).age = e.age + 1
      /\ Len(r) \in Nat /\ Len(s) \in Nat
  BY EstimateParts
<1>2. /\ e.age < Len(r) /\ e.sample = r[e.age + 1]
      /\ \A k \in 1 .. e.age : r[k] < e.sample
  BY DEF IsMeasured
<1>3. e.age + 1 < Len(s)
  BY <1>1, <1>2, WindowParts DEF Records, Lower
<1>4. e.age + 1 \in 1 .. Len(s) - 1
  BY <1>1, <1>3
<1>5. s[e.age + 1 + 1] = e.sample
  BY <1>2, <1>4 DEF Records
<1>6. ASSUME NEW k \in 1 .. e.age + 1 PROVE s[k] < e.sample
  <2>1. CASE k = 1
    BY <2>1 DEF Records
  <2>2. CASE k # 1
    <3>1. k - 1 \in 1 .. Len(s) - 1 /\ k - 1 \in 1 .. e.age /\ k - 1 + 1 = k
      BY <1>1, <1>3, <2>2
    <3>. QED  BY <1>2, <3>1 DEF Records
  <2>. QED  BY <2>1, <2>2
<1>. QED  BY <1>1, <1>3, <1>5, <1>6 DEF IsMeasured

\* What takes over: the newest measurement from any estimate it does not beat, and an
\* estimate from another as before, both a round older.
LEMMA NewestFollows ==
  ASSUME NEW x \in Goodputs, NEW e \in Estimates, NEW limit \in Nat, x <= e.sample
  PROVE  Follows(Estimate(x), e, limit)
  BY NewestParts, EstimateParts DEF Follows

LEMMA GrownFollows ==
  ASSUME NEW d \in Estimates, NEW e \in Estimates, NEW limit \in Nat, NEW new \in Nat,
         Follows(d, e, limit), limit + 1 <= new \/ (d.age = e.age => e.age + 1 <= new)
  PROVE  Follows(Grown(d), Grown(e), new)
<1>1. /\ d.age \in Nat /\ e.age \in Nat /\ Grown(d).sample = d.sample /\ Grown(e).sample = e.sample
      /\ Grown(d).age = d.age + 1 /\ Grown(e).age = e.age + 1
  BY EstimateParts
<1>. QED  BY <1>1 DEF Follows

\* One measurement: what leaves the window is replaced and the rest stays sound.
LEMMA UpdateKeeps ==
  ASSUME NEW r \in Measurements, NEW s \in Measurements, NEW x \in Goodputs, Records(s, r, x),
         Len(s) > 0, NEW old \in Filters, EstimatesSound(old, r)
  PROVE  EstimatesSound(UpdateFilter(old, x), s)
<1>. DEFINE f == [i \in 1 .. 3 |-> [old[i] EXCEPT !.age = @ + 1]]
            n == Estimate(x)
            a == old[1]
            b == old[2]
            c == old[3]
            g == Improve(f, x)
            H == Window \div 2
<1>1. a \in Estimates /\ b \in Estimates /\ c \in Estimates /\ n \in Estimates
  BY FilterParts, NewestParts
<1>2. f[1] = Grown(a) /\ f[2] = Grown(b) /\ f[3] = Grown(c) /\ f = <<Grown(a), Grown(b), Grown(c)>>
  BY DEF Grown
<1>3. /\ IsMeasured(a, r) /\ IsMeasured(b, r) /\ IsMeasured(c, r)
      /\ Follows(b, a, H + 1) /\ Follows(c, b, H)
  BY DEF EstimatesSound
<1>4. /\ a.sample \in Nat /\ b.sample \in Nat /\ c.sample \in Nat /\ n.sample = x
      /\ a.age \in Nat /\ b.age \in Nat /\ c.age \in Nat /\ n.age = 0 /\ x \in Nat
      /\ Grown(a) \in Estimates /\ Grown(b) \in Estimates /\ Grown(c) \in Estimates
      /\ Grown(a).sample = a.sample /\ Grown(b).sample = b.sample /\ Grown(c).sample = c.sample
      /\ Grown(a).age = a.age + 1 /\ Grown(b).age = b.age + 1 /\ Grown(c).age = c.age + 1
  BY <1>1, EstimateParts, NewestParts
<1>5. s[1] = x /\ IsMeasured(n, s)
  BY NewestMeasured DEF Records
<1>6. \A e \in {a, b, c} : x < e.sample /\ e.age + 1 <= Window => IsMeasured(Grown(e), s)
  BY <1>1, <1>3, GrownMeasured
<1>7. H \in Nat /\ H + 1 \in Nat /\ Window \in Nat \ {0} /\ Window \div 4 \in Nat /\ Window \div 4 <= H
  BY WindowParts
<1>8. ASSUME NEW u, NEW v, NEW w, IsMeasured(u, s), IsMeasured(v, s), IsMeasured(w, s),
             Follows(v, u, H + 1), Follows(w, v, H)
      PROVE  EstimatesSound(<<u, v, w>>, s)
  BY <1>8 DEF EstimatesSound
<1>9. /\ b.sample <= a.sample /\ c.sample <= b.sample
      /\ b.age <= a.age /\ c.age <= b.age
      /\ b.age = a.age => a.age <= H + 1
      /\ c.age = b.age => b.age <= H
      /\ b.age = a.age => b.sample = a.sample
      /\ c.age = b.age => c.sample = b.sample
      /\ a.age <= Window
  BY <1>3 DEF Follows, IsMeasured
<1>10. Follows(n, n, H) /\ Follows(n, n, H + 1)
  BY <1>1, <1>4, <1>7, NewestFollows, SMTT(30)
<1>. HIDE DEF f, n, a, b, c, H
<1>11. CASE f[1].sample = 0 \/ x >= f[1].sample \/ f[3].age > Window
  <2>1. EstimatesSound(<<n, n, n>>, s)
    BY <1>5, <1>8, <1>10
  <2>2. UpdateFilter(old, x) = ResetFilter(x)
    BY <1>11 DEF UpdateFilter, f
  <2>3. ResetFilter(x) = <<n, n, n>>
    BY DEF ResetFilter, n
  <2>. QED  BY <2>1, <2>2, <2>3
<1>12. CASE ~ (f[1].sample = 0 \/ x >= f[1].sample \/ f[3].age > Window)
  <2>1. x < a.sample /\ c.age + 1 <= Window
    BY <1>2, <1>4, <1>7, <1>12
  <2>2. PICK v, w : /\ g = <<Grown(a), v, w>>
                    /\ \/ v = n /\ w = n /\ x >= b.sample
                       \/ v = Grown(b) /\ w = n /\ x < b.sample /\ x >= c.sample
                       \/ v = Grown(b) /\ w = Grown(c) /\ x < c.sample /\ x < b.sample
    <3>1. CASE x >= b.sample
      BY <1>2, <1>4, <3>1 DEF Improve, n
    <3>2. CASE x < b.sample /\ x >= c.sample
      <4>1. [f EXCEPT ![3] = n] = <<Grown(a), Grown(b), n>>
        BY <1>2
      <4>. QED  BY <1>2, <1>4, <3>2, <4>1 DEF Improve, n
    <3>3. CASE x < c.sample
      <4>1. x < b.sample
        BY <1>4, <1>9, <3>3
      <4>. QED  BY <1>2, <1>4, <3>3, <4>1 DEF Improve
    <3>. QED  BY <1>4, <3>1, <3>2, <3>3
  <2>. HIDE DEF g
  <2>3. g[1] = Grown(a) /\ g[2] = v /\ g[3] = w
    BY <2>2
  <2>4. UpdateFilter(old, x) = IF g[1].age > Window THEN Promote(g, x) ELSE Spread(g, x)
    BY <1>12 DEF UpdateFilter, f, g
  <2>5. /\ v \in Estimates /\ w \in Estimates /\ v.age \in Nat /\ w.age \in Nat
        /\ v.sample \in Nat /\ w.sample \in Nat
        /\ x <= v.sample /\ x <= w.sample
    <3>1. CASE v = n /\ w = n
      BY <1>1, <1>4, <3>1
    <3>2. CASE v = Grown(b) /\ w = n /\ x < b.sample
      BY <1>1, <1>4, <3>2, SMTT(30)
    <3>3. CASE v = Grown(b) /\ w = Grown(c) /\ x < c.sample /\ x < b.sample
      BY <1>4, <3>3, SMTT(30)
    <3>. QED  BY <2>2, <3>1, <3>2, <3>3
  <2>6. (v.age <= Window => IsMeasured(v, s)) /\ IsMeasured(w, s)
    BY <1>4, <1>5, <1>6, <2>1, <2>2
  <2>7. Follows(w, v, H + 1)
    <3>1. Follows(Grown(c), Grown(b), H + 1)
      BY <1>1, <1>3, <1>7, GrownFollows
    <3>2. Follows(n, Grown(b), H + 1) \/ ~ (x <= b.sample)
      BY <1>4, <1>7, NewestFollows DEF n
    <3>. QED  BY <1>4, <1>10, <2>2, <3>1, <3>2
  <2>8. Follows(n, Grown(a), H + 1) /\ Follows(n, v, H) /\ Follows(n, w, H) /\ Follows(n, w, H + 1)
    <3>1. ASSUME NEW e \in Estimates, x <= e.sample PROVE Follows(n, e, H) /\ Follows(n, e, H + 1)
      BY <1>7, <3>1, NewestFollows DEF n
    <3>2. x <= Grown(a).sample
      BY <1>4, <2>1
    <3>. QED  BY <1>4, <2>5, <3>1, <3>2
  <2>9. CASE g[1].age > Window
    <3>1. CASE v.age > Window
      <4>1. Promote(g, x) = <<w, n, n>>
        BY <2>3, <3>1 DEF Promote, n
      <4>. QED  BY <1>5, <1>8, <1>10, <2>4, <2>6, <2>8, <2>9, <4>1
    <3>2. CASE ~ (v.age > Window)
      <4>1. Promote(g, x) = <<v, w, n>> /\ IsMeasured(v, s)
        BY <1>7, <2>3, <2>5, <2>6, <3>2 DEF Promote, n
      <4>. QED  BY <1>5, <1>8, <2>4, <2>6, <2>7, <2>8, <2>9, <4>1
    <3>. QED  BY <3>1, <3>2
  <2>10. CASE ~ (g[1].age > Window)
    <3>1. a.age + 1 <= Window /\ IsMeasured(Grown(a), s) /\ IsMeasured(v, s)
      BY <1>4, <1>6, <1>7, <1>9, <2>1, <2>2, <2>3, <2>6, <2>10, SMTT(30)
    <3>2. CASE v.sample = a.sample /\ v.age > Window \div 4
      <4>1. ~ (v.sample # a.sample \/ v.age <= Window \div 4)
        BY <1>7, <2>5, <3>2
      <4>2. Spread(g, x) = <<Grown(a), n, n>>
        BY <1>4, <2>3, <3>2, <4>1 DEF Spread, n
      <4>. QED  BY <1>5, <1>8, <1>10, <2>4, <2>8, <2>10, <3>1, <4>2
    <3>3. CASE ~ (v.sample = a.sample /\ v.age > Window \div 4)
      <4>1. v.sample # a.sample \/ v.age <= Window \div 4
        BY <1>7, <2>5, <3>3
      <4>2. Follows(v, Grown(a), H + 1)
        <5>1. CASE v = n
          BY <2>8, <5>1
        <5>2. CASE v = Grown(b)
          <6>1. b.age = a.age => a.age + 1 <= H + 1
            BY <1>4, <1>7, <1>9, <4>1, <5>2
          <6>. QED  BY <1>1, <1>3, <1>7, <5>2, <6>1, GrownFollows
        <5>. QED  BY <2>2, <5>1, <5>2
      <4>3. CASE w.sample = v.sample /\ w.age > H
        <5>1. Spread(g, x) = [g EXCEPT ![3] = n]
          BY <1>4, <2>3, <3>3, <4>1, <4>3 DEF Spread, n, H
        <5>2. [g EXCEPT ![3] = n] = <<Grown(a), v, n>>
          BY <2>2
        <5>3. EstimatesSound(<<Grown(a), v, n>>, s)
          BY <1>5, <1>8, <2>8, <3>1, <4>2
        <5>. QED  BY <2>4, <2>10, <5>1, <5>2, <5>3
      <4>4. CASE ~ (w.sample = v.sample /\ w.age > H)
        <5>1. Spread(g, x) = <<Grown(a), v, w>>
          BY <1>4, <2>2, <2>3, <3>3, <4>1, <4>4 DEF Spread, H
        <5>2. Follows(w, v, H)
          <6>1. CASE w = n
            BY <2>8, <6>1
          <6>2. CASE w = Grown(c) /\ v = Grown(b)
            <7>1. c.age = b.age => b.age + 1 <= H
              BY <1>4, <1>7, <1>9, <4>4, <6>2
            <7>. QED  BY <1>1, <1>3, <1>7, <6>2, <7>1, GrownFollows
          <6>. QED  BY <2>2, <6>1, <6>2
        <5>. QED  BY <1>8, <2>4, <2>6, <2>10, <3>1, <4>2, <5>1, <5>2
      <4>. QED  BY <4>3, <4>4
    <3>. QED  BY <3>2, <3>3
  <2>. QED  BY <2>9, <2>10
<1>. QED  BY <1>11, <1>12

LEMMA RecordsNewest ==
  ASSUME NEW r \in Measurements, Len(r) <= Window + 1, NEW x \in Goodputs
  PROVE  LET s == SubSeq(<<x>> \o r, 1, Lower(Len(r) + 1, Window + 1))
         IN  s \in Measurements /\ Records(s, r, x) /\ Len(s) > 0 /\ Len(s) <= Window + 1
<1>. DEFINE m == <<x>> \o r
            n == Lower(Len(r) + 1, Window + 1)
            s == SubSeq(m, 1, n)
<1>1. Len(r) \in Nat /\ n \in 1 .. Len(r) + 1 /\ n <= Window + 1
  BY WindowParts DEF Measurements, Lower
<1>2. /\ m \in Seq(Goodputs) /\ Len(m) = Len(r) + 1 /\ m[1] = x
      /\ \A k \in 1 .. Len(r) : m[k + 1] = r[k]
  BY DEF Measurements
<1>. HIDE DEF m, n
<1>3. /\ s \in Seq(Goodputs) /\ Len(s) = n
      /\ \A k \in 1 .. n : s[k] = m[k]
  BY <1>1, <1>2
<1>. HIDE DEF s
<1>4. s[1] = x /\ \A k \in 1 .. Len(s) - 1 : s[k + 1] = r[k]
  <2>1. 1 \in 1 .. n
    BY <1>1
  <2>2. ASSUME NEW k \in 1 .. Len(s) - 1 PROVE s[k + 1] = r[k]
    <3>1. k + 1 \in 1 .. n /\ k \in 1 .. Len(r)
      BY <1>1, <1>3
    <3>. QED  BY <1>2, <1>3, <3>1
  <2>. QED  BY <1>2, <1>3, <2>1, <2>2
<1>. QED  BY <1>1, <1>3, <1>4 DEF Records, Measurements, s, n, m

LEMMA FilterInitially == GoodputInit => FilterInv
<1>. SUFFICES ASSUME GoodputInit PROVE FilterInv
  OBVIOUS
<1>1. filter = ResetFilter(0) /\ recent = <<>> /\ 0 \in Goodputs
  BY GoodputAssumption DEF GoodputInit, Goodputs
<1>2. ResetFilter(0) \in Filters
  BY <1>1, ResetFilterType
<1>3. recent \in Measurements /\ Len(recent) = 0
  BY <1>1 DEF Measurements
<1>. QED  BY <1>1, <1>2, <1>3, WindowParts DEF FilterInv

LEMMA FilterStep == FilterInv /\ [GoodputNext]_goodputVars => FilterInv'
<1>. SUFFICES ASSUME FilterInv, [GoodputNext]_goodputVars PROVE FilterInv'
  OBVIOUS
<1>1. CASE OnGoodputAlarm
  <2>1. PICK acked \in 0 .. MaxAcked, elapsed \in {0, 1} :
          LET x == Sample(acked, elapsed)
          IN  /\ filter' = UpdateFilter(filter, x)
              /\ recent' = SubSeq(<<x>> \o recent, 1, Lower(Len(recent) + 1, Window + 1))
    BY <1>1 DEF OnGoodputAlarm
  <2>. DEFINE x == Sample(acked, elapsed)
  <2>2. x \in Goodputs
    BY GoodputAssumption, SMT DEF Sample, Goodputs
  <2>. HIDE DEF x
  <2>3. filter \in Filters /\ recent \in Measurements /\ Len(recent) <= Window + 1
    BY DEF FilterInv
  <2>4. filter' = UpdateFilter(filter, x) /\ filter' \in Filters
    BY <2>1, <2>2, <2>3, UpdateFilterType DEF x
  <2>5. recent' = SubSeq(<<x>> \o recent, 1, Lower(Len(recent) + 1, Window + 1))
    BY <2>1 DEF x
  <2>6. recent' \in Measurements /\ Records(recent', recent, x) /\ Len(recent') > 0
        /\ Len(recent') <= Window + 1
    BY <2>2, <2>3, <2>5, RecordsNewest
  <2>7. EstimatesSound(filter', recent')
    <3>1. CASE recent = <<>>
      <4>1. filter = ResetFilter(0)
        BY <3>1 DEF FilterInv
      <4>2. UpdateFilter(filter, x) = ResetFilter(x)
        BY <4>1 DEF UpdateFilter, ResetFilter, Estimate
      <4>3. IsMeasured(Estimate(x), recent') /\ Estimate(x) \in Estimates
        BY <2>2, <2>6, NewestMeasured, NewestParts DEF Records
      <4>4. Window \div 2 \in Nat /\ Window \div 2 + 1 \in Nat /\ x <= Estimate(x).sample
        BY <2>2, NewestParts, WindowParts
      <4>5. /\ Follows(Estimate(x), Estimate(x), Window \div 2 + 1)
            /\ Follows(Estimate(x), Estimate(x), Window \div 2)
        BY <2>2, <4>3, <4>4, NewestFollows
      <4>6. \A i \in 1 .. 3 : ResetFilter(x)[i] = Estimate(x)
        BY DEF ResetFilter
      <4>. QED  BY <2>4, <4>2, <4>3, <4>5, <4>6 DEF EstimatesSound
    <3>2. CASE recent # <<>>
      <4>1. EstimatesSound(filter, recent)
        BY <3>2 DEF FilterInv
      <4>. QED  BY <2>2, <2>3, <2>4, <2>6, <4>1, UpdateKeeps
    <3>. QED  BY <3>1, <3>2
  <2>8. recent' # <<>>
    BY <2>6
  <2>. QED  BY <2>4, <2>6, <2>7, <2>8 DEF FilterInv
<1>2. CASE UNCHANGED <<filter, recent>>
  BY <1>2 DEF FilterInv
<1>. QED  BY <1>1, <1>2 DEF GoodputNext, OnBudgetAlarm, FlushChunk, goodputVars

\* The rate of a path is set by a goodput that was measured in the window and is the best
\* since then, and there is always a younger one to take over in time: UpdateFilter keeps
\* its three estimates so for every window and every sequence of measurements.
THEOREM EstimatesAlwaysRecent == GoodputSpec => []EstimatesAreRecent
<1>1. GoodputSpec => []FilterInv
  BY FilterInitially, FilterStep, PTL DEF GoodputSpec
<1>2. FilterInv => EstimatesAreRecent
  BY DEF FilterInv, EstimatesAreRecent
<1>. QED  BY <1>1, <1>2, PTL
=============================================================================
