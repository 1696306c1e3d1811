----------------------------- MODULE IntervalSet -----------------------------
(***************************************************************************)
(* QuicIntervalSet (src/sequencer/quic_interval_set.h): a set of numbers   *)
(* kept as sorted, disjoint intervals that do not touch.  The sequencer    *)
(* buffer records in one which bytes of the stream it has received.        *)
(*                                                                         *)
(* The std::set of intervals is a sequence in the order of its comparator, *)
(* an iterator is an index, and end() is the index behind the last.  The   *)
(* operations walk these like the code; the properties compare them with   *)
(* the sets of numbers they stand for.                                     *)
(***************************************************************************)
EXTENDS Integers, Sequences, SequencesExt, FiniteSetsExt

CONSTANT
  Limit    \* the numbers are 0 .. Limit - 1

ASSUME LimitAssumption == Limit \in Nat

VARIABLE
  iset     \* intervals_

-------------------------------------------------------------------------------
(* QuicInterval. *)

Interval(a, b) == [min |-> a, max |-> b]
NoInterval == Interval(0, 0)
Empty(i) == i.min >= i.max

ContainsValue(i, v) == i.min <= v /\ i.max > v
ContainsInterval(i, j) == ~ Empty(i) /\ ~ Empty(j) /\ i.min <= j.min /\ i.max >= j.max
IntersectsInterval(i, j) == ~ Empty(i) /\ ~ Empty(j) /\ i.min < j.max /\ i.max > j.min
Intersect(i, j) == Interval(Max({i.min, j.min}), Min({i.max, j.max}))

\* What is left of i, below j and above it.
Below(i, j) == IF Empty(j) \/ ~ IntersectsInterval(i, j) THEN i
               ELSE IF i.min < j.min THEN Interval(i.min, j.min) ELSE NoInterval
Above(i, j) == IF Empty(j) \/ ~ IntersectsInterval(i, j) \/ i.max <= j.max THEN NoInterval
               ELSE Interval(j.max, i.max)

-------------------------------------------------------------------------------
(* The std::set. *)

\* IntervalLess: by ascending min, then by descending max.
IntervalLessByMax(i, j) == i.min < j.min \/ (i.min = j.min /\ i.max < j.max)
IntervalLess(i, j) == i.min < j.min \/ (i.min = j.min /\ i.max > j.max)

UpperBoundOf(s, i) == 1 + Cardinality({k \in DOMAIN s : ~ IntervalLess(i, s[k])})
LowerBoundOf(s, i) == 1 + Cardinality({k \in DOMAIN s : IntervalLess(s[k], i)})
Inserted(s, i) == IF Contains(s, i) THEN s ELSE InsertAt(s, LowerBoundOf(s, i), i)
Erased(s, from, to) == SubSeq(s, 1, from - 1) \o SubSeq(s, to, Len(s))

-------------------------------------------------------------------------------
(* QuicIntervalSet. *)

SpanningInterval(s) == IF s = <<>> THEN NoInterval ELSE Interval(Head(s).min, Last(s).max)

\* Compact merges the intervals from b up to e that overlap or touch.
MergeOverlapping(merged, i) ==
  IF merged # <<>> /\ Last(merged).max > i.min
  THEN Front(merged) \o <<Interval(Last(merged).min, Max({Last(merged).max, i.max}))>>
  ELSE Append(merged, i)
MergeNext(merged, i) ==
  IF merged # <<>> /\ Last(merged).max >= i.min
  THEN Front(merged) \o <<Interval(Last(merged).min, Max({Last(merged).max, i.max}))>>
  ELSE Append(merged, i)
Compact(s, b, e) ==
  SubSeq(s, 1, b - 1) \o FoldLeft(MergeNext, <<>>, SubSeq(s, b, e - 1)) \o SubSeq(s, e, Len(s))

\* Only the intervals from the one before the new one up to its end may merge.
Add(s, i) ==
  LET new == Inserted(s, i)
      begin == LowerBoundOf(new, i)
  IN  IF Empty(i) \/ Contains(s, i) THEN s
      ELSE Compact(new, IF begin = 1 THEN 1 ELSE begin - 1, UpperBoundOf(new, Interval(i.max, i.max)))

AddOptimizedForAppend(s, i) ==
  IF s = <<>> \/ i.min < Last(s).min \/ i.min > Last(s).max THEN Add(s, i)
  ELSE IF i.max <= Last(s).max THEN s
  ELSE [s EXCEPT ![Len(s)].max = i.max]

\* The intervals below the value go, the one it lies in is cut.
TrimLessThan(s, v) ==
  LET kept == SelectSeq(s, LAMBDA i : i.max > v)
  IN  IF kept # <<>> /\ Head(kept).min < v THEN [kept EXCEPT ![1].min = v] ELSE kept

SetContains(s, v) ==
  LET it == UpperBoundOf(s, Interval(v, v))
  IN  it # 1 /\ ContainsValue(s[it - 1], v)
Find(s, i) ==
  LET it == UpperBoundOf(s, i)
  IN  IF it # 1 /\ ContainsInterval(s[it - 1], i) THEN it - 1 ELSE Len(s) + 1
SetContainsInterval(s, i) == Find(s, i) # Len(s) + 1
SetContainsSet(s, other) ==
  /\ ContainsInterval(SpanningInterval(s), SpanningInterval(other))
  /\ \A k \in DOMAIN other : SetContainsInterval(s, other[k])

LowerBound(s, v) ==
  LET it == LowerBoundOf(s, Interval(v, v))
  IN  IF it # 1 /\ ContainsValue(s[it - 1], v) THEN it - 1 ELSE it
UpperBound(s, v) == UpperBoundOf(s, Interval(v, v))

IsDisjoint(s, i) ==
  LET it == UpperBoundOf(s, Interval(i.min, i.min))
  IN  \/ Empty(i)
      \/ /\ it <= Len(s) => i.max <= s[it].min
         /\ it # 1 => s[it - 1].max <= i.min

Union(s, other) ==
  LET all == FoldLeft(Inserted, s, other) IN Compact(all, 1, Len(all) + 1)

\* The first interval that may reach i.
FindIntersectionCandidate(s, i) ==
  LET it == UpperBoundOf(s, i) IN IF it = 1 THEN 1 ELSE it - 1

\* FindNextIntersectingPairImpl: on from mine and theirs to the next two intervals
\* that intersect; holes are the intervals of x that were passed over.
FirstBeyond(s, from, v) ==
  Min({k \in from .. Len(s) : s[k].max > v} \cup {Len(s) + 1})
RECURSIVE NextPair(_, _, _, _, _)
NextPair(x, y, mine, theirs, eraseHoles) ==
  IF mine > Len(x) \/ theirs > Len(y) THEN [found |-> FALSE, set |-> x, mine |-> mine, theirs |-> theirs]
  ELSE IF IntersectsInterval(x[mine], y[theirs])
       THEN [found |-> TRUE, set |-> x, mine |-> mine, theirs |-> theirs]
  ELSE LET m == FirstBeyond(x, mine, y[theirs].min)
           reached == IF eraseHoles THEN Erased(x, mine, m) ELSE x
           next == IF eraseHoles THEN mine ELSE m
           t == IF m > Len(x) THEN theirs ELSE FirstBeyond(y, theirs, x[m].min)
       IN  IF m <= Len(x) /\ t > Len(y) /\ eraseHoles
           THEN [found |-> FALSE, set |-> Erased(reached, next, Len(reached) + 1), mine |-> next, theirs |-> t]
           ELSE NextPair(reached, y, next, t, eraseHoles)

SetIntersects(s, other) ==
  LET mine == FindIntersectionCandidate(s, Head(other))
  IN  /\ IntersectsInterval(SpanningInterval(s), SpanningInterval(other))
      /\ NextPair(s, other, mine, FindIntersectionCandidate(other, s[mine]), FALSE).found

\* Each interval is replaced by its parts that lie in one of theirs.
RECURSIVE IntersectFrom(_, _, _, _)
IntersectFrom(s, other, mine, theirs) ==
  LET p == NextPair(s, other, mine, theirs, TRUE)
      i == p.set[p.mine]
      last == Max({k \in p.theirs .. Len(other) : \A j \in p.theirs .. k : IntersectsInterval(i, other[j])})
      parts == [k \in 1 .. last - p.theirs + 1 |-> Intersect(i, other[p.theirs + k - 1])]
      new == FoldLeft(Inserted, Erased(p.set, p.mine, p.mine + 1), parts)
  IN  IF ~ p.found THEN p.set
      ELSE IntersectFrom(new, other, p.mine + Len(parts), last)
Intersection(s, other) ==
  IF ~ IntersectsInterval(SpanningInterval(s), SpanningInterval(other)) THEN <<>>
  ELSE LET reached == SubSeq(s, FindIntersectionCandidate(s, Head(other)), Len(s))
       IN  IntersectFrom(reached, other, 1, FindIntersectionCandidate(other, Head(reached)))

\* Each interval is replaced by what is left of it below and above one of theirs;
\* what is above may reach the next one.
RECURSIVE DifferenceFrom(_, _, _, _)
DifferenceFrom(s, other, mine, theirs) ==
  LET p == NextPair(s, other, mine, theirs, FALSE)
      lo == Below(s[p.mine], other[p.theirs])
      hi == Above(s[p.mine], other[p.theirs])
      parts == SelectSeq(<<lo, hi>>, LAMBDA i : ~ Empty(i))
      new == FoldLeft(Inserted, Erased(s, p.mine, p.mine + 1), parts)
  IN  IF ~ p.found THEN s
      ELSE DifferenceFrom(new, other, p.mine + (IF Empty(lo) THEN 0 ELSE 1), p.theirs)
Difference(s, other) ==
  IF ~ IntersectsInterval(SpanningInterval(s), SpanningInterval(other)) THEN s
  ELSE DifferenceFrom(s, other, FindIntersectionCandidate(s, Head(other)), FindIntersectionCandidate(other, Head(s)))

Complement(s, i) == Difference(Add(<<>>, i), s)

Valid(s) ==
  /\ \A k \in DOMAIN s : ~ Empty(s[k])
  /\ \A k \in 1 .. Len(s) - 1 : s[k].max < s[k + 1].min

-------------------------------------------------------------------------------
(* A set under any calls. *)

Intervals == {Interval(a, b) : a, b \in 0 .. Limit}
Numbers(s) == UNION {s[k].min .. s[k].max - 1 : k \in DOMAIN s}

\* The representation of a set of numbers.
IntervalsOf(numbers) ==
  LET starts == {n \in numbers : n - 1 \notin numbers}
      end(n) == Min({m \in n .. Limit : m \notin numbers})
  IN  SetToSortSeq({Interval(n, end(n)) : n \in starts}, IntervalLess)
Sets == {IntervalsOf(numbers) : numbers \in SUBSET (0 .. Limit - 1)}

IntervalInit == iset = <<>>
AddInterval == \E i \in Intervals : iset' = Add(iset, i)
Append_ == \E i \in Intervals : iset' = AddOptimizedForAppend(iset, i)
PopFront == iset # <<>> /\ iset' = Tail(iset)
Trim == \E v \in 0 .. Limit : iset' = TrimLessThan(iset, v)
Combine ==
  \E other \in Sets :
    iset' \in {Union(iset, other), Intersection(iset, other), Difference(iset, other)}
ComplementIn == \E i \in Intervals : iset' = Complement(iset, i)
IntervalNext == AddInterval \/ Append_ \/ PopFront \/ Trim \/ Combine \/ ComplementIn

-------------------------------------------------------------------------------
(* Properties. *)

\* Whatever calls came before, the set is valid, and every operation yields a valid
\* set of exactly the numbers it is to have: what an interval adds, what the value
\* trims, what union, intersection, difference and complement are.
Is(s, numbers) == Valid(s) /\ Numbers(s) = numbers
OperationsExact ==
  LET numbers == Numbers(iset)
      of(i) == i.min .. i.max - 1
  IN  /\ Valid(iset)
      /\ \A i \in Intervals :
           /\ Is(Add(iset, i), numbers \cup of(i))
           /\ Is(AddOptimizedForAppend(iset, i), numbers \cup of(i))
           /\ Is(Complement(iset, i), of(i) \ numbers)
      /\ \A v \in 0 .. Limit : Is(TrimLessThan(iset, v), {n \in numbers : n >= v})
      /\ \A other \in Sets :
           /\ Is(Union(iset, other), numbers \cup Numbers(other))
           /\ Is(Intersection(iset, other), numbers \cap Numbers(other))
           /\ Is(Difference(iset, other), numbers \ Numbers(other))

\* The searches, which look at one interval that the order of the set leads them to,
\* find what is there: no other interval could hold the number or the interval.
QueriesExact ==
  LET numbers == Numbers(iset)
      of(i) == i.min .. i.max - 1
  IN  /\ \A v \in 0 .. Limit :
           /\ SetContains(iset, v) <=> v \in numbers
           /\ LowerBound(iset, v) = FirstBeyond(iset, 1, v)
           /\ UpperBound(iset, v) = Min({k \in DOMAIN iset : iset[k].min > v} \cup {Len(iset) + 1})
      /\ \A i \in Intervals :
           /\ SetContainsInterval(iset, i) <=> ~ Empty(i) /\ of(i) \subseteq numbers
           /\ IsDisjoint(iset, i) <=> of(i) \cap numbers = {}
      /\ \A other \in Sets :
           /\ other # <<>> => (SetContainsSet(iset, other) <=> Numbers(other) \subseteq numbers)
           /\ SetIntersects(iset, other) <=> numbers \cap Numbers(other) # {}
SetsAreExact == OperationsExact /\ QueriesExact
=============================================================================
