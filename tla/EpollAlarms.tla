----------------------------- MODULE EpollAlarms -----------------------------
(***************************************************************************)
(* The alarms of the event loop: BaseAlarm and QuicEpollAlarm              *)
(* (src/base/base_alarm, base_epoll_alarm_factory) on the alarm map of     *)
(* SimpleEpollServer (src/base/simple_epoll_server).                       *)
(*                                                                         *)
(* Alarms in Repeating are bare callbacks of the server that are           *)
(* registered again at the time their OnAlarm returns; the others are      *)
(* BaseAlarms, whose OnAlarm returns 0 and which are set again, if at all, *)
(* by their delegate.                                                      *)
(*                                                                         *)
(* alarm_map_ is a multimap: the sequence map of its entries in order.     *)
(* The iterator of CallAndReregisterAlarmEvents is the index cursor.       *)
(***************************************************************************)
EXTENDS Naturals, Sequences, FiniteSets

CONSTANTS
  Alarms,            \* alarm objects
  Repeating,         \* those that return the next time from OnAlarm
  MaxTime,           \* bound on the clock and on deadlines
  Millisecond,       \* microseconds in a millisecond, here clock ticks
  Timeout,           \* timeout_in_us_, or Forever for a negative one
  Forever,
  Granularities,     \* granularities passed to Update
  MinDelta           \* how far ahead, at least, an OnAlarm arms an alarm

ASSUME AlarmAssumption ==
  /\ Repeating \subseteq Alarms
  /\ MaxTime \in Nat \ {0} /\ Millisecond \in Nat \ {0} /\ MinDelta \in Nat
  /\ Forever \notin Nat /\ Timeout \in Nat \cup {Forever}
  /\ Granularities \subseteq Nat

Zero == 0               \* QuicTime::Zero(): an alarm that is not set
Times == 1 .. MaxTime
BaseAlarms == Alarms \ Repeating

VARIABLES
  clock,      \* NowInUsec
  eps,        \* the alarms of the server
  registered, \* EpollAlarm::registered_
  deadline,   \* BaseAlarm::deadline_
  loop,       \* "idle", "events" (fd callbacks run), "alarms" (the alarm round)
  firing      \* is the OnAlarm of the entry at the cursor running?

vars == <<clock, eps, registered, deadline, loop, firing>>

\* recorded: recorded_now_in_us_, Zero outside of the loop;
\* armed: was the map not empty when the round began?
EmptyServer ==
  [map |-> <<>>, all |-> {}, skipped |-> {}, recorded |-> Zero, armed |-> FALSE, cursor |-> 0]

ApproximateNow == IF eps.recorded # Zero THEN eps.recorded ELSE clock   \* in usec

-------------------------------------------------------------------------------
(* The server's alarm map. *)

InsertAtEnd(s, t, a) == [s EXCEPT !.map = Append(@, [at |-> t, alarm |-> a])]
\* A new entry goes behind the entries of the same time; iterators keep
\* pointing at their entry.
Insert(s, t, a) ==
  LET p == Cardinality({i \in DOMAIN s.map : s.map[i].at <= t})
  IN  [s EXCEPT
        !.map = SubSeq(@, 1, p) \o <<[at |-> t, alarm |-> a]>> \o SubSeq(@, p + 1, Len(@)),
        !.cursor = IF loop = "alarms" /\ p < @ THEN @ + 1 ELSE @]

Erase(s, p) ==
  [s EXCEPT
    !.map = SubSeq(@, 1, p - 1) \o SubSeq(@, p + 1, Len(@)),
    !.cursor = IF loop = "alarms" /\ p < @ THEN @ - 1 ELSE @]

\* The entry of an alarm; the alarm whose OnAlarm is running has left the entry
\* at the cursor to the loop.
Entries(a) ==
  {i \in DOMAIN eps.map : eps.map[i].alarm = a /\ ~ (firing /\ i = eps.cursor)}
Token(a) == CHOOSE i \in Entries(a) : TRUE

RegisterAlarm(s, t, a) == Insert([s EXCEPT !.all = @ \cup {a}], t, a)
UnregisterAlarm(s, a) == Erase([s EXCEPT !.all = @ \ {a}], Token(a))

ReregisterAlarmKeepingEntry(s, t, a) == Insert(s, t, a)
ReregisterAlarm(s, t, a) == Insert(Erase(s, Token(a)), t, a)

-------------------------------------------------------------------------------
(* Calls of the program: tasks, fd callbacks and other alarms. *)

Init ==
  /\ clock = 1
  /\ eps = EmptyServer
  /\ registered = [a \in Alarms |-> FALSE]
  /\ deadline = [a \in Alarms |-> Zero]
  /\ loop = "idle"
  /\ firing = FALSE

ProgramRuns == loop \in {"idle", "events"} \/ firing

\* The program arms an alarm for ApproximateNow() plus a delay.
Deadlines == {t \in Times : t >= ApproximateNow + (IF firing THEN MinDelta ELSE 0)}

\* SetImpl, CancelImpl and UpdateImpl of QuicEpollAlarm.
SetImpl(a, t) ==
  /\ eps' = RegisterAlarm(eps, t, a)
  /\ registered' = [registered EXCEPT ![a] = TRUE]

CancelImplLazily(a) == UNCHANGED <<eps, registered>>
CancelImpl(a) ==
  IF registered[a]
  THEN /\ eps' = UnregisterAlarm(eps, a)
       /\ registered' = [registered EXCEPT ![a] = FALSE]
  ELSE UNCHANGED <<eps, registered>>

UpdateImpl(a, t) ==
  IF registered[a]
  THEN eps' = ReregisterAlarm(eps, t, a) /\ UNCHANGED registered
  ELSE SetImpl(a, t)

IsSet(a) == deadline[a] # Zero

\* Set "Must not be called while the alarm is set".
Set(a, t) ==
  /\ ~ IsSet(a)
  /\ deadline' = [deadline EXCEPT ![a] = t]
  /\ SetImpl(a, t)

Cancel(a) ==
  /\ IsSet(a)
  /\ deadline' = [deadline EXCEPT ![a] = Zero]
  /\ CancelImpl(a)

Distance(t, u) == IF t >= u THEN t - u ELSE u - t

Update(a, t, granularity) ==
  /\ Distance(t, deadline[a]) >= granularity
  /\ deadline' = [deadline EXCEPT ![a] = t]
  /\ IF IsSet(a) THEN UpdateImpl(a, t) ELSE SetImpl(a, t)

\* A bare callback is registered while it is not registered, and not by its own
\* OnAlarm, and unregistered through its token.
RegisterRepeating(a, t) ==
  /\ ~ registered[a] /\ ~ (firing /\ eps.map[eps.cursor].alarm = a)
  /\ SetImpl(a, t)
  /\ UNCHANGED deadline

UnregisterRepeating(a) == registered[a] /\ CancelImpl(a) /\ UNCHANGED deadline

AlarmCall ==
  /\ ProgramRuns
  /\ \/ \E a \in BaseAlarms :
          \/ \E t \in Deadlines :
               Set(a, t) \/ \E granularity \in Granularities : Update(a, t, granularity)
          \/ Cancel(a)
     \/ \E a \in Repeating :
          (\E t \in Deadlines : RegisterRepeating(a, t)) \/ UnregisterRepeating(a)
  /\ UNCHANGED <<clock, loop, firing>>

Tick ==
  /\ clock < MaxTime
  /\ clock' = clock + 1
  /\ UNCHANGED <<eps, registered, deadline, loop, firing>>

-------------------------------------------------------------------------------
(* WaitForEventsAndExecuteCallbacks and WaitForEventsAndCallHandleEvents. *)

\* wait_time_in_us: the time to the first alarm, or the timeout of the server.
WaitTime ==
  IF eps.map = <<>> THEN Timeout
  ELSE LET alarmTimeout == IF eps.map[1].at > clock THEN eps.map[1].at - clock ELSE 0
       IN  IF Timeout = Forever \/ alarmTimeout < Timeout THEN alarmTimeout ELSE Timeout

\* How long epoll_wait may sleep. It takes whole milliseconds: less than one is
\* raised to one, the rest of a longer time is cut off.
SleepRoundedUp ==
  IF WaitTime = Forever THEN Forever
  ELSE ((WaitTime + Millisecond - 1) \div Millisecond) * Millisecond
Sleep ==
  IF WaitTime \in {0, Forever} THEN WaitTime
  ELSE IF WaitTime < Millisecond THEN Millisecond
  ELSE WaitTime - (WaitTime % Millisecond)

\* epoll_wait returns, at the latest when its time is up; it does not sleep when a
\* descriptor is in the ready list.
Wait ==
  /\ loop = "idle"
  /\ \E wake \in clock .. MaxTime :
       /\ Sleep # Forever => wake <= clock + Sleep
       /\ clock' = wake
       /\ eps' = [eps EXCEPT !.recorded = wake, !.armed = eps.map # <<>>]
  /\ loop' = "events"
  /\ UNCHANGED <<registered, deadline, firing>>

\* No alarm runs in a round that began without alarms.
EventsDone ==
  /\ loop = "events"
  /\ IF eps.armed
     THEN eps' = [eps EXCEPT !.cursor = 1] /\ loop' = "alarms"
     ELSE eps' = [eps EXCEPT !.recorded = Zero] /\ loop' = "idle"
  /\ UNCHANGED <<clock, registered, deadline, firing>>

-------------------------------------------------------------------------------
(* CallAndReregisterAlarmEvents. *)

Due(i) == i \in DOMAIN eps.map /\ eps.map[i].at <= eps.recorded
AtCursor == eps.map[eps.cursor].alarm

SkipAlarm ==
  /\ loop = "alarms" /\ ~ firing
  /\ Due(eps.cursor) /\ AtCursor \in eps.skipped
  /\ eps' = [eps EXCEPT !.cursor = @ + 1]
  /\ UNCHANGED <<clock, registered, deadline, loop, firing>>

\* EpollAlarm::OnAlarm forgets the token; BaseAlarm::Fire does nothing when the alarm
\* is not set, and calls the program when it is.
OnAlarm(a) == registered' = [registered EXCEPT ![a] = FALSE]
Fire(a) == deadline' = [deadline EXCEPT ![a] = Zero] /\ firing' = (a \in BaseAlarms => IsSet(a))

FireAlarm ==
  LET s == [eps EXCEPT !.all = @ \ {AtCursor}]
  IN  /\ loop = "alarms" /\ ~ firing
      /\ Due(eps.cursor) /\ AtCursor \notin eps.skipped
      /\ OnAlarm(AtCursor) /\ Fire(AtCursor)
      /\ eps' = IF firing' THEN s ELSE Erase(s, eps.cursor)
      /\ UNCHANGED <<clock, loop>>

\* OnAlarm returns; an alarm that asks to be run again, at a time that has
\* passed already, is skipped for the rest of the round.
NextRunUnskipped(a, t) == RegisterAlarm(Erase(eps, eps.cursor), t, a)
NextRun(a, t) ==
  LET s == Erase(eps, eps.cursor)
  IN  RegisterAlarm(IF t <= s.recorded THEN [s EXCEPT !.skipped = @ \cup {a}] ELSE s, t, a)

OnAlarmReturns ==
  /\ firing
  /\ \/ eps' = Erase(eps, eps.cursor) /\ UNCHANGED registered
     \/ /\ AtCursor \in Repeating
        /\ \E t \in Times : eps' = NextRun(AtCursor, t)
        /\ registered' = [registered EXCEPT ![AtCursor] = TRUE]
  /\ firing' = FALSE
  /\ UNCHANGED <<clock, deadline, loop>>

AlarmsDone ==
  /\ loop = "alarms" /\ ~ firing /\ ~ Due(eps.cursor)
  /\ eps' = [eps EXCEPT !.recorded = Zero, !.skipped = {}, !.cursor = 0]
  /\ loop' = "idle"
  /\ UNCHANGED <<clock, registered, deadline, firing>>

Next ==
  \/ AlarmCall \/ Tick \/ Wait \/ EventsDone
  \/ SkipAlarm \/ FireAlarm \/ OnAlarmReturns \/ AlarmsDone

\* The thread runs its loop, and every callback returns.
Fairness ==
  /\ WF_vars(Wait) /\ WF_vars(EventsDone) /\ WF_vars(SkipAlarm) /\ WF_vars(FireAlarm)
  /\ WF_vars(OnAlarmReturns) /\ WF_vars(AlarmsDone)

Spec == Init /\ [][Next]_vars
FairSpec == Spec /\ Fairness

-------------------------------------------------------------------------------
(* Properties. *)

TypeOK ==
  /\ clock \in Times
  /\ eps.map \in Seq([at : Times, alarm : Alarms])
  /\ \A i, j \in DOMAIN eps.map : i < j => eps.map[i].at <= eps.map[j].at
  /\ eps.all \subseteq Alarms /\ eps.skipped \subseteq Repeating
  /\ eps.recorded \in 0 .. MaxTime /\ eps.cursor \in 0 .. (Len(eps.map) + 1)
  /\ registered \in [Alarms -> BOOLEAN] /\ deadline \in [Alarms -> 0 .. MaxTime]
  /\ loop \in {"idle", "events", "alarms"} /\ firing \in BOOLEAN

\* An alarm is set exactly when the server holds one entry for it, at its
\* deadline, besides the entry whose OnAlarm is running: alarms may be set,
\* updated and cancelled by any callback, their own included.
SetMeansScheduled ==
  \A a \in Alarms :
    /\ Cardinality(Entries(a)) = IF registered[a] THEN 1 ELSE 0
    /\ a \in eps.all <=> registered[a]
    /\ a \in BaseAlarms =>
         /\ registered[a] <=> IsSet(a)
         /\ registered[a] => eps.map[Token(a)].at = deadline[a]

\* BaseAlarm, the token of QuicEpollAlarm and the alarm map of the server tell the
\* same of every alarm, whoever set, updated or cancelled it.
AlarmsAgree == TypeOK /\ SetMeansScheduled

\* Cancel "guarantees that the delegates OnAlarm method will not be called", and
\* an alarm put off by Update does not go off at its old time.
OnlySetAlarmsGoOff ==
  [][(firing' /\ ~ firing /\ AtCursor \in BaseAlarms)
       => deadline[AtCursor] \in 1 .. eps.recorded]_vars

\* The loop does not sleep while an alarm is due, and sleeps past a deadline by less
\* than a millisecond, and only when less than that was left to it: the rounding of
\* the timeout of epoll_wait never adds up, nor makes a longer sleep late.
SleepsPastADeadlineByRounding ==
  [][loop = "idle" /\ loop' = "events" /\ clock' > clock
       => \A i \in DOMAIN eps.map :
            /\ clock < eps.map[i].at /\ clock' < eps.map[i].at + Millisecond
            /\ eps.map[i].at >= clock + Millisecond => clock' <= eps.map[i].at]_vars

\* An alarm never goes off early, cancelled or at a time it was put off from, and the
\* loop sleeps past the time of one only by the rest of a millisecond.
AlarmsAreOnTime == OnlySetAlarmsGoOff /\ SleepsPastADeadlineByRounding

\* "we might never exit that loop-- any long-running alarms might install other
\* long-running alarms, etc.  By storing it here now, we ensure that a more
\* reasonable amount of work is done here": the alarm round ends.
RoundEnds == loop = "alarms" ~> loop = "idle"

\* Every alarm round ends, and in one of them a set alarm whose deadline has come
\* goes off, unless it is cancelled or put off, however alarms and callbacks
\* interfere with each other.
DueAlarmsGoOff ==
  /\ RoundEnds
  /\ \A a \in BaseAlarms :
       (IsSet(a) /\ deadline[a] <= clock) ~> (~ IsSet(a) \/ deadline[a] > clock)
==============================================================================
