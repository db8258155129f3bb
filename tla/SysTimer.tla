------------------------------ MODULE SysTimer ------------------------------
(***************************************************************************)
(* Time: the clock interrupt and the timer list of the kernel (clock.c),   *)
(* sys_alarm(), and the timers that servers and drivers build on their one *)
(* alarm (liblyos/timer.c).  A task has one alarm in the kernel and any    *)
(* number of timers of its own; the alarm is set for the first of them.    *)
(* The clock ticks between any two steps of a task, and jiffies starts     *)
(* again at MAX_TICKS.                                                     *)
(***************************************************************************)
EXTENDS Integers, Sequences, FiniteSets, SequencesExt

CONSTANTS
  Tasks,     \* processes with PRF_PRIV_PROC
  Timers,    \* their timers
  Owner,     \* the task of a timer
  Periodic,  \* timers whose callback sets them again, as timerfd_triggered() does
  Delays,    \* what timers are set to
  MAX_TICKS

VARIABLES
  jiffies,
  timer_list,    \* kernel: the tasks whose alarm is set, first to expire first
  next_timeout,  \* kernel: when its first alarm expires
  alarm,         \* kernel: priv->timer.expire_time
  notified,      \* tasks with a pending notification of CLOCK
  expire_time,   \* library: expire_time of each timer
  list,          \* library: _timer_list
  expiring,      \* library: _timer_list_expiring
  pc,            \* of a task
  timestamp      \* TIMESTAMP of the notification that a task handles, else 0

kernelTime == <<jiffies, timer_list, next_timeout, alarm, notified>>
vars == <<kernelTime, expire_time, list, expiring, pc, timestamp>>

TIMER_UNSET == -1    \* 0xffffffff; larger than every time in a comparison

TimersOf(p) == {t \in Timers : Owner[t] = p}

\* timer_add(): before the first timer that does not expire earlier
Place(l, time, e) == Cardinality({k \in DOMAIN l : \A j \in 1 .. k : time[l[j]] < time[e]}) + 1
timer_add(l, time, e) == InsertAt(l, Place(l, time, e), e)

FirstOf(l, time) == IF l = <<>> THEN TIMER_UNSET ELSE time[l[1]]

Init ==
  /\ jiffies = 0 /\ timer_list = <<>> /\ next_timeout = TIMER_UNSET
  /\ alarm = [p \in Tasks |-> TIMER_UNSET] /\ notified = {}
  /\ expire_time = [t \in Timers |-> TIMER_UNSET]
  /\ list = [p \in Tasks |-> <<>>] /\ expiring = [p \in Tasks |-> <<>>]
  /\ pc = [p \in Tasks |-> "main"] /\ timestamp = [p \in Tasks |-> 0]

-----------------------------------------------------------------------------
(* the kernel *)

\* clock_handler(): time goes on, and alarms that are due notify their tasks
Due(now) == {p \in Tasks : alarm[p] # TIMER_UNSET /\ alarm[p] <= now}

clock_handler ==
  LET now == IF jiffies + 1 >= MAX_TICKS THEN 0 ELSE jiffies + 1
      rest == SelectSeq(timer_list, LAMBDA p : p \notin Due(now)) IN
  /\ jiffies' = now
  /\ IF next_timeout # TIMER_UNSET /\ now >= next_timeout
     THEN /\ timer_list' = rest
          /\ alarm' = [p \in Tasks |-> IF p \in Due(now) THEN TIMER_UNSET ELSE alarm[p]]
          /\ notified' = notified \cup Due(now)
          /\ next_timeout' = FirstOf(rest, alarm)
     ELSE UNCHANGED <<timer_list, alarm, notified, next_timeout>>
  /\ UNCHANGED <<expire_time, list, expiring, pc, timestamp>>

\* sys_alarm() with an absolute time, as the library calls it: time 0 takes the
\* alarm back, any other replaces it
sys_alarm(p, time) ==
  LET others == SelectSeq(timer_list, LAMBDA q : q # p)
      set == [alarm EXCEPT ![p] = time] IN
  /\ alarm' = [alarm EXCEPT ![p] = IF time = 0 THEN TIMER_UNSET ELSE time]
  /\ timer_list' = IF time = 0 THEN others ELSE timer_add(others, set, p)
  /\ next_timeout' = FirstOf(timer_list', alarm')
  /\ UNCHANGED <<jiffies, notified>>

-----------------------------------------------------------------------------
(* the library, in a task *)

\* set_timer(): the time is read, and the timer goes into the list.  Callers set
\* only timers that are not set.
set_timer(p, t, ticks) ==
  LET time == [expire_time EXCEPT ![t] = jiffies + ticks] IN
  /\ pc[p] = "main" /\ t \in TimersOf(p) /\ expire_time[t] = TIMER_UNSET
  /\ expire_time' = time
  /\ list' = [list EXCEPT ![p] = timer_add(@, time, t)]
  /\ LET first == FirstOf(list[p], expire_time) IN
     pc' = IF first = TIMER_UNSET \/ first # FirstOf(list'[p], time)
           THEN [pc EXCEPT ![p] = "alarm"] ELSE pc
  /\ UNCHANGED <<kernelTime, expiring, timestamp>>

\* ... and when it came first, the alarm of the kernel is set to it
SetAlarm(p) ==
  /\ pc[p] = "alarm"
  /\ sys_alarm(p, FirstOf(list[p], expire_time))
  /\ pc' = [pc EXCEPT ![p] = "main"]
  /\ UNCHANGED <<expire_time, list, expiring, timestamp>>

\* cancel_timer(): the alarm of the kernel is left as it is
cancel_timer(p, t) ==
  /\ pc[p] = "main" /\ t \in TimersOf(p) /\ expire_time[t] # TIMER_UNSET
  /\ expire_time' = [expire_time EXCEPT ![t] = TIMER_UNSET]
  /\ list' = [list EXCEPT ![p] = SelectSeq(@, LAMBDA e : e # t)]
  /\ UNCHANGED <<kernelTime, expiring, pc, timestamp>>

\* The main loop receives the notification, which says what time it is, and
\* calls expire_timer()
Receive(p) ==
  /\ pc[p] = "main" /\ p \in notified
  /\ notified' = notified \ {p}
  /\ timestamp' = [timestamp EXCEPT ![p] = jiffies]
  /\ pc' = [pc EXCEPT ![p] = "expire"]
  /\ UNCHANGED <<jiffies, timer_list, next_timeout, alarm, expire_time, list, expiring>>

\* timer_expire(): the next timer that is due is taken out and called back; one
\* that is set again is kept apart
Callback(p) ==
  /\ pc[p] = "expire" /\ list[p] # <<>> /\ expire_time[list[p][1]] <= timestamp[p]
  /\ LET t == list[p][1] IN
     /\ list' = [list EXCEPT ![p] = Tail(@)]
     /\ \/ /\ t \notin Periodic
           /\ expire_time' = [expire_time EXCEPT ![t] = TIMER_UNSET]
           /\ UNCHANGED expiring
        \/ \E ticks \in Delays :
             /\ t \in Periodic
             /\ expire_time' = [expire_time EXCEPT ![t] = jiffies + ticks]
             /\ expiring' = [expiring EXCEPT ![p] = <<t>> \o @]
  /\ UNCHANGED <<kernelTime, pc, timestamp>>

\* The rest of expire_timer(): those set again are put into the list, and the
\* alarm is set for the first
EndExpire(p) ==
  LET merged == FoldLeft(LAMBDA l, t : timer_add(l, expire_time, t), list[p], expiring[p]) IN
  /\ pc[p] = "expire"
  /\ list[p] # <<>> => expire_time[list[p][1]] > timestamp[p]
  /\ list' = [list EXCEPT ![p] = merged] /\ expiring' = [expiring EXCEPT ![p] = <<>>]
  /\ IF merged = <<>> THEN UNCHANGED kernelTime
                      ELSE sys_alarm(p, FirstOf(merged, expire_time))
  /\ pc' = [pc EXCEPT ![p] = "main"] /\ timestamp' = [timestamp EXCEPT ![p] = 0]
  /\ UNCHANGED expire_time

Next ==
  \/ clock_handler
  \/ \E p \in Tasks :
       \/ \E t \in TimersOf(p) : cancel_timer(p, t) \/ \E ticks \in Delays : set_timer(p, t, ticks)
       \/ SetAlarm(p) \/ Receive(p) \/ Callback(p) \/ EndExpire(p)

Spec == Init /\ [][Next]_vars

-----------------------------------------------------------------------------
(* properties *)

Sorted(l, time) == \A j, k \in DOMAIN l : j < k => time[l[j]] <= time[l[k]]

\* The list of the kernel holds the tasks with an alarm, once each and in the
\* order in which they expire, and next_timeout is the first of them, however
\* alarms are replaced; so is the list of every task.
ListsExact ==
  /\ ToSet(timer_list) = {p \in Tasks : alarm[p] # TIMER_UNSET} /\ IsInjective(timer_list)
  /\ Sorted(timer_list, alarm) /\ next_timeout = FirstOf(timer_list, alarm)
  /\ \A p \in Tasks :
       /\ ToSet(list[p]) \cup ToSet(expiring[p]) = {t \in TimersOf(p) : expire_time[t] # TIMER_UNSET}
       /\ IsInjective(list[p] \o expiring[p]) /\ Sorted(list[p], expire_time)

\* A task with a timer will be told in time: an alarm no later than its first
\* timer is set in the kernel or about to be, or the notification is on its way,
\* although timers are cancelled and set again without telling the kernel.
WillRing ==
  \A p \in Tasks :
    pc[p] = "main" /\ list[p] # <<>> =>
      p \in notified \/ alarm[p] \in 0 .. expire_time[list[p][1]]
=============================================================================
