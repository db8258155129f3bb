---------------------------- MODULE PthreadCond ----------------------------
(***************************************************************************)
(* pthread_cond.c on top of the mutex: consumers that wait until there is  *)
(* an item, and producers that add one and signal or broadcast.  The       *)
(* condition variable is a counter in a futex word, which every pulse      *)
(* advances and every waiter compares.                                     *)
(***************************************************************************)
EXTENDS PthreadMutex

CONSTANTS
  Producers,   \* the threads that produce; the others consume
  MaxItems,    \* bound: how many items are produced in all
  CondMod      \* how many pulses until the counter has its value again

VARIABLES
  items,      \* what the condition is about
  produced,   \* how many items have been produced
  old_state,  \* the local variable of __pthread_cond_timedwait()
  pulse       \* the count the thread passes to __pthread_cond_pulse()

condVars == <<word, queue, pc, ret, seen, owner, depth, items, produced, old_state, pulse>>
clientVars == <<items, produced, old_state, pulse>>

Cond == "cond"
Consumers == Threads \ Producers

CondInit ==
  /\ word = [k \in {Mutex, Cond} |-> IF k = Mutex THEN Unlocked ELSE 0]
  /\ queue = <<>>
  /\ pc = [t \in Threads |-> "idle"]
  /\ MutexLocals
  /\ items = 0 /\ produced = 0
  /\ old_state = [t \in Threads |-> 0]
  /\ pulse = [t \in Threads |-> 1]

\* A consumer enters its critical section and tests the condition there.
ConsumerLocks(t) ==
  /\ pc[t] = "idle" /\ t \in Consumers
  /\ Call(t, "lock", "test")
  /\ UNCHANGED clientVars

ConsumerTakes(t) ==
  /\ pc[t] = "test" /\ items > 0
  /\ items' = items - 1
  /\ Call(t, "unlock", "idle")
  /\ UNCHANGED <<produced, old_state, pulse>>

\* __pthread_cond_timedwait(): the load, the unlock, FUTEX_WAIT, the lock.
CondLoad(t) ==
  /\ pc[t] = "test" /\ items = 0
  /\ old_state' = [old_state EXCEPT ![t] = word[Cond]]
  /\ Call(t, "unlock", "cond_wait")
  /\ UNCHANGED <<items, produced, pulse>>

\* The variant that reads the counter only after the unlock.
CondWait_Late(t) ==
  /\ pc[t] = "cond_wait"
  /\ futex_wait(t, Cond, word[Cond])
  /\ Goto(t, "cond_sleep")
  /\ UNCHANGED <<word, ret, seen, owner, depth, clientVars>>

CondWait(t) ==
  /\ pc[t] = "cond_wait"
  /\ futex_wait(t, Cond, old_state[t])
  /\ Goto(t, "cond_sleep")
  /\ UNCHANGED <<word, ret, seen, owner, depth, clientVars>>

CondRelock(t) ==
  /\ pc[t] = "cond_sleep" /\ ~Queued(t)
  /\ Call(t, "lock", "test")
  /\ old_state' = [old_state EXCEPT ![t] = 0]
  /\ UNCHANGED <<items, produced, pulse>>

ProducerLocks(t) ==
  /\ pc[t] = "idle" /\ t \in Producers /\ produced < MaxItems
  /\ Call(t, "lock", "produce")
  /\ UNCHANGED clientVars

\* pthread_cond_signal() or pthread_cond_broadcast(), with the mutex held or
\* after the unlock.
ProducerAdds(t) ==
  /\ pc[t] = "produce"
  /\ items' = items + 1
  /\ produced' = produced + 1
  /\ \E count \in {1, EveryWaiter} : pulse' = [pulse EXCEPT ![t] = count]
  /\ \/ /\ Goto(t, "pulse")
        /\ UNCHANGED <<word, queue, ret, seen, owner, depth>>
     \/ Call(t, "unlock", "pulse")
  /\ UNCHANGED old_state

\* __pthread_cond_pulse(): the addition, then FUTEX_WAKE.
PulseAdd(t) ==
  /\ pc[t] = "pulse"
  /\ word' = [word EXCEPT ![Cond] = (@ + 1) % CondMod]
  /\ Goto(t, "pulse_wake")
  /\ UNCHANGED <<queue, ret, seen, owner, depth, clientVars>>

PulseWake(t) ==
  /\ pc[t] = "pulse_wake"
  /\ futex_wake(Cond, pulse[t])
  /\ IF depth[t] > 0
       THEN pc' = [pc EXCEPT ![t] = "unlock"] /\ ret' = [ret EXCEPT ![t] = "idle"]
       ELSE Goto(t, "idle") /\ UNCHANGED ret
  /\ UNCHANGED <<word, seen, owner, depth, clientVars>>

CondStep(t) ==
  \/ MutexStep(t) /\ UNCHANGED clientVars
  \/ ConsumerLocks(t)
  \/ ConsumerTakes(t)
  \/ CondLoad(t)
  \/ CondWait(t)
  \/ CondRelock(t)
  \/ ProducerAdds(t)
  \/ PulseAdd(t)
  \/ PulseWake(t)

CondNext == \E t \in Threads : CondStep(t) \/ ProducerLocks(t)

\* The items are tested and changed by one thread at a time, the waiter that
\* returns from pthread_cond_wait() included.
CondExclusion ==
  \A t, u \in Threads :
    pc[t] \in {"test", "produce"} /\ pc[u] \in {"test", "produce"} => t = u

\* No signal is lost between the unlock and FUTEX_WAIT of a waiter: when there
\* is an item and every consumer sleeps, a pulse is still to come.
SignalNotLost ==
  items > 0 /\ (\A t \in Consumers : pc[t] = "cond_sleep" /\ Queued(t)) =>
    \E u \in Producers : pc[u] \in {"unlock", "exchange", "wake", "pulse", "pulse_wake"}
=============================================================================
