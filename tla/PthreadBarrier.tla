--------------------------- MODULE PthreadBarrier ---------------------------
(***************************************************************************)
(* pthread_barrier.c: as many threads as the barrier counts meet again and *)
(* again.  The futex word is [g, n]: the generation bit and the arrivals.  *)
(***************************************************************************)
EXTENDS Futex

CONSTANT MaxRounds   \* bound: how many times each thread waits

VARIABLES
  pc,           \* where each thread is
  generation,   \* the local variables of pthread_barrier_wait()
  state,
  entered,      \* how many times each thread has entered the barrier
  left,         \* how many times it has returned from it
  serials       \* how often PTHREAD_BARRIER_SERIAL_THREAD has been returned

vars == <<word, queue, pc, generation, state, entered, left, serials>>

Barrier == "barrier"
count == Cardinality(Threads)
Empty == [g |-> 0, n |-> 0]

Init ==
  /\ word = [k \in {Barrier} |-> Empty]
  /\ queue = <<>>
  /\ pc = [t \in Threads |-> "idle"]
  /\ generation = [t \in Threads |-> 0]
  /\ state = [t \in Threads |-> Empty]
  /\ entered = [t \in Threads |-> 0]
  /\ left = [t \in Threads |-> 0]
  /\ serials = 0

Goto(t, label) == pc' = [pc EXCEPT ![t] = label]

Leave(t) ==
  /\ Goto(t, "idle")
  /\ left' = [left EXCEPT ![t] = @ + 1]

\* pthread_barrier_wait(): the addition, and whether this is the last thread.
Arrive(t) ==
  /\ pc[t] = "idle" /\ entered[t] < MaxRounds
  /\ entered' = [entered EXCEPT ![t] = @ + 1]
  /\ word' = [word EXCEPT ![Barrier].n = @ + 1]
  /\ generation' = [generation EXCEPT ![t] = word[Barrier].g]
  /\ Goto(t, IF word[Barrier].n + 1 = count THEN "release" ELSE "load")
  /\ UNCHANGED <<queue, state, left, serials>>

\* The last thread: the other generation with no arrivals, then the wake.
Release(t) ==
  /\ pc[t] = "release"
  /\ word' = [word EXCEPT ![Barrier] = [g |-> 1 - generation[t], n |-> 0]]
  /\ Goto(t, "wake")
  /\ UNCHANGED <<queue, generation, state, entered, left, serials>>

Wake(t) ==
  /\ pc[t] = "wake"
  /\ futex_wake(Barrier, EveryWaiter)
  /\ serials' = serials + 1
  /\ Leave(t)
  /\ UNCHANGED <<word, generation, state, entered>>

\* The variant that takes any wake or refusal for the end of the round.
Load_Once(t) ==
  /\ pc[t] = "load" \/ (pc[t] = "sleep" /\ ~Queued(t))
  /\ state' = [state EXCEPT ![t] = word[Barrier]]
  /\ \/ pc[t] = "sleep" /\ Leave(t)
     \/ pc[t] = "load" /\ Goto(t, "wait") /\ UNCHANGED left
  /\ UNCHANGED <<word, queue, generation, entered, serials>>

\* The loop of the others.
Load(t) ==
  /\ pc[t] = "load" \/ (pc[t] = "sleep" /\ ~Queued(t))
  /\ state' = [state EXCEPT ![t] = word[Barrier]]
  /\ \/ word[Barrier].g # generation[t] /\ Leave(t)
     \/ word[Barrier].g = generation[t] /\ Goto(t, "wait") /\ UNCHANGED left
  /\ UNCHANGED <<word, queue, generation, entered, serials>>

Wait(t) ==
  /\ pc[t] = "wait"
  /\ futex_wait(t, Barrier, state[t])
  /\ Goto(t, "sleep")
  /\ UNCHANGED <<word, generation, state, entered, left, serials>>

Step(t) == Arrive(t) \/ Release(t) \/ Wake(t) \/ Load(t) \/ Wait(t)

Next == \E t \in Threads : Step(t)

Spec == Init /\ [][Next]_vars

\* No thread leaves a round that another has not entered, also when a fast
\* thread enters the next round before a slow one has seen this one end.
BarrierHolds == \A t, u \in Threads : left[t] <= entered[u]

\* Each round names one serial thread: as many have been named as the slowest
\* thread has left rounds, or one more.
OneSerial ==
  /\ \A t \in Threads : serials <= entered[t]
  /\ (\A t \in Threads : pc[t] = "idle" /\ left[t] = entered[t]
                         /\ \A u \in Threads : left[u] = left[t]) =>
       \A t \in Threads : serials = left[t]
=============================================================================
