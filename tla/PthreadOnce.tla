---------------------------- MODULE PthreadOnce ----------------------------
(***************************************************************************)
(* pthread_once.c: threads that all call pthread_once() with one control   *)
(* word, of which one runs the initialisation.                             *)
(***************************************************************************)
EXTENDS Futex

VARIABLES
  pc,          \* where each thread is
  old_state,   \* the local variable of pthread_once()
  inits        \* how many times init_routine() has been entered, and left

vars == <<word, queue, pc, old_state, inits>>

Once == "once"
ONCE_COMPLETED == 1
ONCE_LOCKED == 2

Init ==
  /\ word = [k \in {Once} |-> 0]
  /\ queue = <<>>
  /\ pc = [t \in Threads |-> "load"]
  /\ old_state = [t \in Threads |-> 0]
  /\ inits = [entered |-> 0, left |-> 0]

Goto(t, label) == pc' = [pc EXCEPT ![t] = label]

\* The load at the start and after each return from FUTEX_WAIT, with the test
\* of the loop.
Branch(state) ==
  CASE state = ONCE_COMPLETED -> "done"
    [] state = ONCE_LOCKED -> "wait"
    [] OTHER -> "swap"

Load(t) ==
  /\ pc[t] = "load" \/ (pc[t] = "sleep" /\ ~Queued(t))
  /\ old_state' = [old_state EXCEPT ![t] = word[Once]]
  /\ Goto(t, Branch(word[Once]))
  /\ UNCHANGED <<word, queue, inits>>

\* The compare and exchange: the winner runs init_routine(), a loser has the
\* new value in old_state.
Swap(t) ==
  /\ pc[t] = "swap"
  /\ IF word[Once] = old_state[t]
       THEN /\ word' = [word EXCEPT ![Once] = ONCE_LOCKED]
            /\ inits' = [inits EXCEPT !.entered = @ + 1]
            /\ Goto(t, "init")
            /\ UNCHANGED old_state
       ELSE /\ old_state' = [old_state EXCEPT ![t] = word[Once]]
            /\ Goto(t, Branch(word[Once]))
            /\ UNCHANGED <<word, inits>>
  /\ UNCHANGED queue

\* init_routine() returns.
InitDone(t) ==
  /\ pc[t] = "init"
  /\ inits' = [inits EXCEPT !.left = @ + 1]
  /\ Goto(t, "complete")
  /\ UNCHANGED <<word, queue, old_state>>

Complete(t) ==
  /\ pc[t] = "complete"
  /\ word' = [word EXCEPT ![Once] = ONCE_COMPLETED]
  /\ Goto(t, "wake")
  /\ UNCHANGED <<queue, old_state, inits>>

Wake(t) ==
  /\ pc[t] = "wake"
  /\ futex_wake(Once, EveryWaiter)
  /\ Goto(t, "done")
  /\ UNCHANGED <<word, old_state, inits>>

Wait(t) ==
  /\ pc[t] = "wait"
  /\ futex_wait(t, Once, ONCE_LOCKED)
  /\ Goto(t, "sleep")
  /\ UNCHANGED <<word, old_state, inits>>

Step(t) == Load(t) \/ Swap(t) \/ InitDone(t) \/ Complete(t) \/ Wake(t) \/ Wait(t)

Next == \E t \in Threads : Step(t)

Spec == Init /\ [][Next]_vars

\* init_routine() runs once.
OneInitializer == inits.entered <= 1

\* No thread returns from pthread_once() before init_routine() has finished.
InitializedOnce == \A t \in Threads : pc[t] = "done" => inits.left > 0
=============================================================================
