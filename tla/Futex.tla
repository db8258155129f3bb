------------------------------- MODULE Futex -------------------------------
(***************************************************************************)
(* The futexes of the process manager, servers/pm/futex.c, as the thread   *)
(* library in toolchain/patches/newlib/lyos/pthread uses them.  PM handles *)
(* one request at a time, so each operation is one step: it is the whole   *)
(* of do_futex() for one message, from the read of the user's word to the  *)
(* queue.  A thread that the queue names sleeps in FUTEX_WAIT, and is      *)
(* resumed by the answer that takes it off the queue.                      *)
(*                                                                         *)
(* All the queues of the hash table are one sequence: entries with equal   *)
(* keys share a queue and only their order matters.                        *)
(***************************************************************************)
EXTENDS Integers, Sequences, FiniteSets

CONSTANT Threads

VARIABLES
  word,   \* the user's memory: the value of each futex word, by its key
  queue   \* futex_queues: entries [t, key], newest first

futexVars == <<word, queue>>

Queued(t) == \E i \in DOMAIN queue : queue[i].t = t

\* The variant that wakes the whole queue of the hash table.
futex_match_key_Any(k1, k2) == TRUE

\* futex_match_key(): the same word of the same thread group.
futex_match_key(k1, k2) == k1 = k2

\* futex_wait_setup(): the word still has the value the caller saw.
futex_wait_setup(key, val) == word[key] = val

\* futex_wait(): queued in front, or EAGAIN.
futex_wait(t, key, val) ==
  queue' = IF futex_wait_setup(key, val)
             THEN <<[t |-> t, key |-> key]>> \o queue
             ELSE queue

Matching(key) == {i \in DOMAIN queue : futex_match_key(queue[i].key, key)}

\* The entries futex_wake() moves to its wake queue: the newest first, until
\* the count that it compares after each one has reached nr_wake.
ToWake(key, nr_wake) ==
  {i \in Matching(key) :
     \/ \A j \in Matching(key) : i <= j
     \/ Cardinality({j \in Matching(key) : j < i}) < nr_wake}

\* futex_wake(): the entries leave the queue and their threads are answered.
futex_wake(key, nr_wake) ==
  LET woken == {queue[i].t : i \in ToWake(key, nr_wake)}
  IN  queue' = SelectSeq(queue, LAMBDA e : e.t \notin woken)

\* INT_MAX of the callers that wake every waiter.
EveryWaiter == Cardinality(Threads)
=============================================================================
