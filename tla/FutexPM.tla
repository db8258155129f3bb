------------------------------ MODULE FutexPM ------------------------------
(***************************************************************************)
(* Threads of two processes that store to their futex words, wait on them  *)
(* and wake each other through PM, and the parts of PM that Futex leaves   *)
(* out: the hash table, of which futex_init() leaves the last queue as it  *)
(* is, and exit_proc(), which leaves the entry of a waiting thread.  Words *)
(* are aligned, as the compiler places them.                               *)
(***************************************************************************)
EXTENDS Futex

CONSTANTS
  Second,      \* the threads of the second process; the others are the first
  Addrs,       \* the addresses of futex words, the same in both processes
  QUEUE_HASH_SIZE,
  MaxKills     \* bound: how many threads are killed

VARIABLES
  pc,      \* "runs", "loaded" a word, "stored" one, "waits", or "hanging"
  at,      \* the address the thread is busy with
  val,     \* the value it has loaded
  kills

vars == <<word, queue, pc, at, val, kills>>

group_leader(t) == IF t \in Second THEN 2 ELSE 1

Keys == [ptr : {1, 2}, addr : Addrs]
Key(t) == [ptr |-> group_leader(t), addr |-> at[t]]

\* futex_hash() takes the address only.
futex_hash(key) == key.addr % QUEUE_HASH_SIZE

\* futex_init(): the loop stops before the last queue.
Initialised == 0..QUEUE_HASH_SIZE - 2

Init ==
  /\ word = [k \in Keys |-> 0]
  /\ queue = <<>>
  /\ pc = [t \in Threads |-> "runs"]
  /\ at = [t \in Threads |-> CHOOSE a \in Addrs : TRUE]
  /\ val = [t \in Threads |-> 0]
  /\ kills = 0

\* The user's side of a wait and of a wake.
Loads(t, a) ==
  /\ pc[t] = "runs"
  /\ at' = [at EXCEPT ![t] = a]
  /\ val' = [val EXCEPT ![t] = word[Key(t)']]
  /\ pc' = [pc EXCEPT ![t] = "loaded"]
  /\ UNCHANGED <<word, queue, kills>>

Stores(t, a) ==
  /\ pc[t] = "runs"
  /\ at' = [at EXCEPT ![t] = a]
  /\ word' = [word EXCEPT ![Key(t)'] = 1 - @]
  /\ pc' = [pc EXCEPT ![t] = "stored"]
  /\ UNCHANGED <<queue, val, kills>>

\* PM handles FUTEX_WAIT and FUTEX_WAKE.
Waits(t) ==
  /\ pc[t] = "loaded"
  /\ futex_wait(t, Key(t), val[t])
  /\ pc' = [pc EXCEPT ![t] = "waits"]
  /\ UNCHANGED <<word, at, val, kills>>

Wakes(t) ==
  /\ pc[t] = "stored"
  /\ futex_wake(Key(t), EveryWaiter)
  /\ pc' = [pc EXCEPT ![t] = "runs"]
  /\ UNCHANGED <<word, at, val, kills>>

\* The answer has arrived.
Resumes(t) ==
  /\ pc[t] = "waits" /\ ~Queued(t)
  /\ pc' = [pc EXCEPT ![t] = "runs"]
  /\ UNCHANGED <<word, queue, at, val, kills>>

\* exit_proc() of a thread that a signal ends.
exit_proc(t) ==
  /\ pc[t] = "waits" /\ kills < MaxKills
  /\ kills' = kills + 1
  /\ pc' = [pc EXCEPT ![t] = "hanging"]
  /\ UNCHANGED <<word, queue, at, val>>

Next ==
  \E t \in Threads :
    \/ \E a \in Addrs : Loads(t, a) \/ Stores(t, a)
    \/ Waits(t)
    \/ Wakes(t)
    \/ Resumes(t)
    \/ exit_proc(t)

Spec == Init /\ [][Next]_vars

\* A thread sleeps on a word that has changed since it looked only while the
\* thread that changed it is on its way to FUTEX_WAKE: PM reads the word and
\* queues the thread before it takes the next request.
NoStaleSleep ==
  \A i \in DOMAIN queue :
    LET e == queue[i] IN
      word[e.key] # val[e.t] => \E u \in Threads : pc[u] = "stored" /\ Key(u) = e.key

\* FUTEX_WAKE resumes the waiters of its own word in its own process, and not
\* those of the same address elsewhere or of a word in the same queue.
WakesOwnWord ==
  \A t \in Threads : Queued(t) /\ ~Queued(t)' =>
    \E u \in Threads : pc[u] = "stored" /\ pc'[u] = "runs" /\ Key(u) = Key(t)

\* No thread waits in the one queue whose list head futex_init() leaves unset:
\* no aligned word hashes to it.
QueueReady == \A i \in DOMAIN queue : futex_hash(queue[i].key) \in Initialised
=============================================================================
