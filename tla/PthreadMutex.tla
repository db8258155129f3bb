---------------------------- MODULE PthreadMutex ----------------------------
(***************************************************************************)
(* pthread_mutex.c: a mutex of the three types on one futex word.  Each    *)
(* atomic operation on the word is a step, and so is each system call; a   *)
(* step that touches only what its owner may change is joined to the one   *)
(* before it.                                                              *)
(*                                                                         *)
(* The word is [s, c]: the two state bits and the recursion count.  The    *)
(* type bits never change and are the constant Type.  A call returns to    *)
(* ret[t], so that the condition variables and the read-write locks can    *)
(* use the same steps; depth[t] tells a lock that succeeded.               *)
(***************************************************************************)
EXTENDS Futex

CONSTANTS
  Type,       \* "normal", "recursive" or "errorcheck"
  MaxCount    \* MUTEX_COUNT_MASK in units of MUTEX_COUNT_ONE

VARIABLES
  pc,      \* where each thread is
  ret,     \* where its call returns to
  seen,    \* the local variable state of __pthread_normal_mutex_lock()
  owner,   \* mutex->owner
  depth    \* how many times the thread has locked the mutex and not unlocked

mutexVars == <<word, queue, pc, ret, seen, owner, depth>>

NoOwner == "none"
Mutex == "mutex"
Unlocked == [s |-> 0, c |-> 0]

MutexLocals ==
  /\ ret = [t \in Threads |-> "idle"]
  /\ seen = [t \in Threads |-> Unlocked]
  /\ owner = NoOwner
  /\ depth = [t \in Threads |-> 0]

Goto(t, label) == pc' = [pc EXCEPT ![t] = label]

Call(t, label, back) ==
  /\ pc' = [pc EXCEPT ![t] = label]
  /\ ret' = [ret EXCEPT ![t] = back]
  /\ UNCHANGED <<word, queue, seen, owner, depth>>

\* The locals of a call end with it.
Return(t) ==
  /\ pc' = [pc EXCEPT ![t] = ret[t]]
  /\ ret' = [ret EXCEPT ![t] = "idle"]
  /\ seen' = [seen EXCEPT ![t] = Unlocked]

Continue(t, label) == Goto(t, label) /\ UNCHANGED <<ret, seen, depth>>
Done(t) == Return(t) /\ UNCHANGED depth
Locked(t) == Return(t) /\ depth' = [depth EXCEPT ![t] = @ + 1]

\* What follows once the word is taken: the other types note their owner.
Taken(t) == IF Type = "normal" THEN Locked(t) ELSE Continue(t, "own")

\* __pthread_normal_mutex_trylock(): one compare and swap.
__pthread_normal_mutex_trylock(t, otherwise) ==
  /\ IF word[Mutex] = Unlocked
       THEN word' = [word EXCEPT ![Mutex].s = 1] /\ Taken(t)
       ELSE otherwise /\ UNCHANGED word
  /\ UNCHANGED <<queue, owner>>

\* __pthread_mutex_relock(), by the owner: EDEADLK, EAGAIN or one more.
__pthread_mutex_relock(t) ==
  /\ IF Type = "errorcheck" \/ word[Mutex].c = MaxCount
       THEN Done(t) /\ UNCHANGED word
       ELSE Locked(t) /\ word' = [word EXCEPT ![Mutex].c = @ + 1]
  /\ UNCHANGED <<queue, owner>>

\* pthread_mutex_lock(): the fast path, or the branch on the owner.
pthread_mutex_lock(t) ==
  /\ pc[t] = "lock"
  /\ \/ /\ Type = "normal"
        /\ __pthread_normal_mutex_trylock(t, Continue(t, "try"))
     \/ /\ Type # "normal" /\ owner = t
        /\ __pthread_mutex_relock(t)
     \/ /\ Type # "normal" /\ owner # t
        /\ Continue(t, "try")
        /\ UNCHANGED <<word, queue, owner>>

\* pthread_mutex_trylock(): EBUSY also for the owner of an error-checking one.
pthread_mutex_trylock(t) ==
  /\ pc[t] = "trylock"
  /\ \/ /\ Type = "normal" \/ owner # t
        /\ __pthread_normal_mutex_trylock(t, Done(t))
     \/ /\ Type # "normal" /\ owner = t
        /\ __pthread_mutex_relock(t)

\* __pthread_normal_mutex_lock(): the first try, and the load that follows
\* it and every return from FUTEX_WAIT.
LockTry(t) ==
  /\ pc[t] = "try"
  /\ __pthread_normal_mutex_trylock(t, Continue(t, "load"))

LockLoad(t) ==
  /\ pc[t] = "load" \/ (pc[t] = "sleep" /\ ~Queued(t))
  /\ seen' = [seen EXCEPT ![t] = word[Mutex]]
  /\ Goto(t, "mark")
  /\ UNCHANGED <<word, queue, ret, owner, depth>>

\* The variant that drops the owner's recursion count.
Desired_Count(t) == [s |-> 2, c |-> 0]

Desired(t) == [seen[t] EXCEPT !.s = 2]

\* The compare and exchange that marks contention: it takes a free mutex, and
\* when it fails it has loaded the word again.
LockMark(t) ==
  /\ pc[t] = "mark"
  /\ \/ /\ word[Mutex] # seen[t]
        /\ seen' = [seen EXCEPT ![t] = word[Mutex]]
        /\ UNCHANGED <<word, pc, ret, depth>>
     \/ /\ word[Mutex] = seen[t]
        /\ word' = [word EXCEPT ![Mutex] = Desired(t)]
        /\ IF seen[t].s = 0 THEN Taken(t) ELSE Continue(t, "wait")
  /\ UNCHANGED <<queue, owner>>

LockWait(t) ==
  /\ pc[t] = "wait"
  /\ futex_wait(t, Mutex, Desired(t))
  /\ Goto(t, "sleep")
  /\ UNCHANGED <<word, ret, seen, owner, depth>>

\* The store of the owner that ends a lock of the other types.
LockOwn(t) ==
  /\ pc[t] = "own"
  /\ owner' = t
  /\ Locked(t)
  /\ UNCHANGED <<word, queue>>

\* pthread_mutex_unlock(): EPERM, one relock less, or on to the exchange.
pthread_mutex_unlock(t) ==
  /\ pc[t] = "unlock"
  /\ \/ /\ Type = "normal"
        /\ Continue(t, "exchange")
        /\ UNCHANGED <<word, owner>>
     \/ /\ Type # "normal" /\ owner # t
        /\ Done(t)
        /\ UNCHANGED <<word, owner>>
     \/ /\ Type # "normal" /\ owner = t /\ word[Mutex].c > 0
        /\ Return(t)
        /\ word' = [word EXCEPT ![Mutex].c = @ - 1]
        /\ depth' = [depth EXCEPT ![t] = @ - 1]
        /\ UNCHANGED owner
     \/ /\ Type # "normal" /\ owner = t /\ word[Mutex].c = 0
        /\ Continue(t, "exchange")
        /\ owner' = NoOwner
        /\ UNCHANGED word
  /\ UNCHANGED queue

\* __pthread_normal_mutex_unlock(): the exchange, then the wake when the old
\* word was contended.
UnlockExchange(t) ==
  /\ pc[t] = "exchange"
  /\ word' = [word EXCEPT ![Mutex] = Unlocked]
  /\ depth' = [depth EXCEPT ![t] = @ - 1]
  /\ IF word[Mutex].s = 2 THEN Goto(t, "wake") /\ UNCHANGED <<ret, seen>> ELSE Return(t)
  /\ UNCHANGED <<queue, owner>>

UnlockWake(t) ==
  /\ pc[t] = "wake"
  /\ futex_wake(Mutex, 1)
  /\ Done(t)
  /\ UNCHANGED <<word, owner>>

MutexStep(t) ==
  \/ pthread_mutex_lock(t)
  \/ pthread_mutex_trylock(t)
  \/ LockTry(t)
  \/ LockLoad(t)
  \/ LockMark(t)
  \/ LockWait(t)
  \/ LockOwn(t)
  \/ pthread_mutex_unlock(t)
  \/ UnlockExchange(t)
  \/ UnlockWake(t)

---------------------------------------------------------------------------
\* Threads that use one mutex.  A thread between two calls is "idle" and in
\* its critical section when it has the mutex; it never locks a normal mutex
\* twice nor unlocks one it has not, which POSIX leaves undefined.
MutexInit ==
  /\ word = [k \in {Mutex} |-> Unlocked]
  /\ queue = <<>>
  /\ pc = [t \in Threads |-> "idle"]
  /\ MutexLocals

Locks(t) ==
  /\ pc[t] = "idle"
  /\ Type = "normal" => depth[t] = 0
  /\ Call(t, "lock", "idle") \/ Call(t, "trylock", "idle")

Unlocks(t) ==
  /\ pc[t] = "idle"
  /\ Type = "normal" => depth[t] > 0
  /\ Call(t, "unlock", "idle")

MutexNext == \E t \in Threads : Locks(t) \/ Unlocks(t) \/ MutexStep(t)

Holds(t) == depth[t] > 0 \/ pc[t] = "own"

\* Two threads never have the mutex at once, whatever the interleaving of the
\* compare and swaps of pthread_mutex_lock() with an unlock and its wake.
Exclusion == \A t, u \in Threads : Holds(t) /\ Holds(u) => t = u

\* While a thread has a recursive or error-checking mutex, mutex->owner names
\* it and the count bits hold its relocks, although waiting threads rewrite
\* the same word to mark contention.
CountExact ==
  \A t \in Threads : Type # "normal" /\ depth[t] > 0 =>
    /\ word[Mutex].c = depth[t] - 1
    /\ pc[t] # "exchange" => owner = t

\* A thread sleeps in FUTEX_WAIT only while someone is bound to look again:
\* the word says contended, or an unlock is about to wake, or another thread
\* is awake in __pthread_normal_mutex_lock() and will mark the word again.
SleeperCovered ==
  queue # <<>> =>
    \/ word[Mutex].s = 2
    \/ \E u \in Threads : pc[u] \in {"wake", "load", "mark", "wait"}
    \/ \E u \in Threads : pc[u] = "sleep" /\ ~Queued(u)

\* The thread is in __pthread_normal_mutex_lock().
Waiting(t) == pc[t] \in {"try", "load", "mark", "wait", "sleep"}
=============================================================================
