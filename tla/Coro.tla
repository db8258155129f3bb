--------------------------------- MODULE Coro ---------------------------------
(***************************************************************************)
(* The coroutines of a server (lib/libcoro) around one read-write lock.    *)
(* Threads are cooperative: the current thread runs until it suspends, so  *)
(* an action is what a thread does between two switches, or one library    *)
(* call of it.  A thread that runs again continues where pc says.          *)
(* rwlock->mutex is only ever held between two switches (coro_cond_wait()  *)
(* releases it before it suspends), so its lock never waits and it is not  *)
(* part of the state.                                                      *)
(***************************************************************************)
EXTENDS Integers, Sequences, FiniteSets

CONSTANT NrThreads   \* the threads made with coro_thread_create()

Threads == 0 .. NrThreads - 1
MAIN_THREAD == -1
NO_THREAD == -2

ASSUME ThreadsAssumption == NrThreads \in Nat

VARIABLES
  current_thread,
  run_queue,      \* runnable threads in the order they will run
  pc,             \* where a thread continues: "run", or inside a lock call
  held,           \* what the thread was granted: "none", "read" or "write"
  readers, writer,
  reader_queue,   \* mutex: its owner and the threads waiting for it
  writer_queue    \* condition variable: the writer waiting for the readers

lockVars == <<readers, writer, reader_queue, writer_queue, held>>
vars == <<current_thread, run_queue, pc, lockVars>>

Places == {"run", "sleep", "rdlock", "wrlock", "cond_wait"}

\* The threads have been created and the main thread is about to yield.
Init ==
  /\ current_thread = MAIN_THREAD
  /\ run_queue = [i \in 1 .. NrThreads |-> i - 1]
  /\ pc = [t \in Threads |-> "run"]
  /\ held = [t \in Threads |-> "none"]
  /\ readers = 0
  /\ writer = NO_THREAD
  /\ reader_queue = [owner |-> NO_THREAD, wait |-> <<>>]
  /\ writer_queue = <<>>

-----------------------------------------------------------------------------
(* scheduler.c and queue.c *)

\* mutant: the thread switched to stays in the run queue
coro_schedule_Peek(q) ==
  IF q = <<>> THEN current_thread' = MAIN_THREAD /\ run_queue' = <<>>
  ELSE current_thread' = Head(q) /\ run_queue' = q

\* coro_schedule(), with the run queue q
coro_schedule(q) ==
  IF q = <<>> THEN current_thread' = MAIN_THREAD /\ run_queue' = <<>>
  ELSE current_thread' = Head(q) /\ run_queue' = Tail(q)

\* coro_yield() of any thread, and of the main thread in coro_yield_all()
coro_yield(t) ==
  /\ current_thread = t
  /\ t \in Threads => pc[t] = "run"
  /\ run_queue # <<>>
  /\ coro_schedule(Append(run_queue, t))
  /\ UNCHANGED <<pc, lockVars>>

\* A thread waits for an event that is not a lock, such as a driver's reply.
Sleep(t) ==
  /\ current_thread = t /\ pc[t] = "run"
  /\ pc' = [pc EXCEPT ![t] = "sleep"]
  /\ coro_schedule(run_queue)
  /\ UNCHANGED lockVars

\* coro_unsuspend() of a sleeping thread by whichever thread is running
Wake(t) ==
  /\ pc[t] = "sleep"
  /\ pc' = [pc EXCEPT ![t] = "run"]
  /\ run_queue' = Append(run_queue, t)
  /\ UNCHANGED <<current_thread, lockVars>>

-----------------------------------------------------------------------------
(* mutex.c *)

\* coro_queue_dequeue() and coro_unsuspend(): what is left of a wait queue, and
\* the run queue with the thread taken out of it
Rest(q) == IF q = <<>> THEN <<>> ELSE Tail(q)
Resume(q) == IF q = <<>> THEN run_queue ELSE Append(run_queue, Head(q))

\* mutant: the mutex is left free and the first waiter is only woken
Unlocked_Free(m) == [owner |-> NO_THREAD,
                     wait |-> Rest(m.wait)]

\* coro_mutex_unlock(): the first waiter becomes the owner and runs again
Unlocked(m) == [owner |-> IF m.wait = <<>> THEN NO_THREAD ELSE Head(m.wait),
                wait |-> Rest(m.wait)]

\* coro_mutex_lock() of a mutex that has an owner: wait for it at place where
MutexWait(t, where) ==
  /\ reader_queue' = [reader_queue EXCEPT !.wait = Append(@, t)]
  /\ pc' = [pc EXCEPT ![t] = where]
  /\ coro_schedule(run_queue)
  /\ UNCHANGED <<readers, writer, writer_queue, held>>

-----------------------------------------------------------------------------
(* rwlock.c *)

\* coro_rwlock_rdlock() from the point where t owns reader_queue
RdEnter(t) ==
  /\ reader_queue' = Unlocked(reader_queue)
  /\ run_queue' = Resume(reader_queue.wait)
  /\ readers' = readers + 1
  /\ held' = [held EXCEPT ![t] = "read"]
  /\ pc' = [pc EXCEPT ![t] = "run"]
  /\ UNCHANGED <<current_thread, writer, writer_queue>>

coro_rwlock_rdlock(t) ==
  /\ current_thread = t /\ pc[t] = "run" /\ held[t] = "none"
  /\ \/ reader_queue.owner = NO_THREAD /\ RdEnter(t)
     \/ reader_queue.owner # NO_THREAD /\ MutexWait(t, "rdlock")

RdContinue(t) == current_thread = t /\ pc[t] = "rdlock" /\ RdEnter(t)

\* mutant: a writer does not wait for the readers that are in
WrEnter_NoWait(t) ==
  /\ reader_queue' = [reader_queue EXCEPT !.owner = t]
  /\ writer' = t
  /\ pc' = [pc EXCEPT ![t] = "run"]
  /\ held' = [held EXCEPT ![t] = "write"]
  /\ UNCHANGED <<current_thread, run_queue, writer_queue, readers>>

\* coro_rwlock_wrlock() from the point where t owns reader_queue
WrEnter(t) ==
  /\ reader_queue' = [reader_queue EXCEPT !.owner = t]
  /\ writer' = t
  /\ \/ /\ readers > 0
        /\ writer_queue' = Append(writer_queue, t)
        /\ pc' = [pc EXCEPT ![t] = "cond_wait"]
        /\ coro_schedule(run_queue)
        /\ UNCHANGED held
     \/ /\ readers = 0
        /\ pc' = [pc EXCEPT ![t] = "run"]
        /\ held' = [held EXCEPT ![t] = "write"]
        /\ UNCHANGED <<current_thread, run_queue, writer_queue>>
  /\ UNCHANGED readers

coro_rwlock_wrlock(t) ==
  /\ current_thread = t /\ pc[t] = "run" /\ held[t] = "none"
  /\ \/ reader_queue.owner = NO_THREAD /\ WrEnter(t)
     \/ reader_queue.owner # NO_THREAD /\ MutexWait(t, "wrlock")

WrContinue(t) == current_thread = t /\ pc[t] = "wrlock" /\ WrEnter(t)

\* coro_cond_wait() returns: the readers are out
CondContinue(t) ==
  /\ current_thread = t /\ pc[t] = "cond_wait"
  /\ pc' = [pc EXCEPT ![t] = "run"]
  /\ held' = [held EXCEPT ![t] = "write"]
  /\ UNCHANGED <<current_thread, run_queue, readers, writer, reader_queue,
                 writer_queue>>

\* the last reader to leave signals the waiting writer
ReaderLeaves(t) ==
  /\ readers' = readers - 1
  /\ IF readers = 1 /\ writer # NO_THREAD
     THEN /\ writer_queue' = Rest(writer_queue)
          /\ run_queue' = Resume(writer_queue)
     ELSE UNCHANGED <<writer_queue, run_queue>>
  /\ UNCHANGED <<writer, reader_queue>>

coro_rwlock_unlock(t) ==
  /\ current_thread = t /\ pc[t] = "run" /\ held[t] # "none"
  /\ held' = [held EXCEPT ![t] = "none"]
  /\ \/ /\ writer = t
        /\ writer' = NO_THREAD
        /\ reader_queue' = Unlocked(reader_queue)
        /\ run_queue' = Resume(reader_queue.wait)
        /\ UNCHANGED <<readers, writer_queue>>
     \/ writer # t /\ readers > 0 /\ ReaderLeaves(t)
  /\ UNCHANGED <<current_thread, pc>>

Next ==
  \/ coro_yield(MAIN_THREAD)
  \/ \E t \in Threads : \/ coro_yield(t)
                        \/ Sleep(t)
                        \/ Wake(t)
                        \/ coro_rwlock_rdlock(t)
                        \/ RdContinue(t)
                        \/ coro_rwlock_wrlock(t)
                        \/ WrContinue(t)
                        \/ CondContinue(t)
                        \/ coro_rwlock_unlock(t)

Spec == Init /\ [][Next]_vars

\* Whoever has the processor goes on.
ThreadRuns == coro_yield(MAIN_THREAD) \/ \E t \in Threads : current_thread = t /\ Next

-----------------------------------------------------------------------------
(* Properties *)

\* Every variable holds what the C variables can hold.
TypeOK ==
  /\ current_thread \in Threads \cup {MAIN_THREAD}
  /\ run_queue \in Seq(Threads \cup {MAIN_THREAD})
  /\ pc \in [Threads -> Places]
  /\ held \in [Threads -> {"none", "read", "write"}]
  /\ readers \in Nat
  /\ writer \in Threads \cup {NO_THREAD}
  /\ reader_queue \in [owner : Threads \cup {NO_THREAD}, wait : Seq(Threads)]
  /\ writer_queue \in Seq(Threads)

\* The lock excludes: while a thread holds it for writing no other holds it.
Exclusion ==
  \A t, u \in Threads : held[t] = "write" /\ t # u => held[u] = "none"

Occurrences(q, t) == Cardinality({i \in 1 .. Len(q) : q[i] = t})

\* A tcb has one next pointer: a thread is in at most one queue, once, and it
\* is in one exactly when it is not running, not asleep and not the idle main.
OneQueue ==
  \A t \in Threads :
    Occurrences(run_queue, t) + Occurrences(reader_queue.wait, t)
      + Occurrences(writer_queue, t)
    = IF t = current_thread \/ pc[t] = "sleep" THEN 0 ELSE 1

\* A thread that coro_mutex_lock() made wait owns the mutex when it runs again,
\* so the unlock that follows in coro_rwlock_rdlock() does not return EPERM.
HandedOver ==
  \A t \in Threads :
    pc[t] \in {"rdlock", "wrlock"} /\ Occurrences(reader_queue.wait, t) = 0
      => reader_queue.owner = t

\* Thread t has asked for the lock and was not granted it yet.
Asks(t) == pc[t] \in {"rdlock", "wrlock", "cond_wait"}
=============================================================================
