--------------------------- MODULE PthreadRwlock ---------------------------
(***************************************************************************)
(* pthread_rwlock.c on top of the mutex.  lock->state is the word [w, r,   *)
(* pr, pw]: write-locked, the number of readers, pending readers, pending  *)
(* writers.  It is a signed int whose sign bit is RWS_WRLOCKED, so that a  *)
(* write-locked word is negative and RW_RDLOCKED() is false of it.         *)
(*                                                                         *)
(* __can_wrlock() is therefore true of every word and a writer never       *)
(* waits: the rest of __pthread_rwlock_timedwrlock() is not reached, and   *)
(* is not modelled.                                                        *)
(***************************************************************************)
EXTENDS PthreadMutex

CONSTANTS
  Readers,     \* the threads that lock for reading
  Writers,     \* the threads that lock for writing
  MaxWrites,   \* bound: how many write locks are taken in all
  SerialMod    \* how many increments until a serial has its value again

VARIABLES
  pending_reader_count,
  old_state,     \* the local variables of __pthread_rwlock_timedrdlock()
  old_serial,
  writes,        \* how many write locks have been taken
  holds          \* what each thread has been granted: "read", "write", "none"

rwlockVars == <<word, queue, pc, ret, seen, owner, depth,
                pending_reader_count, old_state, old_serial, writes, holds>>
mutexRest == <<queue, ret, seen, owner, depth>>

State == "state"
Serial == "pending_reader_serial"
FreeLock == [w |-> FALSE, r |-> 0, pr |-> FALSE, pw |-> FALSE]

RwlockInit ==
  /\ word = [k \in {Mutex, State, Serial} |->
               CASE k = Mutex -> Unlocked [] k = State -> FreeLock [] k = Serial -> 0]
  /\ queue = <<>>
  /\ pc = [t \in Threads |-> "idle"]
  /\ MutexLocals
  /\ pending_reader_count = 0
  /\ old_state = [t \in Threads |-> FreeLock]
  /\ old_serial = [t \in Threads |-> 0]
  /\ writes = 0
  /\ holds = [t \in Threads |-> "none"]

RW_WRLOCKED(s) == s.w
RW_RDLOCKED(s) == ~s.w /\ s.r > 0
__can_rdlock(s) == ~RW_WRLOCKED(s)
__can_wrlock(s) == ~(RW_WRLOCKED(s) /\ RW_RDLOCKED(s))

\* pthread_rwlock_tryrdlock(): the compare and exchange on a word that may be
\* locked for reading, or EBUSY.  Its other callers try it again.
pthread_rwlock_tryrdlock(t) ==
  /\ pc[t] \in {"idle", "rd_try"} /\ t \in Readers /\ holds[t] = "none"
  /\ IF __can_rdlock(word[State])
       THEN /\ word' = [word EXCEPT ![State].r = @ + 1]
            /\ holds' = [holds EXCEPT ![t] = "read"]
            /\ Goto(t, "idle")
       ELSE Goto(t, "rd_pend") /\ UNCHANGED <<word, holds>>
  /\ UNCHANGED <<mutexRest, pending_reader_count, old_state, old_serial, writes>>

\* __pthread_rwlock_timedrdlock(): the second look at the word, then the
\* pending count, the pending bit and the serial under pending_mutex.
ReadPend(t) ==
  /\ pc[t] = "rd_pend"
  /\ IF __can_rdlock(word[State])
       THEN Goto(t, "rd_try") /\ UNCHANGED <<word, mutexRest>>
       ELSE Call(t, "lock", "rd_count")
  /\ UNCHANGED <<pending_reader_count, old_state, old_serial, holds, writes>>

ReadCount(t) ==
  /\ pc[t] = "rd_count"
  /\ pending_reader_count' = pending_reader_count + 1
  /\ word' = [word EXCEPT ![State].pr = TRUE]
  /\ old_state' = [old_state EXCEPT ![t] = word[State]]
  /\ old_serial' = [old_serial EXCEPT ![t] = word[Serial]]
  /\ pc' = [pc EXCEPT ![t] = "unlock"]
  /\ ret' = [ret EXCEPT ![t] = "rd_wait"]
  /\ UNCHANGED <<queue, seen, owner, depth, holds, writes>>

\* FUTEX_WAIT on the serial unless the word was free to read; EAGAIN of
\* FUTEX_WAIT becomes the result of the lock.
ReadWait(t) ==
  /\ pc[t] = "rd_wait"
  /\ IF __can_rdlock(old_state[t])
       THEN Goto(t, "rd_done") /\ UNCHANGED queue
       ELSE /\ futex_wait(t, Serial, old_serial[t])
            /\ Goto(t, IF futex_wait_setup(Serial, old_serial[t]) THEN "rd_sleep" ELSE "rd_again")
  /\ UNCHANGED <<word, ret, seen, owner, depth, pending_reader_count, old_state, old_serial,
                 holds, writes>>

ReadWoken(t) ==
  /\ \/ /\ pc[t] = "rd_done" \/ (pc[t] = "rd_sleep" /\ ~Queued(t))
        /\ Call(t, "lock", "rd_uncount")
     \/ pc[t] = "rd_again" /\ Call(t, "lock", "rd_fail")
  /\ old_state' = [old_state EXCEPT ![t] = FreeLock]
  /\ old_serial' = [old_serial EXCEPT ![t] = 0]
  /\ UNCHANGED <<pending_reader_count, holds, writes>>

\* The pending count again; then EAGAIN is returned, or the loop goes on.
ReadUncount(t) ==
  /\ pc[t] \in {"rd_uncount", "rd_fail"}
  /\ pending_reader_count' = pending_reader_count - 1
  /\ word' = [word EXCEPT ![State].pr = @ /\ pending_reader_count > 1]
  /\ pc' = [pc EXCEPT ![t] = "unlock"]
  /\ ret' = [ret EXCEPT ![t] = IF pc[t] = "rd_fail" THEN "idle" ELSE "rd_try"]
  /\ UNCHANGED <<queue, seen, owner, depth, old_state, old_serial, holds, writes>>

\* pthread_rwlock_wrlock(): trywrlock() always succeeds.
pthread_rwlock_trywrlock(t) ==
  /\ pc[t] = "idle" /\ t \in Writers /\ holds[t] = "none" /\ writes < MaxWrites
  /\ __can_wrlock(word[State])
  /\ word' = [word EXCEPT ![State].w = TRUE]
  /\ holds' = [holds EXCEPT ![t] = "write"]
  /\ writes' = writes + 1
  /\ UNCHANGED <<pc, mutexRest, pending_reader_count, old_state, old_serial>>

\* pthread_rwlock_unlock(): the word decides what is unlocked.
pthread_rwlock_unlock(t) ==
  /\ pc[t] = "idle" /\ holds[t] # "none"
  /\ holds' = [holds EXCEPT ![t] = "none"]
  /\ LET s == word[State] IN
       \/ /\ RW_WRLOCKED(s)
          /\ word' = [word EXCEPT ![State].w = FALSE]
          /\ IF s.pw \/ s.pr
               THEN pc' = [pc EXCEPT ![t] = "lock"] /\ ret' = [ret EXCEPT ![t] = "wr_wake"]
               ELSE UNCHANGED <<pc, ret>>
       \/ /\ RW_RDLOCKED(s)
          /\ word' = [word EXCEPT ![State].r = @ - 1]
          /\ IF s.r = 1 /\ s.pw /\ s.pr
               THEN pc' = [pc EXCEPT ![t] = "lock"] /\ ret' = [ret EXCEPT ![t] = "wr_wake"]
               ELSE UNCHANGED <<pc, ret>>
       \/ /\ ~RW_WRLOCKED(s) /\ ~RW_RDLOCKED(s)   \* EPERM
          /\ UNCHANGED <<word, pc, ret>>
  /\ UNCHANGED <<queue, seen, owner, depth, pending_reader_count, old_state, old_serial, writes>>

\* The pending readers get a new serial, and after the unlock of the mutex
\* they are woken.
WakeSerial(t) ==
  /\ pc[t] = "wr_wake"
  /\ word' = [word EXCEPT ![Serial] =
                IF pending_reader_count > 0 THEN (@ + 1) % SerialMod ELSE @]
  /\ pc' = [pc EXCEPT ![t] = "unlock"]
  /\ ret' = [ret EXCEPT ![t] = IF pending_reader_count > 0 THEN "wr_futex" ELSE "idle"]
  /\ UNCHANGED <<queue, seen, owner, depth, pending_reader_count, old_state, old_serial, holds, writes>>

WakeReaders(t) ==
  /\ pc[t] = "wr_futex"
  /\ futex_wake(Serial, EveryWaiter)
  /\ Goto(t, "idle")
  /\ UNCHANGED <<word, ret, seen, owner, depth, pending_reader_count, old_state, old_serial,
                 holds, writes>>

Inside(t) ==
  \/ MutexStep(t) /\ UNCHANGED <<pending_reader_count, old_state, old_serial, holds, writes>>
  \/ pc[t] = "rd_try" /\ pthread_rwlock_tryrdlock(t)
  \/ ReadPend(t)
  \/ ReadCount(t)
  \/ ReadWait(t)
  \/ ReadWoken(t)
  \/ ReadUncount(t)
  \/ pthread_rwlock_unlock(t)
  \/ WakeSerial(t)
  \/ WakeReaders(t)

Enters(t) ==
  \/ pc[t] = "idle" /\ pthread_rwlock_tryrdlock(t)
  \/ pthread_rwlock_trywrlock(t)

RwlockNext == \E t \in Threads : Inside(t) \/ Enters(t)

\* A reader that sleeps on the serial is counted as pending, and the word says
\* that it is write-locked with readers pending, unless an unlock is on its
\* way to the wake or the lock has been taken again since.
SleepingReaderPending ==
  \A t \in Threads : pc[t] = "rd_sleep" /\ Queued(t) =>
    /\ pending_reader_count > 0 /\ word[State].pr
    /\ \/ word[State].w
       \/ \E u \in Threads : pc[u] \in {"wr_wake", "wr_futex"} \/ ret[u] \in {"wr_wake", "wr_futex"}

=============================================================================
