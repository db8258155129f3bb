------------------------------- MODULE MCSync -------------------------------
(***************************************************************************)
(* What threads synchronise with: the coroutines of a server, the futexes  *)
(* of PM and the objects of the POSIX thread library that are built on     *)
(* them.  The objects do not share state, so a behaviour is about one of   *)
(* them, object, which the initial state chooses; the variables of the     *)
(* others rest.  The futex words and queue are those of the chosen object. *)
(***************************************************************************)
EXTENDS Coro

CONSTANTS a, b, c, d   \* user threads

VARIABLES
  object,
  word, queue, label,                             \* Futex, and the pc of every object
  at, val, kills,                                 \* FutexPM
  ret, seen, owner, depth,                        \* PthreadMutex
  old_state,                                      \* of several objects
  items, produced, pulse,                         \* PthreadCond
  inits,                                          \* PthreadOnce
  generation, state, entered, left, serials,      \* PthreadBarrier
  op, join_state, retval, result, got,            \* PthreadJoin
  pending_reader_count, old_serial, writes, holds \* PthreadRwlock

futexVars == <<word, queue, label>>
pmVars == <<at, val, kills>>
mutexVars == <<ret, seen, owner, depth>>
condVars == <<items, produced, pulse>>
barrierVars == <<generation, state, entered, left, serials>>
joinVars == <<op, join_state, retval, result, got>>
rwlockVars == <<pending_reader_count, old_serial, writes, holds>>
syncVars == <<object, vars, futexVars, pmVars, mutexVars, old_state, condVars, inits,
              barrierVars, joinVars, rwlockVars>>

-----------------------------------------------------------------------------
(* The objects, on small instances *)

Pm == INSTANCE FutexPM WITH
  Threads <- {a, b, c}, Second <- {c}, Addrs <- {4, 8}, QUEUE_HASH_SIZE <- 8, MaxKills <- 1,
  pc <- label
Normal == INSTANCE PthreadMutex WITH
  Threads <- {a, b, c}, Type <- "normal", MaxCount <- 0, pc <- label
Recursive == INSTANCE PthreadMutex WITH
  Threads <- {a, b}, Type <- "recursive", MaxCount <- 2, pc <- label
Checking == INSTANCE PthreadMutex WITH
  Threads <- {a, b}, Type <- "errorcheck", MaxCount <- 1, pc <- label
Condition == INSTANCE PthreadCond WITH
  Threads <- {a, b, c}, Producers <- {c}, MaxItems <- 2, CondMod <- 4,
  Type <- "normal", MaxCount <- 0, pc <- label
Once == INSTANCE PthreadOnce WITH Threads <- {a, b, c}, pc <- label
Barrier == INSTANCE PthreadBarrier WITH Threads <- {a, b, c}, MaxRounds <- 2, pc <- label
Join == INSTANCE PthreadJoin WITH
  Threads <- {a, b, c, d}, Target <- d, Creator <- a, pc <- label
Rwlock == INSTANCE PthreadRwlock WITH
  Threads <- {a, b, c}, Readers <- {a}, Writers <- {b, c}, MaxWrites <- 2, SerialMod <- 4,
  Type <- "normal", MaxCount <- 0, pc <- label

Unused == "rests"
FutexRests == word = Unused /\ queue = Unused /\ label = Unused
PmRests == at = Unused /\ val = Unused /\ kills = Unused
MutexRests == ret = Unused /\ seen = Unused /\ owner = Unused /\ depth = Unused
CondRests == items = Unused /\ produced = Unused /\ pulse = Unused
BarrierRests ==
  generation = Unused /\ state = Unused /\ entered = Unused /\ left = Unused /\ serials = Unused
JoinRests == op = Unused /\ join_state = Unused /\ retval = Unused /\ result = Unused /\ got = Unused
RwlockRests ==
  pending_reader_count = Unused /\ old_serial = Unused /\ writes = Unused /\ holds = Unused

MutexInit ==
  /\ \/ object = "normal" /\ Normal!MutexInit
     \/ object = "recursive" /\ Recursive!MutexInit
     \/ object = "checking" /\ Checking!MutexInit
  /\ old_state = Unused /\ inits = Unused
  /\ PmRests /\ CondRests /\ BarrierRests /\ JoinRests /\ RwlockRests

SyncInit ==
  /\ Init
  /\ \/ /\ object = "coro" /\ old_state = Unused /\ inits = Unused
        /\ FutexRests /\ PmRests /\ MutexRests /\ CondRests /\ BarrierRests /\ JoinRests
        /\ RwlockRests
     \/ /\ object = "futex" /\ Pm!Init /\ old_state = Unused /\ inits = Unused
        /\ MutexRests /\ CondRests /\ BarrierRests /\ JoinRests /\ RwlockRests
     \/ MutexInit
     \/ /\ object = "condition" /\ Condition!CondInit /\ inits = Unused
        /\ PmRests /\ BarrierRests /\ JoinRests /\ RwlockRests
     \/ /\ object = "once" /\ Once!Init
        /\ PmRests /\ MutexRests /\ CondRests /\ BarrierRests /\ JoinRests /\ RwlockRests
     \/ /\ object = "barrier" /\ Barrier!Init /\ old_state = Unused /\ inits = Unused
        /\ PmRests /\ MutexRests /\ CondRests /\ JoinRests /\ RwlockRests
     \/ /\ object = "join" /\ Join!Init /\ inits = Unused
        /\ PmRests /\ MutexRests /\ CondRests /\ BarrierRests /\ RwlockRests
     \/ /\ object = "rwlock" /\ Rwlock!RwlockInit /\ inits = Unused
        /\ PmRests /\ CondRests /\ BarrierRests /\ JoinRests

-----------------------------------------------------------------------------
(* One step of the object, with what rests *)

CoroRest ==
  <<object, futexVars, pmVars, mutexVars, old_state, condVars, inits, barrierVars, joinVars,
    rwlockVars>>
PmRest ==
  <<object, vars, mutexVars, old_state, condVars, inits, barrierVars, joinVars, rwlockVars>>
MutexRest ==
  <<object, vars, pmVars, old_state, condVars, inits, barrierVars, joinVars, rwlockVars>>
CondRest == <<object, vars, pmVars, inits, barrierVars, joinVars, rwlockVars>>
OnceRest == <<object, vars, pmVars, mutexVars, condVars, barrierVars, joinVars, rwlockVars>>
BarrierRest ==
  <<object, vars, pmVars, mutexVars, old_state, condVars, inits, joinVars, rwlockVars>>
JoinRest == <<object, vars, pmVars, mutexVars, condVars, inits, barrierVars, rwlockVars>>
RwlockRest == <<object, vars, pmVars, condVars, inits, barrierVars, joinVars>>

CoroStep == object = "coro" /\ Next /\ UNCHANGED CoroRest
PmStep == object = "futex" /\ Pm!Next /\ UNCHANGED PmRest
NormalStep == object = "normal" /\ Normal!MutexNext /\ UNCHANGED MutexRest
RecursiveStep == object = "recursive" /\ Recursive!MutexNext /\ UNCHANGED MutexRest
CheckingStep == object = "checking" /\ Checking!MutexNext /\ UNCHANGED MutexRest
CondStep == object = "condition" /\ Condition!CondNext /\ UNCHANGED CondRest
OnceStep == object = "once" /\ Once!Next /\ UNCHANGED OnceRest
BarrierStep == object = "barrier" /\ Barrier!Next /\ UNCHANGED BarrierRest
JoinStep == object = "join" /\ Join!Next /\ UNCHANGED JoinRest
RwlockStep == object = "rwlock" /\ Rwlock!RwlockNext /\ UNCHANGED RwlockRest

SyncNext ==
  \/ CoroStep
  \/ PmStep
  \/ NormalStep
  \/ RecursiveStep
  \/ CheckingStep
  \/ CondStep
  \/ OnceStep
  \/ BarrierStep
  \/ JoinStep
  \/ RwlockStep

\* What thread t does without being asked to: it goes on inside a call, and a
\* thread that has a mutex or a lock unlocks it.
Runs(t) ==
  \/ object = "normal" /\ (Normal!MutexStep(t) \/ Normal!Unlocks(t)) /\ UNCHANGED MutexRest
  \/ object = "condition" /\ Condition!CondStep(t) /\ UNCHANGED CondRest
  \/ object = "once" /\ Once!Step(t) /\ UNCHANGED OnceRest
  \/ object = "barrier" /\ Barrier!Step(t) /\ UNCHANGED BarrierRest
  \/ object = "join" /\ (IF t = d THEN Join!TargetStep ELSE Join!Joining(t))
     /\ UNCHANGED JoinRest
  \/ object = "rwlock" /\ Rwlock!Inside(t) /\ UNCHANGED RwlockRest

\* A runnable thread runs.
SyncSpec ==
  /\ SyncInit /\ [][SyncNext]_syncVars
  /\ \A t \in {a, b, c} : WF_syncVars(Runs(t))
  /\ WF_syncVars(object = "join" /\ Runs(d))

-----------------------------------------------------------------------------
(* Properties *)

\* Two threads never have a mutex at once, and while one has it the word counts
\* its relocks, whatever the interleaving of the compare and swaps of
\* pthread_mutex_lock(), of the waiters that mark the same word contended and
\* of an unlock with its wake; pthread_cond_wait() returns with the mutex.
LocksExclude ==
  /\ object = "normal" => Normal!Exclusion
  /\ object = "recursive" => Recursive!Exclusion /\ Recursive!CountExact
  /\ object = "checking" => Checking!Exclusion /\ Checking!CountExact
  /\ object = "condition" => Condition!CondExclusion

\* A thread that sleeps in FUTEX_WAIT is in a queue that PM looks at, on a word
\* that still has the value it saw, or the thread that changed the word, or is
\* bound to, has its FUTEX_WAKE ahead of it: no wake falls between the test in
\* user space, PM's test of the word and the sleep.
NoLostWakeup ==
  /\ object = "futex" => Pm!NoStaleSleep /\ Pm!QueueReady
  /\ object = "normal" => Normal!SleeperCovered
  /\ object = "condition" => Condition!SignalNotLost
  /\ object = "rwlock" => Rwlock!SleepingReaderPending

\* FUTEX_WAKE resumes the waiters of its own word in its own process, and not
\* those of the same address elsewhere or of a word in the same hash queue.
WakesOwnWord == [][object = "futex" => Pm!WakesOwnWord]_syncVars

\* Nobody returns early: from pthread_once() before the initialisation has
\* ended, from pthread_barrier_wait() before every thread has entered the
\* round, from pthread_join() before PM has let the thread's memory go.  And one
\* thread is chosen: one runs the initialisation, one is the serial thread of a
\* round of a barrier, one joins or detaches a thread.
NobodyEarly ==
  /\ object = "once" => Once!InitializedOnce /\ Once!OneInitializer
  /\ object = "barrier" => Barrier!BarrierHolds /\ Barrier!OneSerial
  /\ object = "join" => Join!JoinAfterExit /\ Join!OneJoiner

Waiting(t) ==
  \/ object = "normal" /\ Normal!Waiting(t)
  \/ object = "condition" /\ t = c /\ items > 0
  \/ object = "once" /\ label[t] # "done"
  \/ object = "barrier" /\ label[t] # "idle"
  \/ object = "join" /\ label[t] \notin {"idle", "create", "unborn"}
  \/ object = "rwlock" /\ t = a /\ label[t] # "idle"

\* Every call that waits comes back: once, a barrier, a join, a reader of a
\* read-write lock; an item signalled through a condition variable is taken;
\* and while a thread waits for a mutex, some thread gets it (which one is not
\* promised: the thread that unlocks may lock again before the one it wakes).
EveryCallReturns ==
  \A t \in {a, b, c} :
    Waiting(t) ~> \/ ~Waiting(t)
                  \/ object = "normal" /\ \E u \in {a, b, c} : Normal!Holds(u)
=============================================================================
