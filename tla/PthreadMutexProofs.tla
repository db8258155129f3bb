------------------------- MODULE PthreadMutexProofs -------------------------
(***************************************************************************)
(* Theorems about PthreadMutex, for any number of threads, the three types *)
(* and any width of the recursion count.                                   *)
(***************************************************************************)
EXTENDS PthreadMutex, TLAPS

MutexSpec == MutexInit /\ [][MutexNext]_mutexVars

-----------------------------------------------------------------------------
(* The inductive invariant *)

Words == [s : 0 .. 2, c : Nat]

Labels == {"idle", "lock", "trylock", "try", "load", "mark", "wait", "sleep", "own", "unlock",
           "exchange", "wake"}

MutexTypes ==
  /\ word \in [{Mutex} -> Words] /\ pc \in [Threads -> Labels]
  /\ ret = [t \in Threads |-> "idle"] /\ seen \in [Threads -> Words]
  /\ depth \in [Threads -> Nat]

\* A word that is free is zero; a thread that is about to note itself as the
\* owner, or to give the word back, has it once; mutex->owner names nobody else.
MutexInv ==
  /\ MutexTypes
  /\ Exclusion /\ CountExact
  /\ word[Mutex].s = 0 => word[Mutex].c = 0
  /\ \A t \in Threads :
       /\ Holds(t) => word[Mutex].s # 0
       /\ pc[t] = "own" => depth[t] = 0 /\ word[Mutex].c = 0 /\ Type # "normal"
       /\ pc[t] = "exchange" => depth[t] = 1
       /\ Type = "normal" => depth[t] <= 1 /\ (pc[t] = "unlock" => depth[t] > 0)
       /\ Type # "normal" /\ owner = t => depth[t] > 0 /\ pc[t] # "exchange"

-----------------------------------------------------------------------------
(* What a step of thread t does to the word, the owner and the depth *)

Elsewhere == Labels \ {"own", "exchange", "unlock"}

\* It takes a word that is free.
Takes(t) ==
  /\ word[Mutex].s = 0 /\ word'[Mutex].s # 0 /\ word'[Mutex].c = word[Mutex].c
  /\ owner' = owner
  /\ IF Type = "normal" THEN pc'[t] \in Elsewhere /\ depth'[t] = depth[t] + 1
                        ELSE pc'[t] = "own" /\ depth'[t] = depth[t]

\* It leaves the word to its owner, and may have marked it.
Leaves(t) ==
  /\ pc[t] # "own" /\ pc[t] # "exchange"
  /\ word'[Mutex].c = word[Mutex].c /\ (word'[Mutex].s = 0 <=> word[Mutex].s = 0)
  /\ owner' = owner /\ depth'[t] = depth[t]
  /\ pc'[t] \in Elsewhere \cup {"unlock"}
  /\ pc'[t] = "unlock" => (Type = "normal" => depth[t] > 0)

\* A recursive mutex that it has, once more or once less.
Counts(t) ==
  /\ Type # "normal" /\ owner = t /\ owner' = owner
  /\ word'[Mutex].s = word[Mutex].s /\ pc'[t] \in Elsewhere
  /\ \/ word'[Mutex].c = word[Mutex].c + 1 /\ depth'[t] = depth[t] + 1
     \/ word[Mutex].c > 0 /\ word'[Mutex].c = word[Mutex].c - 1 /\ depth'[t] = depth[t] - 1

Owns(t) ==
  /\ pc[t] = "own" /\ owner' = t /\ word' = word
  /\ pc'[t] \in Elsewhere /\ depth'[t] = depth[t] + 1

Ends(t) ==
  /\ pc[t] = "unlock" /\ pc'[t] = "exchange" /\ word' = word /\ depth'[t] = depth[t]
  /\ IF Type = "normal" THEN owner' = owner
                        ELSE owner = t /\ owner' = NoOwner /\ word[Mutex].c = 0

GivesBack(t) ==
  /\ pc[t] = "exchange" /\ pc'[t] \in Elsewhere /\ depth'[t] = depth[t] - 1
  /\ word'[Mutex] = Unlocked /\ owner' = owner

Others(t) == \A u \in Threads \ {t} : pc'[u] = pc[u] /\ depth'[u] = depth[u]

Effect(t) ==
  Takes(t) \/ Leaves(t) \/ Counts(t) \/ Owns(t) \/ Ends(t) \/ GivesBack(t)

Step(t) == MutexTypes' /\ Others(t) /\ Effect(t)

LEMMA EffectKept ==
  ASSUME NoOwner \notin Threads, MutexInv, NEW t \in Threads, Step(t)
  PROVE  MutexInv'
<1> USE DEF Elsewhere
<1>0. /\ MutexTypes /\ MutexTypes' /\ Others(t)
      /\ word[Mutex].s \in 0 .. 2 /\ word[Mutex].c \in Nat
      /\ word'[Mutex].s \in 0 .. 2 /\ word'[Mutex].c \in Nat
      /\ depth \in [Threads -> Nat] /\ depth' \in [Threads -> Nat]
  BY DEF MutexInv, Step, MutexTypes, Words
<1>1. CASE Takes(t)
  BY <1>0, <1>1 DEF MutexInv, Takes, Others, Exclusion, CountExact, Holds
<1>2. CASE Leaves(t)
  BY <1>0, <1>2 DEF MutexInv, Leaves, Others, Exclusion, CountExact, Holds
<1>3. CASE Counts(t)
  BY <1>0, <1>3 DEF MutexInv, Counts, Others, Exclusion, CountExact, Holds
<1>4. CASE Owns(t)
  BY <1>0, <1>4 DEF MutexInv, Owns, Others, Exclusion, CountExact, Holds
<1>5. CASE Ends(t)
  BY <1>0, <1>5 DEF MutexInv, Ends, Others, Exclusion, CountExact, Holds
<1>6. CASE GivesBack(t)
  BY <1>0, <1>6 DEF MutexInv, GivesBack, Others, Exclusion, CountExact, Holds, Unlocked
<1> QED
  BY <1>1, <1>2, <1>3, <1>4, <1>5, <1>6 DEF Step, Effect

-----------------------------------------------------------------------------
(* Every action has one of these effects *)

LEMMA WordAt ==
  ASSUME MutexTypes, NEW v \in Words
  PROVE  /\ [word EXCEPT ![Mutex] = v] \in [{Mutex} -> Words]
         /\ [word EXCEPT ![Mutex] = v][Mutex] = v
BY DEF MutexTypes

\* Return() of thread t, with its depth
LEMMA Returns ==
  ASSUME MutexTypes, NEW t \in Threads, Return(t)
  PROVE  /\ pc' \in [Threads -> Labels] /\ ret' = ret /\ seen' \in [Threads -> Words]
         /\ pc'[t] = "idle" /\ \A u \in Threads \ {t} : pc'[u] = pc[u]
BY DEF MutexTypes, Return, Labels, Words, Unlocked

LEMMA Continues ==
  ASSUME MutexTypes, NEW t \in Threads, NEW l \in Labels, Continue(t, l)
  PROVE  /\ pc' \in [Threads -> Labels] /\ ret' = ret /\ seen' \in [Threads -> Words]
         /\ pc'[t] = l /\ \A u \in Threads \ {t} : pc'[u] = pc[u]
         /\ depth' = depth
BY DEF MutexTypes, Continue, Goto

LEMMA DepthAt ==
  ASSUME MutexTypes, NEW t \in Threads, NEW n \in Nat, depth' = [depth EXCEPT ![t] = n]
  PROVE  /\ depth' \in [Threads -> Nat] /\ depth'[t] = n
         /\ \A u \in Threads \ {t} : depth'[u] = depth[u]
BY DEF MutexTypes

LEMMA TakenStep ==
  ASSUME MutexInv, NEW t \in Threads, word[Mutex].s = 0, NEW n \in {1, 2},
         word' = [word EXCEPT ![Mutex] = [s |-> n, c |-> word[Mutex].c]],
         owner' = owner, Taken(t)
  PROVE  Step(t)
<1>1. /\ MutexTypes /\ word[Mutex].c \in Nat
      /\ word'[Mutex] = [s |-> n, c |-> word[Mutex].c] /\ word' \in [{Mutex} -> Words]
  BY WordAt DEF MutexInv, MutexTypes, Words
<1>2. CASE Type = "normal"
  <2>1. Return(t) /\ depth' = [depth EXCEPT ![t] = depth[t] + 1] /\ depth[t] + 1 \in Nat
    BY <1>1, <1>2 DEF Taken, Locked, MutexTypes
  <2> QED
    BY <1>1, <1>2, <2>1, Returns, DepthAt
       DEF Step, Effect, Takes, Others, Elsewhere, Labels, MutexTypes
<1>3. CASE Type # "normal"
  BY <1>1, <1>3, Continues DEF Taken, Step, Effect, Takes, Others, MutexTypes, Labels
<1> QED
  BY <1>2, <1>3

LEMMA TryStep ==
  ASSUME MutexInv, NEW t \in Threads, NEW l \in Elsewhere, pc[t] \in {"lock", "trylock", "try"},
         \/ __pthread_normal_mutex_trylock(t, Continue(t, l))
         \/ __pthread_normal_mutex_trylock(t, Done(t))
  PROVE  Step(t)
<1>0. MutexTypes /\ owner' = owner
  BY DEF MutexInv, __pthread_normal_mutex_trylock
<1>1. CASE word[Mutex] = Unlocked
  <2>1. word' = [word EXCEPT ![Mutex].s = 1] /\ Taken(t)
    BY <1>1 DEF __pthread_normal_mutex_trylock
  <2>2. [word[Mutex] EXCEPT !.s = 1] = [s |-> 1, c |-> word[Mutex].c]
    BY <1>1 DEF Unlocked
  <2>3. word' = [word EXCEPT ![Mutex] = [s |-> 1, c |-> word[Mutex].c]]
    BY <2>1, <2>2
  <2>4. word[Mutex].s = 0 /\ 1 \in {1, 2}
    BY <1>1 DEF Unlocked
  <2> QED
    BY <1>0, <2>1, <2>3, <2>4, TakenStep
<1>2. CASE word[Mutex] # Unlocked
  <2>1. word' = word /\ (Continue(t, l) \/ Done(t))
    BY <1>2 DEF __pthread_normal_mutex_trylock
  <2>2. l \in Labels /\ depth \in [Threads -> Nat]
    BY <1>0 DEF Elsewhere, MutexTypes
  <2>3. CASE Continue(t, l)
    BY <1>0, <2>1, <2>2, <2>3, Continues DEF Step, Effect, Leaves, Others, Elsewhere, MutexTypes
  <2>4. CASE Done(t)
    BY <1>0, <2>1, <2>2, <2>4, Returns
       DEF Done, Step, Effect, Leaves, Others, Elsewhere, Labels, MutexTypes
  <2> QED
    BY <2>1, <2>3, <2>4
<1> QED
  BY <1>1, <1>2

LEMMA RelockStep ==
  ASSUME MutexInv, NEW t \in Threads, Type # "normal", owner = t,
         pc[t] \in {"lock", "trylock"}, __pthread_mutex_relock(t)
  PROVE  Step(t)
<1>0. MutexTypes /\ owner' = owner /\ word[Mutex] \in Words /\ depth[t] + 1 \in Nat
  BY DEF MutexInv, __pthread_mutex_relock, MutexTypes
<1>1. CASE Done(t) /\ UNCHANGED word
  BY <1>0, <1>1, Returns DEF Done, Step, Effect, Leaves, Others, Elsewhere, Labels, MutexTypes
<1>2. CASE Locked(t) /\ word' = [word EXCEPT ![Mutex].c = @ + 1]
  <2>1. Return(t) /\ depth' = [depth EXCEPT ![t] = depth[t] + 1]
    BY <1>2 DEF Locked
  <2>2. [word[Mutex] EXCEPT !.c = @ + 1] \in Words
        /\ [word[Mutex] EXCEPT !.c = @ + 1].s = word[Mutex].s
        /\ [word[Mutex] EXCEPT !.c = @ + 1].c = word[Mutex].c + 1
    BY <1>0 DEF Words
  <2>3. word' \in [{Mutex} -> Words] /\ word'[Mutex] = [word[Mutex] EXCEPT !.c = @ + 1]
    BY <1>0, <1>2, <2>2 DEF MutexTypes
  <2> QED
    BY <1>0, <2>1, <2>2, <2>3, Returns, DepthAt
       DEF Step, Effect, Counts, Others, Elsewhere, Labels, MutexTypes
<1> QED
  BY <1>1, <1>2 DEF __pthread_mutex_relock

LEMMA MarkStep ==
  ASSUME MutexInv, NEW t \in Threads, LockMark(t)
  PROVE  Step(t)
<1>0. MutexTypes /\ pc[t] = "mark" /\ owner' = owner /\ word[Mutex] \in Words
  BY DEF MutexInv, MutexTypes, LockMark
<1>1. CASE word[Mutex] # seen[t]
  <2>1. seen' = [seen EXCEPT ![t] = word[Mutex]] /\ UNCHANGED <<word, pc, ret, depth>>
    BY <1>1 DEF LockMark
  <2> QED
    BY <1>0, <2>1 DEF Step, Effect, Leaves, Others, Elsewhere, Labels, MutexTypes
<1>2. CASE word[Mutex] = seen[t]
  <2>1. /\ word' = [word EXCEPT ![Mutex] = [word[Mutex] EXCEPT !.s = 2]]
        /\ IF word[Mutex].s = 0 THEN Taken(t) ELSE Continue(t, "wait")
    BY <1>2 DEF LockMark, Desired
  <2>2. [word[Mutex] EXCEPT !.s = 2] = [s |-> 2, c |-> word[Mutex].c] /\ 2 \in {1, 2}
    BY <1>0 DEF Words
  <2>3. CASE word[Mutex].s = 0
    BY <1>0, <2>1, <2>2, <2>3, TakenStep
  <2>4. CASE word[Mutex].s # 0
    <3>1. [s |-> 2, c |-> word[Mutex].c] \in Words
      BY <1>0 DEF Words
    <3>2. word'[Mutex] = [s |-> 2, c |-> word[Mutex].c] /\ word' \in [{Mutex} -> Words]
      BY <1>0, <2>1, <2>2, <3>1, WordAt
    <3> QED
      BY <1>0, <2>1, <2>4, <3>2, Continues
         DEF Step, Effect, Leaves, Others, Elsewhere, Labels, MutexTypes
  <2> QED
    BY <2>3, <2>4
<1> QED
  BY <1>1, <1>2

LEMMA UnlockStep ==
  ASSUME MutexInv, NEW t \in Threads, pthread_mutex_unlock(t)
  PROVE  Step(t)
<1>0. MutexTypes /\ pc[t] = "unlock" /\ word[Mutex] \in Words /\ depth[t] \in Nat
  BY DEF MutexInv, MutexTypes, pthread_mutex_unlock
<1>1. CASE Type = "normal" /\ Continue(t, "exchange") /\ UNCHANGED <<word, owner>>
  BY <1>0, <1>1, Continues DEF Step, Effect, Ends, Others, Labels, MutexTypes
<1>2. CASE Type # "normal" /\ Done(t) /\ UNCHANGED <<word, owner>>
  BY <1>0, <1>2, Returns DEF Done, Step, Effect, Leaves, Others, Elsewhere, Labels, MutexTypes
<1>3. CASE /\ Type # "normal" /\ owner = t /\ word[Mutex].c > 0 /\ Return(t)
           /\ word' = [word EXCEPT ![Mutex].c = @ - 1]
           /\ depth' = [depth EXCEPT ![t] = @ - 1] /\ UNCHANGED owner
  <2>1. depth[t] - 1 \in Nat
    BY <1>0, <1>3 DEF MutexInv
  <2>2. [word[Mutex] EXCEPT !.c = @ - 1] \in Words
        /\ [word[Mutex] EXCEPT !.c = @ - 1].s = word[Mutex].s
        /\ [word[Mutex] EXCEPT !.c = @ - 1].c = word[Mutex].c - 1
    BY <1>0, <1>3 DEF Words
  <2>3. word' \in [{Mutex} -> Words] /\ word'[Mutex] = [word[Mutex] EXCEPT !.c = @ - 1]
    BY <1>0, <1>3, <2>2 DEF MutexTypes
  <2> QED
    BY <1>0, <1>3, <2>1, <2>2, <2>3, Returns, DepthAt
       DEF Step, Effect, Counts, Others, Elsewhere, Labels, MutexTypes
<1>4. CASE /\ Type # "normal" /\ owner = t /\ word[Mutex].c = 0 /\ Continue(t, "exchange")
           /\ owner' = NoOwner /\ UNCHANGED word
  BY <1>0, <1>4, Continues DEF Step, Effect, Ends, Others, Labels, MutexTypes
<1> QED
  BY <1>1, <1>2, <1>3, <1>4 DEF pthread_mutex_unlock

LEMMA ExchangeStep ==
  ASSUME MutexInv, NEW t \in Threads, UnlockExchange(t)
  PROVE  Step(t)
<1>0. /\ MutexTypes /\ pc[t] = "exchange" /\ depth[t] = 1 /\ owner' = owner
      /\ depth' = [depth EXCEPT ![t] = depth[t] - 1] /\ depth[t] - 1 \in Nat
  BY DEF MutexInv, UnlockExchange
<1>1. word' \in [{Mutex} -> Words] /\ word'[Mutex] = Unlocked
  BY <1>0, WordAt DEF UnlockExchange, Unlocked, Words
<1>2. CASE Goto(t, "wake") /\ UNCHANGED <<ret, seen>>
  BY <1>0, <1>1, <1>2, DepthAt
     DEF Goto, Step, Effect, GivesBack, Others, Elsewhere, Labels, MutexTypes
<1>3. CASE Return(t)
  BY <1>0, <1>1, <1>3, DepthAt, Returns
     DEF Step, Effect, GivesBack, Others, Elsewhere, Labels, MutexTypes
<1> QED
  BY <1>2, <1>3 DEF UnlockExchange

LEMMA OwnStep ==
  ASSUME MutexInv, NEW t \in Threads, LockOwn(t)
  PROVE  Step(t)
<1>1. /\ MutexTypes /\ pc[t] = "own" /\ owner' = t /\ Return(t) /\ word' = word
      /\ depth' = [depth EXCEPT ![t] = depth[t] + 1] /\ depth[t] + 1 \in Nat
  BY DEF MutexInv, MutexTypes, LockOwn, Locked
<1> QED
  BY <1>1, DepthAt, Returns DEF Step, Effect, Owns, Others, Elsewhere, Labels, MutexTypes

\* The loads, the system calls and the calls of the library leave the word alone.
LEMMA QuietStep ==
  ASSUME MutexInv, NEW t \in Threads,
         LockLoad(t) \/ LockWait(t) \/ UnlockWake(t) \/ Locks(t) \/ Unlocks(t)
  PROVE  Step(t)
<1>0. MutexTypes /\ word[Mutex] \in Words /\ depth[t] \in Nat
  BY DEF MutexInv, MutexTypes
<1>1. CASE LockLoad(t)
  BY <1>0, <1>1 DEF LockLoad, Goto, Step, Effect, Leaves, Others, Elsewhere, Labels, MutexTypes
<1>2. CASE LockWait(t)
  BY <1>0, <1>2 DEF LockWait, Goto, Step, Effect, Leaves, Others, Elsewhere, Labels, MutexTypes
<1>3. CASE UnlockWake(t)
  BY <1>0, <1>3, Returns
     DEF UnlockWake, Done, Step, Effect, Leaves, Others, Elsewhere, Labels, MutexTypes
<1>4. CASE Locks(t)
  <2>1. /\ pc[t] = "idle" /\ UNCHANGED <<word, seen, owner, depth>> /\ ret' = ret
        /\ pc' = [pc EXCEPT ![t] = "lock"] \/ pc' = [pc EXCEPT ![t] = "trylock"]
    BY <1>0, <1>4 DEF Locks, Call, MutexTypes
  <2>2. CASE pc' = [pc EXCEPT ![t] = "lock"]
    BY <1>0, <2>1, <2>2 DEF Step, Effect, Leaves, Others, Elsewhere, Labels, MutexTypes
  <2>3. CASE pc' = [pc EXCEPT ![t] = "trylock"]
    BY <1>0, <2>1, <2>3 DEF Step, Effect, Leaves, Others, Elsewhere, Labels, MutexTypes
  <2> QED
    BY <2>1, <2>2, <2>3
<1>5. CASE Unlocks(t)
  <2>1. /\ pc[t] = "idle" /\ UNCHANGED <<word, seen, owner, depth>> /\ ret' = ret
        /\ pc' = [pc EXCEPT ![t] = "unlock"] /\ (Type = "normal" => depth[t] > 0)
    BY <1>0, <1>5 DEF Unlocks, Call, MutexTypes
  <2> QED
    BY <1>0, <2>1 DEF Step, Effect, Leaves, Others, Elsewhere, Labels, MutexTypes
<1> QED
  BY <1>1, <1>2, <1>3, <1>4, <1>5

LEMMA LockStep ==
  ASSUME MutexInv, NEW t \in Threads,
         pthread_mutex_lock(t) \/ pthread_mutex_trylock(t) \/ LockTry(t)
  PROVE  Step(t)
<1>0. MutexTypes /\ word[Mutex] \in Words /\ {"try", "load"} \subseteq Elsewhere
  BY DEF MutexInv, MutexTypes, Elsewhere, Labels
<1>1. CASE pthread_mutex_lock(t)
  <2>1. CASE __pthread_normal_mutex_trylock(t, Continue(t, "try"))
    BY <1>0, <1>1, <2>1, TryStep DEF pthread_mutex_lock
  <2>2. CASE Type # "normal" /\ owner = t /\ __pthread_mutex_relock(t)
    BY <1>1, <2>2, RelockStep DEF pthread_mutex_lock
  <2>3. CASE Continue(t, "try") /\ UNCHANGED <<word, queue, owner>>
    <3>1. pc[t] = "lock"
      BY <1>1 DEF pthread_mutex_lock
    <3> QED
      BY <1>0, <2>3, <3>1, Continues
         DEF Step, Effect, Leaves, Others, Elsewhere, Labels, MutexTypes
  <2> QED
    BY <1>1, <2>1, <2>2, <2>3 DEF pthread_mutex_lock
<1>2. CASE pthread_mutex_trylock(t)
  BY <1>0, <1>2, TryStep, RelockStep DEF pthread_mutex_trylock
<1>3. CASE LockTry(t)
  BY <1>0, <1>3, TryStep DEF LockTry
<1> QED
  BY <1>1, <1>2, <1>3

LEMMA MutexInvariant ==
  ASSUME NoOwner \notin Threads
  PROVE  MutexSpec => []MutexInv
<1>1. MutexInit => MutexInv
  <2> SUFFICES ASSUME MutexInit PROVE MutexInv
    OBVIOUS
  <2>1. MutexTypes
    BY DEF MutexInit, MutexLocals, MutexTypes, Words, Labels, Unlocked
  <2>2. /\ \A t \in Threads : pc[t] = "idle" /\ depth[t] = 0
        /\ owner = NoOwner /\ word[Mutex].c = 0
    BY DEF MutexInit, MutexLocals, Unlocked
  <2> QED
    BY <2>1, <2>2 DEF MutexInv, Exclusion, CountExact, Holds
<1>2. MutexInv /\ [MutexNext]_mutexVars => MutexInv'
  <2> SUFFICES ASSUME MutexInv, [MutexNext]_mutexVars PROVE MutexInv'
    OBVIOUS
  <2>1. CASE MutexNext
    <3>1. PICK t \in Threads : Locks(t) \/ Unlocks(t) \/ MutexStep(t)
      BY <2>1 DEF MutexNext
    <3>2. Step(t)
      BY <3>1, LockStep, MarkStep, UnlockStep, ExchangeStep, OwnStep, QuietStep DEF MutexStep
    <3> QED
      BY <3>2, EffectKept
  <2>2. CASE UNCHANGED mutexVars
    BY <2>2 DEF mutexVars, MutexInv, MutexTypes, Exclusion, CountExact, Holds
  <2> QED
    BY <2>1, <2>2
<1> QED
  BY <1>1, <1>2, PTL DEF MutexSpec

-----------------------------------------------------------------------------

\* pthread_mutex_lock() excludes, for any number of threads and each type of
\* mutex: two threads never have it at once, although every one of them may
\* swap the word at any time.
THEOREM MutexExcludes ==
  ASSUME NoOwner \notin Threads
  PROVE  MutexSpec => []Exclusion
BY MutexInvariant, PTL DEF MutexInv

\* While a thread has a recursive or error-checking mutex, the count bits are
\* its relocks and mutex->owner names it, for any number of threads that mark
\* the same word contended meanwhile.
THEOREM MutexCounts ==
  ASSUME NoOwner \notin Threads
  PROVE  MutexSpec => []CountExact
BY MutexInvariant, PTL DEF MutexInv
=============================================================================
