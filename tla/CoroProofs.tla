------------------------------ MODULE CoroProofs ------------------------------
(***************************************************************************)
(* Theorems about Coro, for any number of threads.                         *)
(***************************************************************************)
EXTENDS Coro, SequenceTheorems, FiniteSetTheorems, TLAPS

-----------------------------------------------------------------------------
(* Queues, through the threads they hold *)

In(q, t) == \E i \in 1 .. Len(q) : q[i] = t
Distinct(q) == \A i, j \in 1 .. Len(q) : q[i] = q[j] => i = j

\* coro_queue_enqueue() of a thread that is in no queue
LEMMA EnqueueIn ==
  ASSUME NEW S, NEW q \in Seq(S), NEW x \in S
  PROVE  /\ Append(q, x) \in Seq(S)
         /\ \A y : In(Append(q, x), y) <=> In(q, y) \/ y = x
         /\ Distinct(q) /\ ~In(q, x) => Distinct(Append(q, x))
<1> DEFINE r == Append(q, x)
<1>1. /\ r \in Seq(S) /\ Len(r) = Len(q) + 1 /\ r[Len(q) + 1] = x
      /\ \A i \in 1 .. Len(q) : r[i] = q[i]
  BY AppendProperties
<1>2. Len(q) \in Nat
  BY LenProperties
<1> HIDE DEF r
<1>3. \A i : i \in 1 .. Len(r) <=> i \in 1 .. Len(q) \/ i = Len(q) + 1
  BY <1>1, <1>2
<1>4. \A y : In(r, y) <=> In(q, y) \/ y = x
  BY <1>1, <1>3 DEF In
<1>5. Distinct(q) /\ ~In(q, x) => Distinct(r)
  <2> SUFFICES ASSUME Distinct(q), ~In(q, x),
                      NEW i \in 1 .. Len(r), NEW j \in 1 .. Len(r), r[i] = r[j]
               PROVE  i = j
    BY DEF Distinct
  <2>1. CASE i \in 1 .. Len(q) /\ j \in 1 .. Len(q)
    BY <1>1, <2>1 DEF Distinct
  <2> QED
    BY <1>1, <1>3, <2>1 DEF In
<1> QED
  BY <1>1, <1>4, <1>5 DEF r

\* coro_queue_dequeue() of a queue that is not empty
LEMMA DequeueIn ==
  ASSUME NEW S, NEW q \in Seq(S), q # <<>>, Distinct(q)
  PROVE  /\ Head(q) \in S /\ In(q, Head(q))
         /\ Tail(q) \in Seq(S) /\ Distinct(Tail(q))
         /\ \A y : In(Tail(q), y) <=> In(q, y) /\ y # Head(q)
<1> DEFINE r == Tail(q)
<1>1. /\ Head(q) \in S /\ r \in Seq(S) /\ Len(r) = Len(q) - 1
      /\ \A i \in 1 .. Len(r) : r[i] = q[i + 1]
  BY HeadTailProperties
<1>2. Head(q) = q[1] /\ Len(q) \in Nat /\ Len(q) # 0
  BY HeadTailProperties, LenProperties, EmptySeq
<1> HIDE DEF r
<1>3. \A i \in 1 .. Len(r) : i + 1 \in 1 .. Len(q) /\ i + 1 # 1
  BY <1>1, <1>2
<1>4. \A i \in 1 .. Len(q) : i # 1 => i - 1 \in 1 .. Len(r) /\ (i - 1) + 1 = i
  BY <1>1, <1>2
<1>5. 1 \in 1 .. Len(q)
  BY <1>2
<1>6. \A y : In(r, y) <=> In(q, y) /\ y # Head(q)
  <2> SUFFICES ASSUME NEW y
               PROVE  In(r, y) <=> In(q, y) /\ y # Head(q)
    OBVIOUS
  <2>1. ASSUME In(r, y)
        PROVE  In(q, y) /\ y # Head(q)
    <3>1. PICK i \in 1 .. Len(r) : r[i] = y
      BY <2>1 DEF In
    <3>2. y = q[i + 1] /\ i + 1 \in 1 .. Len(q) /\ i + 1 # 1
      BY <1>1, <1>3, <3>1
    <3> QED
      BY <1>2, <1>5, <3>2 DEF In, Distinct
  <2>2. ASSUME In(q, y), y # Head(q)
        PROVE  In(r, y)
    <3>1. PICK i \in 1 .. Len(q) : q[i] = y
      BY <2>2 DEF In
    <3>2. i - 1 \in 1 .. Len(r) /\ r[i - 1] = y
      BY <1>1, <1>2, <1>4, <2>2, <3>1
    <3> QED
      BY <3>2 DEF In
  <2> QED
    BY <2>1, <2>2
<1>7. Distinct(r)
  <2> SUFFICES ASSUME NEW i \in 1 .. Len(r), NEW j \in 1 .. Len(r), r[i] = r[j]
               PROVE  i = j
    BY DEF Distinct
  <2>1. i + 1 = j + 1
    BY <1>1, <1>3 DEF Distinct
  <2> QED
    BY <2>1
<1>8. In(q, Head(q))
  BY <1>2, <1>5 DEF In
<1> QED
  BY <1>1, <1>6, <1>7, <1>8 DEF r

LEMMA EmptyIn == Distinct(<<>>) /\ \A t : ~In(<<>>, t)
<1>1. Len(<<>>) = 0
  BY EmptySeq
<1> QED
  BY <1>1 DEF In, Distinct

All == Threads \cup {MAIN_THREAD}

LEMMA ThreadIds == /\ MAIN_THREAD \notin Threads /\ NO_THREAD \notin Threads
                   /\ MAIN_THREAD # NO_THREAD
                   /\ IsFiniteSet(Threads)
  BY ThreadsAssumption, FS_Interval DEF Threads, MAIN_THREAD, NO_THREAD

\* coro_schedule() runs a thread of the queue, or the main thread, and leaves
\* the others in the queue.
LEMMA Scheduled ==
  ASSUME NEW q \in Seq(All), Distinct(q), coro_schedule(q)
  PROVE  /\ current_thread' \in All
         /\ run_queue' \in Seq(All)
         /\ Distinct(run_queue)'
         /\ ~In(run_queue, current_thread)'
         /\ \A y : In(run_queue', y) => In(q, y)
         /\ current_thread' = MAIN_THREAD \/ In(q, current_thread')
<1>1. CASE q = <<>>
  <2>1. current_thread' = MAIN_THREAD /\ run_queue' = <<>>
    BY <1>1 DEF coro_schedule
  <2> QED
    BY <1>1, <2>1, EmptyIn DEF All
<1>2. CASE q # <<>>
  <2>1. current_thread' = Head(q) /\ run_queue' = Tail(q)
    BY <1>2 DEF coro_schedule
  <2> QED
    BY <1>2, <2>1, DequeueIn
<1> QED
  BY <1>1, <1>2

\* The first of a wait queue moves to the run queue.
LEMMA Resumed ==
  ASSUME NEW w \in Seq(Threads), Distinct(w),
         run_queue \in Seq(All), Distinct(run_queue),
         \A t \in Threads : In(w, t) => ~In(run_queue, t)
  PROVE  /\ Rest(w) \in Seq(Threads) /\ Distinct(Rest(w))
         /\ Resume(w) \in Seq(All) /\ Distinct(Resume(w))
         /\ w = <<>> => Rest(w) = <<>> /\ Resume(w) = run_queue
         /\ w # <<>> => /\ Head(w) \in Threads /\ In(w, Head(w))
                        /\ \A y : In(Rest(w), y) <=> In(w, y) /\ y # Head(w)
                        /\ \A y : In(Resume(w), y) <=> In(run_queue, y) \/ y = Head(w)
<1>1. CASE w = <<>>
  BY <1>1, EmptyIn DEF Rest, Resume
<1>2. CASE w # <<>>
  <2>1. Rest(w) = Tail(w) /\ Resume(w) = Append(run_queue, Head(w))
    BY <1>2 DEF Rest, Resume
  <2>2. /\ Head(w) \in Threads /\ In(w, Head(w))
        /\ Tail(w) \in Seq(Threads) /\ Distinct(Tail(w))
        /\ \A y : In(Tail(w), y) <=> In(w, y) /\ y # Head(w)
    BY <1>2, DequeueIn
  <2>3. Head(w) \in All /\ ~In(run_queue, Head(w))
    BY <2>2 DEF All
  <2>4. /\ Append(run_queue, Head(w)) \in Seq(All)
        /\ Distinct(Append(run_queue, Head(w)))
        /\ \A y : In(Append(run_queue, Head(w)), y) <=> In(run_queue, y) \/ y = Head(w)
    BY <2>3, EnqueueIn
  <2> QED
    BY <1>2, <2>1, <2>2, <2>4
<1> QED
  BY <1>1, <1>2

-----------------------------------------------------------------------------
(* The inductive invariant *)

wait == reader_queue.wait
owner == reader_queue.owner
Readers == {t \in Threads : held[t] = "read"}

\* A thread is in at most one of the three queues, once, and what it is in
\* agrees with where it continues.
Queues ==
  /\ Distinct(run_queue) /\ Distinct(wait) /\ Distinct(writer_queue)
  /\ ~In(run_queue, current_thread)
  /\ \A t \in Threads :
       /\ In(run_queue, t) => pc[t] # "sleep" /\ ~In(wait, t) /\ ~In(writer_queue, t)
       /\ In(wait, t) => t # current_thread /\ pc[t] \in {"rdlock", "wrlock"}
       /\ In(writer_queue, t) => t # current_thread /\ pc[t] = "cond_wait"
       /\ pc[t] = "sleep" => t # current_thread

\* readers counts the threads that hold the lock for reading; the writer owns
\* reader_queue from before it waits for the readers until it unlocks; a thread
\* that continues in a lock call has been handed what it waited for.
Lock ==
  /\ readers = Cardinality(Readers)
  /\ writer # NO_THREAD => owner = writer
  /\ \A t \in Threads :
       /\ pc[t] \in {"rdlock", "wrlock"} =>
            held[t] = "none" /\ writer # t /\ (In(wait, t) \/ owner = t)
       /\ pc[t] = "cond_wait" =>
            held[t] = "none" /\ writer = t /\ (In(writer_queue, t) \/ readers = 0)
       /\ held[t] = "write" => writer = t /\ readers = 0
       /\ writer = t => held[t] = "write" \/ pc[t] = "cond_wait"

CoroInv == TypeOK /\ Queues /\ Lock

-----------------------------------------------------------------------------
(* Every step preserves the types and the queues *)

\* The current thread suspends: it goes to sleep or into one of the wait queues.
LEMMA SuspendStep ==
  ASSUME TypeOK, Queues, NEW t \in Threads, current_thread = t,
         coro_schedule(run_queue), NEW p \in Places,
         pc' = [pc EXCEPT ![t] = p],
         \/ p = "sleep" /\ UNCHANGED <<reader_queue, writer_queue>>
         \/ /\ p \in {"rdlock", "wrlock"} /\ UNCHANGED writer_queue
            /\ reader_queue' \in [owner : Threads \cup {NO_THREAD},
                                  wait : Seq(Threads)]
            /\ wait' = Append(wait, t)
         \/ /\ p = "cond_wait" /\ writer_queue' = Append(writer_queue, t)
            /\ reader_queue' \in [owner : Threads \cup {NO_THREAD},
                                  wait : Seq(Threads)]
            /\ wait' = wait
  PROVE  /\ Queues'
         /\ current_thread' \in All /\ run_queue' \in Seq(All)
         /\ pc' \in [Threads -> Places]
         /\ reader_queue' \in [owner : Threads \cup {NO_THREAD},
                               wait : Seq(Threads)]
         /\ writer_queue' \in Seq(Threads)
<1> USE ThreadIds
<1>0. /\ run_queue \in Seq(All) /\ wait \in Seq(Threads)
      /\ writer_queue \in Seq(Threads) /\ pc \in [Threads -> Places]
  BY DEF TypeOK, All, wait
<1>1. /\ current_thread' \in All /\ run_queue' \in Seq(All)
      /\ Distinct(run_queue)' /\ ~In(run_queue, current_thread)'
      /\ \A y : In(run_queue', y) => In(run_queue, y)
      /\ current_thread' = MAIN_THREAD \/ In(run_queue, current_thread')
  BY <1>0, Scheduled DEF Queues
<1>2. ~In(run_queue, t) /\ ~In(wait, t) /\ ~In(writer_queue, t)
  BY DEF Queues
<1>3. current_thread' # t
  BY <1>1, <1>2
<1>4. pc' \in [Threads -> Places] /\ pc'[t] = p
      /\ \A u \in Threads \ {t} : pc'[u] = pc[u]
  BY <1>0
<1>5. CASE p = "sleep" /\ UNCHANGED <<reader_queue, writer_queue>>
  <2>1. wait' = wait /\ writer_queue' = writer_queue
    BY <1>5 DEF wait
  <2>2. Queues'
    BY <1>1, <1>2, <1>3, <1>4, <1>5, <2>1 DEF Queues
  <2> QED
    BY <1>0, <1>1, <1>4, <1>5, <2>2 DEF TypeOK
<1>6. CASE /\ p \in {"rdlock", "wrlock"} /\ UNCHANGED writer_queue
           /\ wait' = Append(wait, t)
  <2>1. /\ Distinct(wait)' /\ \A y : In(wait', y) <=> In(wait, y) \/ y = t
    BY <1>0, <1>2, <1>6, EnqueueIn DEF Queues
  <2>2. Queues'
    BY <1>1, <1>2, <1>3, <1>4, <1>6, <2>1 DEF Queues
  <2> QED
    BY <1>0, <1>1, <1>4, <1>6, <2>2
<1>7. CASE p = "cond_wait" /\ writer_queue' = Append(writer_queue, t) /\ wait' = wait
  <2>1. /\ writer_queue' \in Seq(Threads) /\ Distinct(writer_queue)'
        /\ \A y : In(writer_queue', y) <=> In(writer_queue, y) \/ y = t
    BY <1>0, <1>2, <1>7, EnqueueIn DEF Queues
  <2>2. Queues'
    BY <1>1, <1>2, <1>3, <1>4, <1>7, <2>1 DEF Queues
  <2> QED
    BY <1>0, <1>1, <1>4, <1>7, <2>1, <2>2
<1> QED
  BY <1>5, <1>6, <1>7

RQ == [owner : Threads \cup {NO_THREAD}, wait : Seq(Threads)]

\* coro_mutex_unlock(): the first waiter owns the mutex and is runnable
LEMMA UnlockStep ==
  ASSUME TypeOK, Queues, reader_queue' = Unlocked(reader_queue),
         run_queue' = Resume(wait), UNCHANGED <<current_thread, writer_queue>>,
         NEW t \in Threads, current_thread = t, pc' = [pc EXCEPT ![t] = "run"]
  PROVE  /\ Queues' /\ run_queue' \in Seq(All) /\ reader_queue' \in RQ
         /\ pc' \in [Threads -> Places]
         /\ \A u \in Threads : In(wait, u) => In(wait', u) \/ owner' = u
<1> USE ThreadIds
<1>0. /\ run_queue \in Seq(All) /\ wait \in Seq(Threads)
      /\ pc \in [Threads -> Places]
  BY DEF TypeOK, All, wait
<1>1. /\ wait' = Rest(wait)
      /\ owner' = IF wait = <<>> THEN NO_THREAD ELSE Head(wait)
      /\ reader_queue' = [owner |-> owner', wait |-> wait']
  BY DEF Unlocked, wait, owner
<1>2. \A u \in Threads : In(wait, u) => ~In(run_queue, u)
  BY DEF Queues
<1>3. /\ wait' \in Seq(Threads) /\ Distinct(wait)'
      /\ run_queue' \in Seq(All) /\ Distinct(run_queue)'
      /\ wait = <<>> => wait' = <<>> /\ run_queue' = run_queue
      /\ wait # <<>> => /\ Head(wait) \in Threads /\ In(wait, Head(wait))
                        /\ \A y : In(wait', y) <=> In(wait, y) /\ y # Head(wait)
                        /\ \A y : In(run_queue', y) <=> In(run_queue, y) \/ y = Head(wait)
  BY <1>0, <1>1, <1>2, Resumed DEF Queues
<1>4. pc' \in [Threads -> Places] /\ pc'[t] = "run"
      /\ \A u \in Threads \ {t} : pc'[u] = pc[u]
  BY <1>0 DEF Places
<1>5. reader_queue' \in RQ
  BY <1>1, <1>3 DEF RQ
<1>6. CASE wait = <<>>
  <2>1. Queues'
    BY <1>3, <1>4, <1>6 DEF Queues
  <2> QED
    BY <1>3, <1>4, <1>5, <1>6, <2>1
<1>7. CASE wait # <<>>
  <2>1. Queues'
    BY <1>3, <1>4, <1>7 DEF Queues
  <2> QED
    BY <1>1, <1>3, <1>4, <1>5, <1>7, <2>1
<1> QED
  BY <1>6, <1>7

\* The thread t changes nothing but where it continues, and stays current.
LEMMA RunStep ==
  ASSUME TypeOK, Queues, UNCHANGED <<current_thread, run_queue, writer_queue>>,
         wait' = wait, NEW t \in Threads, current_thread = t,
         pc' = [pc EXCEPT ![t] = "run"]
  PROVE  Queues' /\ pc' \in [Threads -> Places]
<1>1. pc' \in [Threads -> Places] /\ pc'[t] = "run"
      /\ \A u \in Threads \ {t} : pc'[u] = pc[u]
  BY DEF TypeOK, Places
<1> QED
  BY <1>1 DEF Queues

\* A thread of Threads is left alone by the steps of another.
Same(u) == pc'[u] = pc[u] /\ held'[u] = held[u]

-----------------------------------------------------------------------------
(* Every step preserves the invariant *)

LEMMA RdEnterStep ==
  ASSUME CoroInv, NEW t \in Threads, current_thread = t, RdEnter(t),
         held[t] = "none", writer = NO_THREAD, owner \in {t, NO_THREAD}
  PROVE  CoroInv'
<1> USE ThreadIds
<1>1. /\ Queues' /\ run_queue' \in Seq(All) /\ reader_queue' \in RQ
      /\ pc' \in [Threads -> Places]
      /\ \A u \in Threads : In(wait, u) => In(wait', u) \/ owner' = u
  BY UnlockStep DEF CoroInv, RdEnter, wait
<1>2. /\ pc'[t] = "run" /\ held'[t] = "read"
      /\ \A u \in Threads \ {t} : Same(u)
      /\ held' \in [Threads -> {"none", "read", "write"}]
  BY DEF CoroInv, TypeOK, RdEnter, Same
<1>3. TypeOK'
  BY <1>1, <1>2 DEF CoroInv, TypeOK, RdEnter, All, RQ
<1>4. readers' = Cardinality(Readers')
  <2>1. Readers' = Readers \cup {t} /\ t \notin Readers
    BY <1>2 DEF Readers, Same
  <2>2. IsFiniteSet(Readers)
    BY FS_Subset DEF Readers
  <2>3. Cardinality(Readers \cup {t}) = Cardinality(Readers) + 1
    BY <2>1, <2>2, FS_AddElement
  <2> QED
    BY <2>1, <2>3 DEF RdEnter, CoroInv, Lock
<1>5. writer' = NO_THREAD
  BY DEF RdEnter
<1>6. ASSUME NEW u \in Threads
      PROVE  /\ pc'[u] \in {"rdlock", "wrlock"} =>
                  held'[u] = "none" /\ writer' # u /\ (In(wait', u) \/ owner' = u)
             /\ pc'[u] # "cond_wait" /\ held'[u] # "write"
  <2>1. CASE u = t
    BY <1>2, <2>1
  <2>2. CASE u # t
    <3>1. pc[u] \in {"rdlock", "wrlock"} => held[u] = "none" /\ (In(wait, u) \/ owner = u)
      BY DEF CoroInv, Lock
    <3>2. pc[u] # "cond_wait" /\ held[u] # "write"
      BY DEF CoroInv, Lock
    <3> QED
      BY <1>1, <1>2, <1>5, <2>2, <3>1, <3>2 DEF Same
  <2> QED
    BY <2>1, <2>2
<1>7. Lock'
  BY <1>4, <1>5, <1>6 DEF Lock
<1> QED
  BY <1>1, <1>3, <1>7 DEF CoroInv

\* The lock's state is the same and only t, which held nothing, has moved.
LEMMA MutexWaitStep ==
  ASSUME CoroInv, NEW t \in Threads, current_thread = t, held[t] = "none",
         writer # t, NEW p \in {"rdlock", "wrlock"}, MutexWait(t, p)
  PROVE  CoroInv'
<1> USE ThreadIds
<1>1. wait \in Seq(Threads) /\ reader_queue \in RQ
  BY DEF CoroInv, TypeOK, wait, RQ
<1>2. /\ wait' = Append(wait, t) /\ owner' = owner
      /\ reader_queue' \in RQ
  BY <1>1, EnqueueIn DEF MutexWait, wait, owner, RQ
<1>3. p \in Places /\ pc' = [pc EXCEPT ![t] = p] /\ coro_schedule(run_queue)
      /\ UNCHANGED <<readers, writer, writer_queue, held>>
  BY DEF MutexWait, Places
<1>4. Queues' /\ current_thread' \in All /\ run_queue' \in Seq(All)
  BY <1>2, <1>3, SuspendStep DEF CoroInv, RQ
<1>5. pc' \in [Threads -> Places] /\ pc'[t] = p /\ \A u \in Threads \ {t} : pc'[u] = pc[u]
  BY <1>3 DEF CoroInv, TypeOK
<1>6. TypeOK'
  BY <1>2, <1>3, <1>4, <1>5 DEF CoroInv, TypeOK, All, RQ
<1>7. \A u : In(wait', u) <=> In(wait, u) \/ u = t
  BY <1>1, <1>2, EnqueueIn
<1>8. Readers' = Readers
  BY <1>3 DEF Readers
<1>9. Lock'
  BY <1>2, <1>3, <1>5, <1>7, <1>8 DEF CoroInv, Lock
<1> QED
  BY <1>4, <1>6, <1>9 DEF CoroInv

LEMMA WrEnterStep ==
  ASSUME CoroInv, NEW t \in Threads, current_thread = t, WrEnter(t),
         held[t] = "none", writer = NO_THREAD, owner \in {t, NO_THREAD}
  PROVE  CoroInv'
<1> USE ThreadIds
<1>1. /\ wait' = wait /\ owner' = t /\ reader_queue' \in RQ
      /\ writer' = t /\ readers' = readers
  BY DEF CoroInv, TypeOK, WrEnter, wait, owner, RQ
<1>2. \A u \in Threads : /\ pc[u] # "cond_wait" /\ held[u] # "write"
                         /\ pc[u] \in {"rdlock", "wrlock"} =>
                              held[u] = "none" /\ (In(wait, u) \/ owner = u)
  BY DEF CoroInv, Lock
<1>3. readers = Cardinality(Readers) /\ readers \in Nat
  BY DEF CoroInv, Lock, TypeOK
<1>4. CASE readers > 0
  <2>1. /\ writer_queue' = Append(writer_queue, t)
        /\ pc' = [pc EXCEPT ![t] = "cond_wait"]
        /\ coro_schedule(run_queue)
        /\ UNCHANGED held
    BY <1>3, <1>4 DEF WrEnter
  <2>2. Queues' /\ current_thread' \in All /\ run_queue' \in Seq(All)
    BY <1>1, <2>1, SuspendStep DEF CoroInv, RQ, Places
  <2>3. /\ pc' \in [Threads -> Places] /\ pc'[t] = "cond_wait"
        /\ \A u \in Threads \ {t} : pc'[u] = pc[u]
    BY <2>1 DEF CoroInv, TypeOK, Places
  <2>4. /\ writer_queue' \in Seq(Threads)
        /\ In(writer_queue', t)
    BY <2>1, EnqueueIn DEF CoroInv, TypeOK
  <2>5. TypeOK'
    BY <1>1, <2>1, <2>2, <2>3, <2>4 DEF CoroInv, TypeOK, All, RQ
  <2>6. Readers' = Readers
    BY <2>1 DEF Readers
  <2>7. Lock'
    BY <1>1, <1>2, <1>3, <2>1, <2>3, <2>4, <2>6 DEF Lock
  <2> QED
    BY <2>2, <2>5, <2>7 DEF CoroInv
<1>5. CASE readers = 0
  <2>1. /\ pc' = [pc EXCEPT ![t] = "run"]
        /\ held' = [held EXCEPT ![t] = "write"]
        /\ UNCHANGED <<current_thread, run_queue, writer_queue>>
    BY <1>3, <1>5 DEF WrEnter
  <2>2. Queues' /\ pc' \in [Threads -> Places]
    BY <1>1, <2>1, RunStep DEF CoroInv
  <2>3. /\ pc'[t] = "run" /\ held'[t] = "write"
        /\ held' \in [Threads -> {"none", "read", "write"}]
        /\ \A u \in Threads \ {t} : Same(u)
    BY <2>1 DEF CoroInv, TypeOK, Same
  <2>4. TypeOK'
    BY <1>1, <2>1, <2>2, <2>3 DEF CoroInv, TypeOK, All, RQ
  <2>5. Readers' = Readers
    BY <2>3 DEF Readers, Same
  <2>6. Lock'
    BY <1>1, <1>2, <1>3, <1>5, <2>3, <2>5 DEF Lock, Same
  <2> QED
    BY <2>2, <2>4, <2>6 DEF CoroInv
<1> QED
  BY <1>3, <1>4, <1>5

\* Where the threads run changes and the lock does not.
LEMMA SameLock ==
  ASSUME Lock, TypeOK, UNCHANGED lockVars, NEW t \in All,
         \A u \in Threads \ {t} : pc'[u] = pc[u],
         t \in Threads => /\ pc[t] \notin {"rdlock", "wrlock", "cond_wait"}
                          /\ pc'[t] \notin {"rdlock", "wrlock", "cond_wait"}
  PROVE  Lock'
<1>1. /\ readers' = readers /\ writer' = writer /\ held' = held
      /\ wait' = wait /\ owner' = owner /\ writer_queue' = writer_queue
      /\ Readers' = Readers
  BY DEF lockVars, wait, owner, Readers
<1> QED
  BY <1>1 DEF Lock

LEMMA YieldStep ==
  ASSUME CoroInv, NEW t \in All, coro_yield(t)
  PROVE  CoroInv'
<1> USE ThreadIds
<1>1. /\ run_queue \in Seq(All) /\ Distinct(run_queue) /\ ~In(run_queue, t)
      /\ current_thread = t /\ pc' = pc /\ UNCHANGED lockVars
      /\ t \in Threads => pc[t] = "run"
  BY DEF CoroInv, TypeOK, Queues, coro_yield, All
<1> DEFINE q == Append(run_queue, t)
<1>2. /\ q \in Seq(All) /\ Distinct(q)
      /\ \A y : In(q, y) <=> In(run_queue, y) \/ y = t
  BY <1>1, EnqueueIn
<1>3. coro_schedule(q)
  BY DEF coro_yield
<1> HIDE DEF q
<1>4. /\ current_thread' \in All /\ run_queue' \in Seq(All)
      /\ Distinct(run_queue)' /\ ~In(run_queue, current_thread)'
      /\ \A y : In(run_queue', y) => In(q, y)
      /\ current_thread' = MAIN_THREAD \/ In(q, current_thread')
  BY <1>2, <1>3, Scheduled
<1>5. wait' = wait /\ writer_queue' = writer_queue
  BY <1>1 DEF lockVars, wait
<1>6. Queues'
  <2>1. ASSUME NEW u \in Threads
        PROVE  /\ In(run_queue', u) => pc[u] # "sleep" /\ ~In(wait, u) /\ ~In(writer_queue, u)
               /\ In(wait, u) => u # current_thread' /\ pc[u] \in {"rdlock", "wrlock"}
               /\ In(writer_queue, u) => u # current_thread' /\ pc[u] = "cond_wait"
               /\ pc[u] = "sleep" => u # current_thread'
    <3>1. In(q, u) => pc[u] # "sleep" /\ ~In(wait, u) /\ ~In(writer_queue, u)
      BY <1>1, <1>2 DEF CoroInv, Queues
    <3> QED
      BY <1>4, <3>1 DEF CoroInv, Queues
  <2> QED
    BY <1>1, <1>4, <1>5, <2>1 DEF CoroInv, Queues
<1>7. TypeOK'
  BY <1>1, <1>4 DEF CoroInv, TypeOK, All, lockVars
<1>8. Lock'
  BY <1>1, SameLock DEF CoroInv
<1> QED
  BY <1>6, <1>7, <1>8 DEF CoroInv

LEMMA SleepStep ==
  ASSUME CoroInv, NEW t \in Threads, Sleep(t)
  PROVE  CoroInv'
<1>1. /\ current_thread = t /\ coro_schedule(run_queue) /\ pc[t] = "run"
      /\ pc' = [pc EXCEPT ![t] = "sleep"] /\ UNCHANGED lockVars
  BY DEF Sleep
<1>2. Queues' /\ current_thread' \in All /\ run_queue' \in Seq(All)
  BY <1>1, SuspendStep DEF CoroInv, Places, lockVars
<1>3. /\ pc' \in [Threads -> Places] /\ pc'[t] = "sleep"
      /\ \A u \in Threads \ {t} : pc'[u] = pc[u]
  BY <1>1 DEF CoroInv, TypeOK, Places
<1>4. TypeOK'
  BY <1>1, <1>2, <1>3 DEF CoroInv, TypeOK, All, lockVars
<1>5. Lock'
  BY <1>1, <1>3, SameLock DEF CoroInv, All
<1> QED
  BY <1>2, <1>4, <1>5 DEF CoroInv

LEMMA WakeStep ==
  ASSUME CoroInv, NEW t \in Threads, Wake(t)
  PROVE  CoroInv'
<1>1. /\ pc[t] = "sleep" /\ pc' = [pc EXCEPT ![t] = "run"]
      /\ run_queue' = Append(run_queue, t)
      /\ UNCHANGED lockVars /\ current_thread' = current_thread
  BY DEF Wake
<1>2. /\ t # current_thread /\ ~In(run_queue, t) /\ ~In(wait, t) /\ ~In(writer_queue, t)
      /\ run_queue \in Seq(All) /\ Distinct(run_queue) /\ t \in All
  BY <1>1 DEF CoroInv, Queues, TypeOK, All
<1>3. /\ run_queue' \in Seq(All) /\ Distinct(run_queue)'
      /\ \A y : In(run_queue', y) <=> In(run_queue, y) \/ y = t
  BY <1>1, <1>2, EnqueueIn
<1>4. /\ pc' \in [Threads -> Places] /\ pc'[t] = "run"
      /\ \A u \in Threads \ {t} : pc'[u] = pc[u]
  BY <1>1 DEF CoroInv, TypeOK, Places
<1>5. wait' = wait /\ writer_queue' = writer_queue
  BY <1>1 DEF lockVars, wait
<1>6. Queues'
  BY <1>1, <1>2, <1>3, <1>4, <1>5 DEF CoroInv, Queues
<1>7. TypeOK'
  BY <1>1, <1>3, <1>4 DEF CoroInv, TypeOK, All, lockVars
<1>8. Lock'
  BY <1>1, <1>2, <1>4, SameLock DEF CoroInv
<1> QED
  BY <1>6, <1>7, <1>8 DEF CoroInv

LEMMA CondStep ==
  ASSUME CoroInv, NEW t \in Threads, CondContinue(t)
  PROVE  CoroInv'
<1>1. /\ current_thread = t /\ pc[t] = "cond_wait"
      /\ pc' = [pc EXCEPT ![t] = "run"] /\ held' = [held EXCEPT ![t] = "write"]
      /\ UNCHANGED <<current_thread, run_queue, readers, writer, reader_queue, writer_queue>>
      /\ wait' = wait /\ owner' = owner
  BY DEF CondContinue, wait, owner
<1>2. held[t] = "none" /\ writer = t /\ readers = 0
  BY <1>1 DEF CoroInv, Lock, Queues
<1>3. Queues' /\ pc' \in [Threads -> Places]
  BY <1>1, RunStep DEF CoroInv
<1>4. /\ pc'[t] = "run" /\ held'[t] = "write"
      /\ held' \in [Threads -> {"none", "read", "write"}]
      /\ \A u \in Threads \ {t} : Same(u)
  BY <1>1 DEF CoroInv, TypeOK, Same
<1>5. TypeOK'
  BY <1>1, <1>3, <1>4 DEF CoroInv, TypeOK
<1>6. Readers' = Readers
  BY <1>2, <1>4 DEF Readers, Same
<1>7. Lock'
  BY <1>1, <1>2, <1>4, <1>6 DEF CoroInv, Lock, Same
<1> QED
  BY <1>3, <1>5, <1>7 DEF CoroInv

\* coro_rwlock_unlock() of the writer
LEMMA WriterLeavesStep ==
  ASSUME CoroInv, NEW t \in Threads, coro_rwlock_unlock(t), writer = t
  PROVE  CoroInv'
<1> USE ThreadIds
<1>1. /\ current_thread = t /\ pc[t] = "run"
      /\ held' = [held EXCEPT ![t] = "none"]
      /\ writer' = NO_THREAD /\ reader_queue' = Unlocked(reader_queue)
      /\ run_queue' = Resume(wait)
      /\ UNCHANGED <<current_thread, pc, readers, writer_queue>>
  BY DEF coro_rwlock_unlock, wait
<1>2. pc' = [pc EXCEPT ![t] = "run"]
  BY <1>1 DEF CoroInv, TypeOK
<1>3. /\ Queues' /\ run_queue' \in Seq(All) /\ reader_queue' \in RQ
      /\ \A u \in Threads : In(wait, u) => In(wait', u) \/ owner' = u
  BY <1>1, <1>2, UnlockStep DEF CoroInv
<1>4. /\ held' \in [Threads -> {"none", "read", "write"}] /\ held'[t] = "none"
      /\ \A u \in Threads \ {t} : held'[u] = held[u]
  BY <1>1 DEF CoroInv, TypeOK
<1>5. TypeOK'
  BY <1>1, <1>3, <1>4 DEF CoroInv, TypeOK, All, RQ
<1>6. held[t] = "write" /\ owner = t
  BY <1>1 DEF CoroInv, Lock
<1>7. Readers' = Readers
  BY <1>4, <1>6 DEF Readers
<1>8. \A u \in Threads :
        /\ pc[u] \in {"rdlock", "wrlock"} => held[u] = "none" /\ u # t /\ In(wait, u)
        /\ pc[u] # "cond_wait"
        /\ held[u] = "write" => u = t
  BY <1>1, <1>6 DEF CoroInv, Lock
<1>9. Lock'
  BY <1>1, <1>3, <1>4, <1>7, <1>8 DEF CoroInv, Lock
<1> QED
  BY <1>3, <1>5, <1>9 DEF CoroInv

\* coro_rwlock_unlock() of a reader
LEMMA ReaderLeavesStep ==
  ASSUME CoroInv, NEW t \in Threads, coro_rwlock_unlock(t), writer # t
  PROVE  CoroInv'
<1> USE ThreadIds
<1>1. /\ current_thread = t /\ pc[t] = "run" /\ held[t] # "none"
      /\ held' = [held EXCEPT ![t] = "none"]
      /\ readers > 0 /\ readers \in Nat /\ readers' = readers - 1
      /\ UNCHANGED <<current_thread, pc, writer, reader_queue>>
      /\ wait' = wait /\ owner' = owner
  BY DEF coro_rwlock_unlock, ReaderLeaves, wait, owner, CoroInv, TypeOK
<1>2. /\ held' \in [Threads -> {"none", "read", "write"}] /\ held'[t] = "none"
      /\ \A u \in Threads \ {t} : held'[u] = held[u]
  BY <1>1 DEF CoroInv, TypeOK
<1>3. held[t] = "read"
  BY <1>1 DEF CoroInv, TypeOK, Lock
<1>4. readers' = Cardinality(Readers')
  <2>1. Readers' = Readers \ {t} /\ t \in Readers
    BY <1>2, <1>3 DEF Readers
  <2>2. IsFiniteSet(Readers)
    BY FS_Subset DEF Readers
  <2>3. Cardinality(Readers \ {t}) = Cardinality(Readers) - 1
    BY <2>1, <2>2, FS_RemoveElement
  <2> QED
    BY <1>1, <2>1, <2>3 DEF CoroInv, Lock
<1>5. /\ run_queue \in Seq(All) /\ writer_queue \in Seq(Threads)
      /\ \A u \in Threads : In(writer_queue, u) => ~In(run_queue, u)
  BY DEF CoroInv, TypeOK, Queues, All
<1>6. \A u \in Threads : held[u] # "write"
  BY <1>1 DEF CoroInv, Lock
<1>7. CASE readers = 1 /\ writer # NO_THREAD
  <2>1. writer_queue' = Rest(writer_queue) /\ run_queue' = Resume(writer_queue)
    BY <1>1, <1>7 DEF coro_rwlock_unlock, ReaderLeaves
  <2>2. /\ writer_queue' \in Seq(Threads) /\ Distinct(writer_queue)'
        /\ run_queue' \in Seq(All) /\ Distinct(run_queue)'
        /\ writer_queue = <<>> => writer_queue' = <<>> /\ run_queue' = run_queue
        /\ writer_queue # <<>> =>
             /\ Head(writer_queue) \in Threads /\ In(writer_queue, Head(writer_queue))
             /\ \A y : In(writer_queue', y)
                         <=> In(writer_queue, y) /\ y # Head(writer_queue)
             /\ \A y : In(run_queue', y)
                         <=> In(run_queue, y) \/ y = Head(writer_queue)
    BY <1>5, <2>1, Resumed DEF CoroInv, Queues
  <2>3. Queues'
    <3>1. CASE writer_queue = <<>>
      BY <1>1, <2>2, <3>1 DEF CoroInv, Queues
    <3>2. CASE writer_queue # <<>>
      <4>1. \A u \in Threads : In(writer_queue, u) => pc[u] = "cond_wait" /\ u # t /\ ~In(wait, u)
        BY <1>1 DEF CoroInv, Queues
      <4> QED
        BY <1>1, <2>2, <3>2, <4>1 DEF CoroInv, Queues
    <3> QED
      BY <3>1, <3>2
  <2>4. TypeOK'
    BY <1>1, <1>2, <2>2 DEF CoroInv, TypeOK, All
  <2>5. Lock'
    BY <1>1, <1>2, <1>4, <1>6, <1>7 DEF CoroInv, Lock
  <2> QED
    BY <2>3, <2>4, <2>5 DEF CoroInv
<1>8. CASE ~(readers = 1 /\ writer # NO_THREAD)
  <2>1. UNCHANGED <<writer_queue, run_queue>>
    BY <1>1, <1>8 DEF coro_rwlock_unlock, ReaderLeaves
  <2>2. Queues'
    BY <1>1, <2>1 DEF CoroInv, Queues
  <2>3. TypeOK'
    BY <1>1, <1>2, <2>1 DEF CoroInv, TypeOK, All
  <2>4. Lock'
    BY <1>1, <1>2, <1>4, <1>6, <2>1 DEF CoroInv, Lock
  <2> QED
    BY <2>2, <2>3, <2>4 DEF CoroInv
<1> QED
  BY <1>7, <1>8

\* A thread that waited for reader_queue runs again as its owner.
LEMMA Handed ==
  ASSUME CoroInv, NEW t \in Threads, current_thread = t, pc[t] \in {"rdlock", "wrlock"}
  PROVE  held[t] = "none" /\ owner = t /\ writer = NO_THREAD
<1>1. held[t] = "none" /\ writer # t /\ owner = t
  BY DEF CoroInv, Lock, Queues
<1>2. writer # NO_THREAD => owner = writer
  BY DEF CoroInv, Lock
<1> QED
  BY <1>1, <1>2

\* A running thread that holds nothing is not the writer.
LEMMA NotWriter ==
  ASSUME CoroInv, NEW t \in Threads, pc[t] = "run", held[t] = "none"
  PROVE  writer # t /\ (owner = NO_THREAD => writer = NO_THREAD)
  BY DEF CoroInv, Lock

\* Every step of the threads keeps the invariant: one case per action of Next.
LEMMA CoroStep == CoroInv /\ [Next]_vars => CoroInv'
<1> SUFFICES ASSUME CoroInv, [Next]_vars
             PROVE  CoroInv'
  OBVIOUS
<1>1. CASE coro_yield(MAIN_THREAD)
  BY <1>1, YieldStep DEF All
<1>2. ASSUME NEW t \in Threads, coro_yield(t)
      PROVE  CoroInv'
  BY <1>2, YieldStep DEF All
<1>3. ASSUME NEW t \in Threads, coro_rwlock_rdlock(t)
      PROVE  CoroInv'
  <2>1. current_thread = t /\ pc[t] = "run" /\ held[t] = "none"
    BY <1>3 DEF coro_rwlock_rdlock
  <2>2. writer # t /\ (owner = NO_THREAD => writer = NO_THREAD)
    BY <2>1, NotWriter
  <2>3. CASE owner = NO_THREAD /\ RdEnter(t)
    BY <2>1, <2>2, <2>3, RdEnterStep
  <2>4. CASE MutexWait(t, "rdlock")
    BY <2>1, <2>2, <2>4, MutexWaitStep
  <2> QED
    BY <1>3, <2>3, <2>4 DEF coro_rwlock_rdlock, owner
<1>4. ASSUME NEW t \in Threads, coro_rwlock_wrlock(t)
      PROVE  CoroInv'
  <2>1. current_thread = t /\ pc[t] = "run" /\ held[t] = "none"
    BY <1>4 DEF coro_rwlock_wrlock
  <2>2. writer # t /\ (owner = NO_THREAD => writer = NO_THREAD)
    BY <2>1, NotWriter
  <2>3. CASE owner = NO_THREAD /\ WrEnter(t)
    BY <2>1, <2>2, <2>3, WrEnterStep
  <2>4. CASE MutexWait(t, "wrlock")
    BY <2>1, <2>2, <2>4, MutexWaitStep
  <2> QED
    BY <1>4, <2>3, <2>4 DEF coro_rwlock_wrlock, owner
<1>5. ASSUME NEW t \in Threads, RdContinue(t)
      PROVE  CoroInv'
  BY <1>5, Handed, RdEnterStep DEF RdContinue
<1>6. ASSUME NEW t \in Threads, WrContinue(t)
      PROVE  CoroInv'
  BY <1>6, Handed, WrEnterStep DEF WrContinue
<1>7. ASSUME NEW t \in Threads, coro_rwlock_unlock(t)
      PROVE  CoroInv'
  BY <1>7, WriterLeavesStep, ReaderLeavesStep
<1>8. CASE UNCHANGED vars
  BY <1>8 DEF vars, lockVars, CoroInv, TypeOK, Queues, Lock, Readers, wait, owner
<1> QED
  BY <1>1, <1>2, <1>3, <1>4, <1>5, <1>6, <1>7, <1>8, SleepStep, WakeStep, CondStep DEF Next

-----------------------------------------------------------------------------
(* The theorems *)

LEMMA CoroInit == Init => CoroInv
<1> SUFFICES ASSUME Init
             PROVE  CoroInv
  OBVIOUS
<1>1. /\ run_queue \in Seq(Threads) /\ Len(run_queue) = NrThreads
      /\ \A i \in 1 .. NrThreads : run_queue[i] = i - 1
  BY ThreadsAssumption DEF Init, Threads
<1>2. Seq(Threads) \subseteq Seq(All)
  BY DEF All
<1>3. TypeOK
  BY <1>1, <1>2, EmptySeq DEF Init, TypeOK, Places, All
<1>4. Distinct(run_queue) /\ ~In(run_queue, MAIN_THREAD)
  BY <1>1, ThreadIds DEF Distinct, In, Threads
<1>5. wait = <<>> /\ writer_queue = <<>>
  BY DEF Init, wait
<1>6. Queues
  BY <1>4, <1>5, EmptyIn, ThreadIds DEF Init, Queues
<1>7. Readers = {}
  BY DEF Init, Readers
<1>8. Lock
  BY <1>7, FS_EmptySet, ThreadIds DEF Init, Lock
<1> QED
  BY <1>3, <1>6, <1>8 DEF CoroInv

\* With any number of threads, taking and giving back one lock in any order and
\* yielding or sleeping while they hold it, the invariant holds.
THEOREM CoroInvariant == Spec => []CoroInv
  BY CoroInit, CoroStep, PTL DEF Spec

\* The variables of the library keep their types; readers is never negative.
THEOREM CoroTypes == Spec => []TypeOK
<1>1. CoroInv => TypeOK
  BY DEF CoroInv
<1> QED
  BY <1>1, CoroInvariant, PTL

\* coro_rwlock_wrlock() excludes: while a thread holds the lock for writing no
\* other thread holds it, for any number of threads.
THEOREM LockExcludes == Spec => []Exclusion
<1>1. CoroInv => Exclusion
  <2> SUFFICES ASSUME CoroInv, NEW t \in Threads, NEW u \in Threads,
                      held[t] = "write", t # u
               PROVE  held[u] = "none"
    BY DEF Exclusion
  <2>1. writer = t /\ Cardinality(Readers) = 0
    BY DEF CoroInv, Lock
  <2>2. Readers = {}
    BY <2>1, FS_Subset, FS_EmptySet, ThreadIds DEF Readers
  <2>3. held[u] # "write" /\ held[u] # "read"
    BY <2>1, <2>2 DEF CoroInv, Lock, Readers
  <2> QED
    BY <2>3 DEF CoroInv, TypeOK
<1> QED
  BY <1>1, CoroInvariant, PTL

\* coro_mutex_unlock() hands the mutex over: a thread that coro_mutex_lock() made
\* wait is its owner when it runs again, for any number of threads.
THEOREM MutexHandedOver == Spec => []HandedOver
<1>1. CoroInv => HandedOver
  <2> SUFFICES ASSUME CoroInv, NEW t \in Threads, pc[t] \in {"rdlock", "wrlock"},
                      Occurrences(wait, t) = 0
               PROVE  owner = t
    BY DEF HandedOver, wait, owner
  <2> DEFINE S == {i \in 1 .. Len(wait) : wait[i] = t}
  <2>1. Len(wait) \in Nat
    BY LenProperties DEF CoroInv, TypeOK, wait
  <2>2. IsFiniteSet(1 .. Len(wait))
    BY <2>1, FS_Interval
  <2>3. S = {}
    BY <2>2, FS_Subset, FS_EmptySet DEF Occurrences
  <2>4. ~In(wait, t)
    BY <2>3 DEF In
  <2> QED
    BY <2>4 DEF CoroInv, Lock
<1> QED
  BY <1>1, CoroInvariant, PTL

-----------------------------------------------------------------------------
(* No thread is lost *)

Queued(t) == In(run_queue, t) \/ In(wait, t) \/ In(writer_queue, t)

\* A thread that could run, or waits for the lock, is in a queue.
Placed == \A t \in Threads : t # current_thread /\ pc[t] # "sleep" => Queued(t)

\* coro_schedule() drops nobody.
LEMMA ScheduledAll ==
  ASSUME NEW q \in Seq(All), Distinct(q), coro_schedule(q)
  PROVE  \A y : In(q, y) => In(run_queue', y) \/ y = current_thread'
<1>1. CASE q = <<>>
  BY <1>1, EmptyIn
<1>2. CASE q # <<>>
  BY <1>2, DequeueIn DEF coro_schedule
<1> QED
  BY <1>1, <1>2

\* Nor does the unsuspending of the first thread of a wait queue.
LEMMA ResumedAll ==
  ASSUME NEW q \in Seq(All), Distinct(q), run_queue \in Seq(All)
  PROVE  /\ \A y : In(q, y) => In(Rest(q), y) \/ In(Resume(q), y)
         /\ \A y : In(run_queue, y) => In(Resume(q), y)
<1>1. CASE q = <<>>
  BY <1>1 DEF Rest, Resume
<1>2. CASE q # <<>>
  <2>1. Head(q) \in All /\ \A y : In(Tail(q), y) <=> In(q, y) /\ y # Head(q)
    BY <1>2, DequeueIn
  <2>2. \A y : In(Append(run_queue, Head(q)), y) <=> In(run_queue, y) \/ y = Head(q)
    BY <2>1, EnqueueIn
  <2> QED
    BY <1>2, <2>1, <2>2 DEF Rest, Resume
<1> QED
  BY <1>1, <1>2

LEMMA PlacedStep == CoroInv /\ Placed /\ [Next]_vars => Placed'
<1> SUFFICES ASSUME CoroInv, Placed, [Next]_vars
             PROVE  Placed'
  OBVIOUS
<1> USE ThreadIds
<1>0. /\ run_queue \in Seq(All) /\ wait \in Seq(Threads) /\ writer_queue \in Seq(Threads)
      /\ wait \in Seq(All) /\ writer_queue \in Seq(All)
      /\ Distinct(run_queue) /\ Distinct(wait) /\ Distinct(writer_queue)
      /\ pc \in [Threads -> Places] /\ ~In(run_queue, current_thread)
  <2>1. \A q \in Seq(Threads) : q \in Seq(All)
    BY DEF All
  <2> QED
    BY <2>1 DEF CoroInv, Queues, TypeOK, All, wait
<1>s. ASSUME NEW t \in Threads, NEW p \in Places, current_thread = t,
             coro_schedule(run_queue), pc' = [pc EXCEPT ![t] = p],
             p = "sleep" \/ In(wait, t)' \/ In(writer_queue, t)',
             \A y : In(wait, y) => In(wait, y)',
             \A y : In(writer_queue, y) => In(writer_queue, y)'
      PROVE  Placed'
  <2>1. \A y : In(run_queue, y) => In(run_queue, y)' \/ y = current_thread'
    BY <1>0, <1>s, ScheduledAll
  <2>2. pc'[t] = p /\ \A u \in Threads \ {t} : pc'[u] = pc[u]
    BY <1>0, <1>s
  <2> QED
    BY <1>s, <2>1, <2>2 DEF Placed, Queued
<1>r. ASSUME NEW t \in Threads, NEW p \in Places, current_thread = t,
             UNCHANGED current_thread, pc' = [pc EXCEPT ![t] = p],
             \A y : Queued(y) => Queued(y)'
      PROVE  Placed'
  BY <1>0, <1>r DEF Placed
<1>u. ASSUME reader_queue' = Unlocked(reader_queue), run_queue' = Resume(wait),
             UNCHANGED writer_queue
      PROVE  \A y : Queued(y) => Queued(y)'
  <2>1. wait' = Rest(wait)
    BY <1>u DEF Unlocked, wait
  <2> QED
    BY <1>0, <1>u, <2>1, ResumedAll DEF Queued
<1>m. ASSUME NEW t \in Threads, NEW p \in Places, current_thread = t, MutexWait(t, p)
      PROVE  Placed'
  <2>1. /\ wait' = Append(wait, t) /\ UNCHANGED writer_queue
        /\ pc' = [pc EXCEPT ![t] = p] /\ coro_schedule(run_queue)
    BY <1>m DEF MutexWait, wait, CoroInv, TypeOK
  <2>2. \A y : In(wait', y) <=> In(wait, y) \/ y = t
    BY <1>0, <2>1, EnqueueIn
  <2> QED
    BY <1>m, <1>s, <2>1, <2>2
<1>e. ASSUME NEW t \in Threads, current_thread = t, RdEnter(t)
      PROVE  Placed'
  <2>1. /\ reader_queue' = Unlocked(reader_queue) /\ run_queue' = Resume(wait)
        /\ pc' = [pc EXCEPT ![t] = "run"] /\ UNCHANGED <<current_thread, writer_queue>>
    BY <1>e DEF RdEnter, wait
  <2> QED
    BY <1>e, <1>r, <1>u, <2>1 DEF Places
<1>w. ASSUME NEW t \in Threads, current_thread = t, WrEnter(t)
      PROVE  Placed'
  <2>1. wait' = wait
    BY <1>w DEF WrEnter, wait, CoroInv, TypeOK
  <2>2. CASE /\ writer_queue' = Append(writer_queue, t)
             /\ pc' = [pc EXCEPT ![t] = "cond_wait"] /\ coro_schedule(run_queue)
    <3>1. \A y : In(writer_queue', y) <=> In(writer_queue, y) \/ y = t
      BY <1>0, <2>2, EnqueueIn
    <3> QED
      BY <1>s, <1>w, <2>1, <2>2, <3>1 DEF Places
  <2>3. CASE /\ pc' = [pc EXCEPT ![t] = "run"]
             /\ UNCHANGED <<current_thread, run_queue, writer_queue>>
    <3>1. \A y : Queued(y) => Queued(y)'
      BY <2>1, <2>3 DEF Queued
    <3> QED
      BY <1>r, <1>w, <2>3, <3>1 DEF Places
  <2> QED
    BY <1>w, <2>2, <2>3 DEF WrEnter
<1>1. ASSUME NEW t \in All, coro_yield(t)
      PROVE  Placed'
  <2>1. /\ current_thread = t /\ coro_schedule(Append(run_queue, t))
        /\ UNCHANGED <<pc, reader_queue, writer_queue>>
    BY <1>1 DEF coro_yield, lockVars
  <2>2. /\ Append(run_queue, t) \in Seq(All) /\ Distinct(Append(run_queue, t))
        /\ \A y : In(Append(run_queue, t), y) <=> In(run_queue, y) \/ y = t
    BY <1>0, <2>1, EnqueueIn
  <2>3. \A y : In(run_queue, y) \/ y = t => In(run_queue, y)' \/ y = current_thread'
    BY <2>1, <2>2, ScheduledAll
  <2> QED
    BY <2>1, <2>3 DEF Placed, Queued, wait
<1>2. ASSUME NEW t \in Threads, Sleep(t)
      PROVE  Placed'
  BY <1>2, <1>s DEF Sleep, lockVars, Places, wait
<1>3. ASSUME NEW t \in Threads, Wake(t)
      PROVE  Placed'
  <2>1. /\ pc' = [pc EXCEPT ![t] = "run"] /\ run_queue' = Append(run_queue, t)
        /\ UNCHANGED <<current_thread, reader_queue, writer_queue>>
    BY <1>3 DEF Wake, lockVars
  <2>2. \A y : In(run_queue', y) <=> In(run_queue, y) \/ y = t
    <3>1. t \in All
      BY DEF All
    <3> QED
      BY <1>0, <2>1, <3>1, EnqueueIn
  <2>3. \A u \in Threads \ {t} : pc'[u] = pc[u]
    BY <1>0, <2>1
  <2> QED
    BY <2>1, <2>2, <2>3 DEF Placed, Queued, wait
<1>4. ASSUME NEW t \in Threads, CondContinue(t)
      PROVE  Placed'
  <2>1. \A y : Queued(y) => Queued(y)'
    BY <1>4 DEF CondContinue, Queued, wait
  <2> QED
    BY <1>4, <1>r, <2>1 DEF CondContinue, Places
<1>5. ASSUME NEW t \in Threads, coro_rwlock_unlock(t)
      PROVE  Placed'
  <2>0. current_thread = t /\ UNCHANGED <<current_thread, pc>>
    BY <1>5 DEF coro_rwlock_unlock
  <2>1. CASE /\ reader_queue' = Unlocked(reader_queue) /\ run_queue' = Resume(wait)
             /\ UNCHANGED writer_queue
    BY <1>u, <2>0, <2>1 DEF Placed
  <2>2. CASE ReaderLeaves(t)
    <3>1. \/ /\ writer_queue' = Rest(writer_queue) /\ run_queue' = Resume(writer_queue)
          \/ UNCHANGED <<writer_queue, run_queue>>
      BY <2>2 DEF ReaderLeaves
    <3>2. wait' = wait
      BY <2>2 DEF ReaderLeaves, wait
    <3>3. \A y : Queued(y) => Queued(y)'
      BY <1>0, <3>1, <3>2, ResumedAll DEF Queued
    <3> QED
      BY <2>0, <3>3 DEF Placed
  <2> QED
    BY <1>5, <2>1, <2>2 DEF coro_rwlock_unlock, wait
<1>6. ASSUME NEW t \in Threads,
             \/ coro_rwlock_rdlock(t) \/ RdContinue(t)
             \/ coro_rwlock_wrlock(t) \/ WrContinue(t)
      PROVE  Placed'
  BY <1>6, <1>e, <1>m, <1>w
     DEF coro_rwlock_rdlock, RdContinue, coro_rwlock_wrlock, WrContinue, Places
<1>7. CASE UNCHANGED vars
  BY <1>7 DEF vars, lockVars, Placed, Queued, wait
<1> QED
  <2>1. MAIN_THREAD \in All /\ \A t \in Threads : t \in All
    BY DEF All
  <2> QED
    BY <1>1, <1>2, <1>3, <1>4, <1>5, <1>6, <1>7, <2>1 DEF Next

LEMMA OccurrencesIn ==
  ASSUME NEW S, NEW q \in Seq(S), NEW t, Distinct(q)
  PROVE  Occurrences(q, t) = IF In(q, t) THEN 1 ELSE 0
<1> DEFINE O == {i \in 1 .. Len(q) : q[i] = t}
<1>1. CASE In(q, t)
  <2>1. PICK i \in 1 .. Len(q) : q[i] = t
    BY <1>1 DEF In
  <2>2. O = {i}
    BY <2>1 DEF Distinct
  <2> QED
    BY <1>1, <2>2, FS_Singleton DEF Occurrences
<1>2. CASE ~In(q, t)
  <2>1. O = {}
    BY <1>2 DEF In
  <2> QED
    BY <1>2, <2>1, FS_EmptySet DEF Occurrences
<1> QED
  BY <1>1, <1>2

\* The one next pointer of a tcb is enough, for any number of threads: a thread
\* is in one queue, once, if it can run or waits for the lock, and in none
\* while it runs or sleeps; no switch or wakeup loses a thread or links it twice.
THEOREM OneQueueAlways == Spec => []OneQueue
<1>1. Init => Placed
  <2> SUFFICES ASSUME Init, NEW t \in Threads
               PROVE  In(run_queue, t)
    BY DEF Placed, Queued
  <2>1. /\ NrThreads \in Nat /\ run_queue = [i \in 1 .. NrThreads |-> i - 1]
        /\ t \in 0 .. NrThreads - 1
    BY ThreadsAssumption DEF Init, Threads
  <2>2. run_queue \in [1 .. NrThreads -> Int]
    BY <2>1
  <2>3. Len(run_queue) = NrThreads
    BY <2>1, <2>2, IsASeq, LenProperties
  <2>4. t + 1 \in 1 .. NrThreads /\ run_queue[t + 1] = t
    BY <2>1
  <2> QED
    BY <2>3, <2>4 DEF In
<1>2. CoroInv /\ Placed => OneQueue
  <2> SUFFICES ASSUME CoroInv, Placed, NEW t \in Threads
               PROVE  Occurrences(run_queue, t) + Occurrences(wait, t)
                        + Occurrences(writer_queue, t)
                      = IF t = current_thread \/ pc[t] = "sleep" THEN 0 ELSE 1
    BY DEF OneQueue, wait
  <2>1. /\ Occurrences(run_queue, t) = IF In(run_queue, t) THEN 1 ELSE 0
        /\ Occurrences(wait, t) = IF In(wait, t) THEN 1 ELSE 0
        /\ Occurrences(writer_queue, t) = IF In(writer_queue, t) THEN 1 ELSE 0
    BY OccurrencesIn DEF CoroInv, TypeOK, Queues, wait
  <2>2. /\ In(run_queue, t) => /\ t # current_thread /\ pc[t] # "sleep"
                               /\ ~In(wait, t) /\ ~In(writer_queue, t)
        /\ In(wait, t) => t # current_thread /\ pc[t] \in {"rdlock", "wrlock"}
        /\ In(writer_queue, t) => t # current_thread /\ pc[t] = "cond_wait"
    BY DEF CoroInv, Queues
  <2>3. t # current_thread /\ pc[t] # "sleep" =>
          In(run_queue, t) \/ In(wait, t) \/ In(writer_queue, t)
    BY DEF Placed, Queued
  <2> QED
    BY <2>1, <2>2, <2>3
<1> QED
  BY <1>1, <1>2, CoroInvariant, PlacedStep, PTL DEF Spec
=============================================================================
