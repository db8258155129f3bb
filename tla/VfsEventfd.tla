----------------------------- MODULE VfsEventfd -----------------------------
(***************************************************************************)
(* An event counter of the file system server (servers/vfs/eventfd.c) that *)
(* processes share.  A call runs until it sleeps; the workers that were    *)
(* woken run in turn before the main loop takes another call.  Unlike a    *)
(* pipe, a call has one entry in the wait queue for all its sleeps, and    *)
(* the entry loses its worker (private = NULL) when it is first woken.     *)
(***************************************************************************)
EXTENDS Integers, Sequences

CONSTANTS
  Procs,
  MaxCount,   \* ULLONG_MAX
  Semaphore,  \* EFD_SEMAPHORE
  ReadersOf,  \* the processes that read
  WritersOf   \* the processes that write

VARIABLES
  count,
  nonblock,  \* EFD_NONBLOCK of eventfd()
  wq,      \* entries <<process, whether it still has its worker>>, newest first
  runq,    \* workers that were woken
  call,    \* 0: none; -1: read; n > 0: write of n
  written, taken  \* sums of what calls have added and taken, modulo MaxCount + 1

vars == <<count, nonblock, wq, runq, call, written, taken>>

None == 0
Reading == -1

Init ==
  /\ count \in 0 .. MaxCount - 1 /\ nonblock \in BOOLEAN /\ wq = <<>> /\ runq = <<>>
  /\ call = [p \in Procs |-> None] /\ written = count /\ taken = 0

\* default_wake_function() on every entry of queue w
Woken(w) == [i \in DOMAIN w |-> <<w[i][1], FALSE>>]
Sleeping(w) == LET Has(e) == e[2] IN SelectSeq(w, Has)
ProcsOf(w) == [i \in DOMAIN w |-> w[i][1]]

Without(w, p) == LET Other(e) == e[1] # p IN SelectSeq(w, Other)

\* waitqueue_wakeup_all(&ctx->wq) on what is left of the queue
wakeup_all(w, q) == wq' = Woken(w) /\ runq' = q \o ProcsOf(Sleeping(w))

Fits(n) == MaxCount - count > n

\* eventfd_ctx_do_read()
Amount == IF Semaphore THEN 1 ELSE count

\* the entry leaves the queue, the counter goes down, the others are woken;
\* a copy to the caller that fails afterwards changes nothing
ReadTakes(p, w, q) ==
  /\ count > 0 /\ count' = count - Amount
  /\ taken' = (taken + Amount) % (MaxCount + 1)
  /\ wakeup_all(Without(w, p), q) /\ UNCHANGED written

WriteAdds(p, n, w, q) ==
  /\ Fits(n) /\ count' = count + n
  /\ written' = (written + n) % (MaxCount + 1)
  /\ wakeup_all(Without(w, p), q) /\ UNCHANGED taken

Return(p) == call' = [call EXCEPT ![p] = None] /\ UNCHANGED nonblock

Sleep(p, op, w, q) ==
  /\ call' = [call EXCEPT ![p] = op] /\ wq' = w /\ runq' = q
  /\ UNCHANGED <<count, nonblock, written, taken>>

Again == nonblock /\ UNCHANGED vars

Ready(p) == runq = <<>> /\ call[p] = None

eventfd_read(p) ==
  /\ Ready(p) /\ p \in ReadersOf
  /\ \/ ReadTakes(p, wq, runq) /\ Return(p)
     \/ count = 0 /\ ~nonblock /\ Sleep(p, Reading, <<<<p, TRUE>>>> \o wq, runq)
     \/ count = 0 /\ Again

eventfd_write(p, n) ==
  /\ Ready(p) /\ p \in WritersOf
  /\ \/ WriteAdds(p, n, wq, runq) /\ Return(p)
     \/ ~Fits(n) /\ ~nonblock /\ Sleep(p, n, <<<<p, TRUE>>>> \o wq, runq)
     \/ ~Fits(n) /\ Again

\* the loop around worker_wait(): the same entry serves again
Continue ==
  /\ runq # <<>>
  /\ LET p == Head(runq) q == Tail(runq) IN
     \/ call[p] = Reading /\ ReadTakes(p, wq, q) /\ Return(p)
     \/ call[p] = Reading /\ count = 0 /\ Sleep(p, Reading, wq, q)
     \/ call[p] > 0 /\ WriteAdds(p, call[p], wq, q) /\ Return(p)
     \/ call[p] > 0 /\ ~Fits(call[p]) /\ Sleep(p, call[p], wq, q)

\* a write of 0 is legal and changes nothing
Values == 1 .. MaxCount - 1

Next == \/ Continue
        \/ \E p \in Procs : eventfd_read(p) \/ \E n \in Values : eventfd_write(p, n)

Spec == Init /\ [][Next]_vars

-----------------------------------------------------------------------------

TypeOK ==
  /\ count \in 0 .. MaxCount /\ written \in 0 .. MaxCount /\ taken \in 0 .. MaxCount
  /\ wq \in Seq(Procs \X BOOLEAN) /\ runq \in Seq(Procs)
  /\ nonblock \in BOOLEAN /\ call \in [Procs -> -1 .. MaxCount]

\* The counter never reaches ULLONG_MAX, the value eventfd_poll() reports as an
\* error, and it is what was written less what was read.
CounterExact == count < MaxCount /\ written = (taken + count) % (MaxCount + 1)

Waiting(p) == call[p] # None /\ p \notin {runq[i] : i \in DOMAIN runq}

\* A call sleeps only while it could not go on: eventfd_read() while the counter
\* is zero, eventfd_write() while its value does not fit.
NoMissedWake ==
  runq = <<>> =>
    \A p \in Procs : Waiting(p) =>
      IF call[p] = Reading THEN count = 0 ELSE ~Fits(call[p])
=============================================================================
