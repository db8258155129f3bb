------------------------------ MODULE VfsEpoll ------------------------------
(***************************************************************************)
(* One event poll file of the file system server (servers/vfs/eventpoll.c) *)
(* that processes share: epoll_wait(), epoll_ctl() and the closing of      *)
(* watched files.  cur is the worker that runs; a worker runs until it     *)
(* sleeps: for the lock of the event poll file (flock), for the mutex of   *)
(* its ready list (mtx), for an event, or for the answer of the driver of  *)
(* a device that is polled, the latter with both locks held.               *)
(***************************************************************************)
EXTENDS Integers, Sequences, FiniteSets

CONSTANTS
  Procs,
  Files, Devices,   \* what can be watched; the files that ask a driver
  Edge, OneShot,    \* files that are added with EPOLLET, EPOLLONESHOT
  MaxEv,            \* maxevents
  Timed,            \* TRUE: epoll_wait() with a timeout
  Ctl, Closing,     \* TRUE: epoll_ctl() is used; watched files are closed
  MaxEvents,        \* bound: how often files become ready
  None

VARIABLES
  rdllist, txlist,   \* items that are ready, that are being sent
  hooked, reg,       \* items with a wait-queue entry, in the tree
  enabled,           \* items whose events EPOLLONESHOT has not cleared
  wq,                \* sleepers of ep_poll(), newest first
  flock, flockq, mtx, mtxq,
  ready, events, notes,   \* the files; devices with a notification on its way
  answer,                 \* per process: the driver's answer, or None
  cur, runq, self,
  pc, file, got, timer, expired   \* per process

epVars == <<rdllist, txlist, hooked, reg, enabled, wq>>
lockVars == <<flock, flockq, mtx, mtxq>>
fileVars == <<ready, events, notes, answer>>
callVars == <<file, got, timer, expired>>
vars == <<epVars, lockVars, fileVars, cur, runq, self, pc, callVars>>

Init ==
  /\ rdllist = <<>> /\ txlist = <<>> /\ wq = <<>>
  /\ reg = (IF Ctl THEN {} ELSE Files) /\ hooked = reg /\ enabled = reg
  /\ flock = None /\ flockq = <<>> /\ mtx = None /\ mtxq = <<>>
  /\ ready = [f \in Files |-> FALSE] /\ events = 0 /\ notes = {}
  /\ answer = [p \in Procs |-> None]
  /\ cur = None /\ runq = <<>> /\ self = None
  /\ pc = [p \in Procs |-> "idle"] /\ file = [p \in Procs |-> None]
  /\ got = [p \in Procs |-> 0] /\ timer = {} /\ expired = {}

Elems(s) == {s[k] : k \in DOMAIN s}
Drop(s, f) == LET Other(e) == e # f IN SelectSeq(s, Other)
Linked(f) == f \in Elems(rdllist) \cup Elems(txlist)
MainRuns == cur = None /\ runq = <<>>
At(p, where) == cur = p /\ pc[p] = where
Goto(p, where) == pc' = [pc EXCEPT ![p] = where]

-----------------------------------------------------------------------------
(* the lock of the file, which saves the worker, and the mutex, which does not *)

\* lock_filp(): pc of the owner is next, of a worker that waits is wait
LockFile(p, wait, next) ==
  IF flock = None
  THEN flock' = p /\ Goto(p, next) /\ cur' = p /\ UNCHANGED flockq
  ELSE flockq' = Append(flockq, p) /\ Goto(p, wait) /\ cur' = None /\ UNCHANGED flock

\* unlock_filp() of a worker that sleeps or ends; woken workers are in q
UnlockFile(q) ==
  IF flockq = <<>> THEN flock' = None /\ runq' = q /\ UNCHANGED flockq
  ELSE /\ flock' = Head(flockq) /\ flockq' = Tail(flockq)
       /\ runq' = Append(q, Head(flockq))

LockMtx(p, wait, next) ==
  IF mtx = None THEN mtx' = p /\ Goto(p, next) /\ UNCHANGED <<mtxq, cur>>
  ELSE mtxq' = Append(mtxq, p) /\ Goto(p, wait) /\ cur' = None /\ UNCHANGED mtx

UnlockMtx(q) ==
  IF mtxq = <<>> THEN mtx' = None /\ runq' = q /\ UNCHANGED mtxq
  ELSE mtx' = Head(mtxq) /\ mtxq' = Tail(mtxq) /\ runq' = Append(q, Head(mtxq))

\* where a worker goes on that slept in one of these places
AfterSleep == [lock |-> "fetch", relock |-> "after", ctllock |-> "ctl",
               asleep |-> "awake", driver |-> "answer",
               mtxwait |-> "splice", ctlwait |-> "change", closewait |-> "release"]

\* mutant: lock_filp() does not save the worker
Run_NoResume ==
  /\ cur = None /\ runq # <<>>
  /\ LET p == Head(runq) IN
     /\ cur' = p /\ Goto(p, AfterSleep[pc[p]])
     /\ self' = IF pc[p] \in {"lock", "relock", "ctllock"} THEN self ELSE p
  /\ runq' = Tail(runq)
  /\ UNCHANGED <<epVars, lockVars, fileVars, callVars>>

\* worker_resume() sets self; a worker that waited in mutex_lock() has no such call
Run ==
  /\ cur = None /\ runq # <<>>
  /\ LET p == Head(runq) IN
     /\ cur' = p /\ Goto(p, AfterSleep[pc[p]])
     /\ self' = IF pc[p] \in {"mtxwait", "ctlwait", "closewait"} THEN self ELSE p
  /\ runq' = Tail(runq)
  /\ UNCHANGED <<epVars, lockVars, fileVars, callVars>>

\* waitqueue_wakeup_all(&ep->wq): a sleeper whose timer woke it already, and which
\* now waits for the file, is taken from the queue and not woken again
Wakeable == LET Sleeps(p) == pc[p] = "asleep" /\ p \notin Elems(runq)
            IN SelectSeq(wq, Sleeps)

-----------------------------------------------------------------------------
(* epoll_wait() *)

do_epoll_wait(p) ==
  /\ MainRuns /\ pc[p] = "idle" /\ self' = p
  /\ LockFile(p, "lock", "fetch")
  /\ got' = [got EXCEPT ![p] = 0] /\ expired' = expired \ {p}
  /\ UNCHANGED <<epVars, mtx, mtxq, fileVars, runq, file, timer>>

\* ep_poll(), from fetch_events to worker_wait()
FetchSleeps(p) ==
  /\ At(p, "fetch") /\ rdllist = <<>>
  /\ wq' = <<p>> \o wq /\ timer' = IF Timed THEN timer \cup {p} ELSE timer
  /\ UnlockFile(runq) /\ Goto(p, "asleep") /\ cur' = None
  /\ UNCHANGED <<rdllist, txlist, hooked, reg, enabled, mtx, mtxq, fileVars, self,
                 file, got, expired>>

FetchSends(p) ==
  /\ At(p, "fetch") /\ rdllist # <<>> /\ LockMtx(p, "mtxwait", "splice")
  /\ UNCHANGED <<epVars, flock, flockq, fileVars, runq, self, callVars>>

Awake(p) ==
  /\ At(p, "awake") /\ LockFile(p, "relock", "after")
  /\ UNCHANGED <<epVars, mtx, mtxq, fileVars, runq, self, callVars>>

\* the timer is cancelled and the entry leaves the queue
AfterSends(p) ==
  /\ At(p, "after") /\ p \notin expired
  /\ timer' = timer \ {p} /\ wq' = Drop(wq, p)
  /\ LockMtx(p, "mtxwait", "splice")
  /\ UNCHANGED <<rdllist, txlist, hooked, reg, enabled, flock, flockq, fileVars,
                 runq, self, file, got, expired>>

\* the end of epoll_wait()
Return(p, q) == UnlockFile(q) /\ Goto(p, "idle") /\ cur' = None

AfterTimeout(p) ==
  /\ At(p, "after") /\ p \in expired
  /\ wq' = Drop(wq, p) /\ Return(p, runq)
  /\ UNCHANGED <<rdllist, txlist, hooked, reg, enabled, mtx, mtxq, fileVars, self,
                 callVars>>

\* list_splice_init() in ep_scan_ready_list()
Splice(p) ==
  /\ At(p, "splice") /\ txlist' = rdllist /\ rdllist' = <<>> /\ Goto(p, "scan")
  /\ UNCHANGED <<hooked, reg, enabled, wq, lockVars, fileVars, cur, runq, self, callVars>>

\* what ep_send_events_proc() does with item f once it knows if it is ready
Reported(p, f, r) ==
  /\ got' = IF r /\ f \in enabled THEN [got EXCEPT ![p] = @ + 1] ELSE got
  /\ enabled' = IF r /\ f \in OneShot THEN enabled \ {f} ELSE enabled
  /\ rdllist' = IF r /\ f \in enabled \ (OneShot \cup Edge) /\ f \notin Elems(rdllist)
                THEN Append(rdllist, f) ELSE rdllist

ScanLocal(p) ==
  /\ At(p, "scan") /\ txlist # <<>> /\ got[p] < MaxEv
  /\ LET f == Head(txlist) IN
     /\ f \notin Devices /\ txlist' = Tail(txlist)
     /\ Reported(p, f, ready[f])
  /\ UNCHANGED <<hooked, reg, wq, lockVars, fileVars, cur, runq, self, pc,
                 file, timer, expired>>

\* ep_item_poll() of a device: the worker sleeps with both locks
ScanDevice(p) ==
  /\ At(p, "scan") /\ txlist # <<>> /\ got[p] < MaxEv
  /\ Head(txlist) \in Devices
  /\ file' = [file EXCEPT ![p] = Head(txlist)] /\ txlist' = Tail(txlist)
  /\ Goto(p, "driver") /\ cur' = None
  /\ UNCHANGED <<rdllist, hooked, reg, enabled, wq, lockVars, fileVars, runq, self,
                 got, timer, expired>>

\* the driver's answer, as the device was when the driver looked
ScanAnswer(p) ==
  /\ At(p, "answer") /\ file[p] \in reg
  /\ Reported(p, file[p], answer[p] = "ready") /\ Goto(p, "scan")
  /\ file' = [file EXCEPT ![p] = None] /\ answer' = [answer EXCEPT ![p] = None]
  /\ UNCHANGED <<txlist, hooked, reg, wq, lockVars, ready, events, notes, cur, runq,
                 self, timer, expired>>

\* list_splice(), mutex_unlock(); without an event the call starts again
EndScan(p) ==
  /\ At(p, "scan") /\ (txlist = <<>> \/ got[p] >= MaxEv)
  /\ rdllist' = txlist \o rdllist /\ txlist' = <<>>
  /\ UnlockMtx(runq)
  /\ Goto(p, IF got[p] > 0 THEN "return" ELSE "fetch")
  /\ UNCHANGED <<hooked, reg, enabled, wq, flock, flockq, fileVars, cur, self, callVars>>

\* the copy to the caller fails: the item goes back to the front
ScanFault(p) ==
  /\ At(p, "scan") /\ txlist # <<>> /\ got[p] < MaxEv
  /\ LET f == Head(txlist) IN f \notin Devices /\ ready[f] /\ f \in enabled
  /\ rdllist' = txlist \o rdllist /\ txlist' = <<>>
  /\ UnlockMtx(runq) /\ Goto(p, "return")
  /\ UNCHANGED <<hooked, reg, enabled, wq, flock, flockq, fileVars, cur, self, callVars>>

WaitReturns(p) ==
  /\ At(p, "return") /\ Return(p, runq)
  /\ UNCHANGED <<epVars, mtx, mtxq, fileVars, self, callVars>>

-----------------------------------------------------------------------------
(* epoll_ctl() and close() *)

do_epoll_ctl(p, f) ==
  /\ Ctl /\ MainRuns /\ pc[p] = "idle" /\ self' = p
  /\ LockFile(p, "ctllock", "ctl")
  /\ file' = [file EXCEPT ![p] = f]
  /\ UNCHANGED <<epVars, mtx, mtxq, fileVars, runq, got, timer, expired>>

CtlLocks(p) ==
  /\ At(p, "ctl") /\ LockMtx(p, "ctlwait", "change")
  /\ UNCHANGED <<epVars, flock, flockq, fileVars, runq, self, callVars>>

\* mutant: an item that is ready stays on the list
Removed_Listed(f) ==
  /\ hooked' = hooked \ {f} /\ reg' = reg \ {f} /\ enabled' = enabled \ {f}
  /\ UNCHANGED <<rdllist, txlist>>

\* ep_remove()
Removed(f) ==
  /\ hooked' = hooked \ {f} /\ reg' = reg \ {f} /\ enabled' = enabled \ {f}
  /\ rdllist' = Drop(rdllist, f) /\ txlist' = Drop(txlist, f)

\* the mutex and the file are unlocked, the call ends; q: who was woken
CtlEnds(p, q) ==
  /\ mtx' = IF mtxq = <<>> THEN None ELSE Head(mtxq)
  /\ mtxq' = IF mtxq = <<>> THEN mtxq ELSE Tail(mtxq)
  /\ UnlockFile(IF mtxq = <<>> THEN q ELSE Append(q, Head(mtxq)))
  /\ Goto(p, "idle") /\ cur' = None /\ file' = [file EXCEPT ![p] = None]

\* EPOLL_CTL_DEL of a watched file
CtlRemoves(p) ==
  /\ At(p, "change") /\ file[p] \in reg
  /\ Removed(file[p]) /\ CtlEnds(p, runq)
  /\ UNCHANGED <<wq, fileVars, self, got, timer, expired>>

\* ep_insert() once it knows if the file is ready
Inserted(p, f, r) ==
  /\ reg' = reg \cup {f} /\ hooked' = hooked \cup {f}
  /\ IF r /\ ~Linked(f)
     THEN rdllist' = Append(rdllist, f) /\ wq' = <<>> /\ CtlEnds(p, runq \o Wakeable)
     ELSE UNCHANGED <<rdllist, wq>> /\ CtlEnds(p, runq)

CtlAdds(p) ==
  /\ At(p, "change") /\ file[p] \notin reg \cup Devices
  /\ enabled' = enabled \cup {file[p]}
  /\ Inserted(p, file[p], ready[file[p]])
  /\ UNCHANGED <<txlist, fileVars, self, got, timer, expired>>

\* the entry is queued, then the driver is asked
CtlAddsDevice(p) ==
  /\ At(p, "change") /\ file[p] \in Devices \ reg
  /\ hooked' = hooked \cup {file[p]} /\ enabled' = enabled \cup {file[p]}
  /\ Goto(p, "driver") /\ cur' = None
  /\ UNCHANGED <<rdllist, txlist, reg, wq, lockVars, fileVars, runq, self, callVars>>

CtlAnswer(p) ==
  /\ At(p, "answer") /\ file[p] \notin reg
  /\ Inserted(p, file[p], answer[p] = "ready") /\ answer' = [answer EXCEPT ![p] = None]
  /\ UNCHANGED <<txlist, enabled, ready, events, notes, self, got, timer, expired>>

\* close() of a watched file that nobody else has open; epoll_ctl() holds its lock
Close(p, f) ==
  /\ Closing /\ MainRuns /\ pc[p] = "idle" /\ f \in reg
  /\ \A o \in Procs : pc[o] \notin {"idle", "driver"} => file[o] # f
  /\ self' = p /\ file' = [file EXCEPT ![p] = f]
  /\ IF mtx = None THEN mtx' = p /\ Goto(p, "release") /\ cur' = p /\ UNCHANGED mtxq
     ELSE mtxq' = Append(mtxq, p) /\ Goto(p, "closewait") /\ UNCHANGED <<mtx, cur>>
  /\ UNCHANGED <<epVars, flock, flockq, fileVars, runq, got, timer, expired>>

\* eventpoll_release_file(), then the file goes
CloseReleases(p) ==
  /\ At(p, "release") /\ Removed(file[p])
  /\ ready' = [ready EXCEPT ![file[p]] = FALSE] /\ notes' = notes \ {file[p]}
  /\ UnlockMtx(runq) /\ Goto(p, "idle") /\ cur' = None
  /\ file' = [file EXCEPT ![p] = None]
  /\ UNCHANGED <<wq, flock, flockq, events, answer, self, got, timer, expired>>

-----------------------------------------------------------------------------
(* events *)

ep_poll_callback(f) ==
  IF f \in hooked \cap enabled
  THEN /\ rdllist' = IF Linked(f) THEN rdllist ELSE Append(rdllist, f)
       /\ wq' = <<>> /\ runq' = runq \o Wakeable
  ELSE UNCHANGED <<rdllist, wq, runq>>

\* a process writes to a watched pipe, counter ...
FileReady(f) ==
  /\ f \notin Devices /\ MainRuns /\ ~ready[f] /\ events < MaxEvents
  /\ ready' = [ready EXCEPT ![f] = TRUE] /\ events' = events + 1
  /\ ep_poll_callback(f)
  /\ UNCHANGED <<txlist, hooked, reg, enabled, lockVars, notes, answer, cur, self, pc,
                 callVars>>

\* a driver sends CDEV_POLL_NOTIFY ...
DeviceReady(f) ==
  /\ f \in Devices /\ ~ready[f] /\ events < MaxEvents
  /\ ready' = [ready EXCEPT ![f] = TRUE] /\ events' = events + 1
  /\ notes' = IF f \in hooked THEN notes \cup {f} ELSE notes
  /\ UNCHANGED <<epVars, lockVars, answer, cur, runq, self, pc, callVars>>

\* ... and the main loop receives it
cdev_poll_notify(f) ==
  /\ MainRuns /\ f \in notes /\ notes' = notes \ {f} /\ ep_poll_callback(f)
  /\ UNCHANGED <<txlist, hooked, reg, enabled, lockVars, ready, events, answer, cur, self,
                 pc, callVars>>

\* the driver of the device looks and answers
DriverAnswers(p) ==
  /\ pc[p] = "driver" /\ answer[p] = None
  /\ answer' = [answer EXCEPT ![p] = IF ready[file[p]] THEN "ready" ELSE "not"]
  /\ UNCHANGED <<epVars, lockVars, ready, events, notes, cur, runq, self, pc, callVars>>

\* The reply of the driver wakes the worker that sent the request.
cdev_reply(p) ==
  /\ MainRuns /\ pc[p] = "driver" /\ answer[p] # None /\ runq' = <<p>>
  /\ UNCHANGED <<epVars, lockVars, fileVars, cur, self, pc, callVars>>

FileTaken(f) ==
  /\ MainRuns /\ ready[f] /\ ready' = [ready EXCEPT ![f] = FALSE]
  /\ UNCHANGED <<epVars, lockVars, events, notes, answer, cur, runq, self, pc, callVars>>

\* worker_wake() reaches the worker only where it sleeps in worker_wait()
ep_timeout_check(p) ==
  /\ MainRuns /\ p \in timer
  /\ timer' = timer \ {p} /\ expired' = expired \cup {p}
  /\ runq' = IF pc[p] = "asleep" THEN <<p>> ELSE runq
  /\ UNCHANGED <<epVars, lockVars, fileVars, cur, self, pc, file, got>>

Worker(p) ==
  \/ FetchSleeps(p) \/ FetchSends(p) \/ Awake(p) \/ AfterSends(p) \/ AfterTimeout(p)
  \/ Splice(p) \/ ScanLocal(p) \/ ScanDevice(p) \/ ScanAnswer(p) \/ EndScan(p)
  \/ WaitReturns(p) \/ CtlLocks(p) \/ CtlRemoves(p) \/ CtlAdds(p)
  \/ CtlAddsDevice(p) \/ CtlAnswer(p) \/ CloseReleases(p)

Main == \/ \E f \in Devices : cdev_poll_notify(f)
        \/ \E p \in Procs : cdev_reply(p) \/ DriverAnswers(p)

Next ==
  \/ Run \/ Main
  \/ \E p \in Procs :
       \/ do_epoll_wait(p) \/ Worker(p) \/ ScanFault(p) \/ ep_timeout_check(p)
       \/ \E f \in Files : do_epoll_ctl(p, f) \/ Close(p, f)
  \/ \E f \in Files : FileReady(f) \/ DeviceReady(f) \/ FileTaken(f)

Spec == Init /\ [][Next]_vars

-----------------------------------------------------------------------------

TypeOK ==
  /\ rdllist \in Seq(Files) /\ txlist \in Seq(Files) /\ wq \in Seq(Procs)
  /\ reg \subseteq hooked /\ hooked \subseteq Files /\ enabled \subseteq hooked
  /\ flock \in Procs \cup {None} /\ mtx \in Procs \cup {None}
  /\ flockq \in Seq(Procs) /\ mtxq \in Seq(Procs) /\ runq \in Seq(Procs)
  /\ ready \in [Files -> BOOLEAN] /\ events \in 0 .. MaxEvents /\ notes \subseteq Devices
  /\ cur \in Procs \cup {None} /\ self \in Procs \cup {None}
  /\ got \in [Procs -> 0 .. MaxEv] /\ timer \subseteq Procs /\ expired \subseteq Procs
  /\ file \in [Procs -> Files \cup {None}]

\* A worker that runs is the one the global self names: what it does in the name
\* of self and fproc is its own.
RunsAsSelf == cur # None => self = cur

Polled == {file[p] : p \in {o \in Procs : pc[o] \in {"driver", "answer"}}}

\* A file watched level-triggered that is ready is on the ready list, is being
\* looked at, or has a notification on its way: epoll_wait() will find it.
ReadyListed ==
  MainRuns =>
    \A f \in (reg \cap enabled) \ Edge :
      ready[f] => Linked(f) \/ f \in notes \cup Polled

\* Nobody sleeps in ep_poll() while an item is on the ready list.
NoSleeperBesideEvent == MainRuns /\ rdllist # <<>> => wq = <<>>

\* The items on the lists are watched and on one list only, and while a driver is
\* asked about an item the item and its file stay (the assertion in
\* ep_item_poll()).
ListsSound ==
  /\ Elems(rdllist) \cup Elems(txlist) \subseteq hooked
  /\ Elems(rdllist) \cap Elems(txlist) = {}
  /\ Cardinality(Elems(rdllist)) = Len(rdllist)
  /\ Polled \ {None} \subseteq hooked

\* The queue entry and the timer of epoll_wait() are on its stack; when it has
\* returned nothing refers to them.
StackUnlinked ==
  \A p \in Procs : p \in timer \cup Elems(wq) =>
                     pc[p] \in {"asleep", "awake", "relock", "after"}
=============================================================================
