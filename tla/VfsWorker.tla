------------------------------ MODULE VfsWorker ------------------------------
(***************************************************************************)
(* The worker threads of the file system server (servers/vfs): the main    *)
(* loop hands a request to a worker, the worker serves it under the lock   *)
(* of the process it is for, and sleeps inside the handler for a file      *)
(* server, a driver or an event.  Threads are coroutines: the first of     *)
(* runq runs, one step per action, until it sleeps, and the main loop      *)
(* receives only when nobody else can run (worker_yield()).                *)
(*                                                                         *)
(* A handler is its list of blocking steps (Program); what it computes is  *)
(* left out.  The process manager is one thread that forks, executes and   *)
(* ends processes and waits for the server in between (send_recv(BOTH)).   *)
(***************************************************************************)
EXTENDS Integers, Sequences, FiniteSets, TLC

CONSTANTS
  Procs,       \* the slots of ordinary processes
  NrWorkers,   \* NR_WORKER_THREADS
  Calls        \* the kinds of calls processes make

PM == "PM"     \* TASK_PM
MM == "MM"     \* TASK_MM
VFS == "VFS"   \* TASK_FS, the fproc init_root() runs on
NO_TASK == "NO_TASK"
NULL == 0

Workers == 1 .. NrWorkers
Fprocs == Procs \cup {PM, MM, VFS}
CallKinds == {"quick", "fs", "dev", "wait", "mm"}

VARIABLES
  fp,         \* fproc_table: worker, the request, FPF_PENDING, and the lock
  wk,         \* workers: fproc, where the thread is, what it waits for
  runq,       \* the threads that can run; the first one is running
  block_all, pending,
  panicked,   \* panic("no worker for new task")
  inbox,      \* messages sent to the server and not yet received
  asked,      \* requests at the file servers and drivers
  st,         \* what each process does: "run", "vfs" in a call, "pm" in a call
              \* of PM, "dead", "free" slot, "new" child
  pm,         \* the request PM waits for, or NoMsg
  orphans     \* the slots whose last process ended inside a call (history)

vars == <<fp, wk, runq, block_all, pending, panicked, inbox, asked, st, pm, orphans>>
env == <<inbox, asked, st, pm, orphans>>

Msg(src, type, who, par) == [src |-> src, type |-> type, who |-> who, par |-> par]
NoMsg == Msg(NO_TASK, "none", NO_TASK, NO_TASK)

\* The endpoint whose fproc a request is dispatched to in main().
Target(m) == IF m.type = "exec" THEN m.who ELSE m.src

\* mutant: fs_fork() copies into the slot without its lock
fs_fork_NoChildLock == <<"lock_par", "copy", "unlock_par">>

fs_fork == <<"lock_par", "lock_who", "copy", "unlock_who", "unlock_par">>

\* The steps of the handlers that take a lock or may sleep: a request to a file
\* server, to a driver, a sleep on a wait queue; fs_fork(); fs_exec(), which
\* reads the file under the lock of MM; init_root(), which mounts the root while
\* no other request may start.
Program(m) ==
  CASE m.type = "quick" -> <<>>
    [] m.type \in {"fs", "mm", "exit"} -> <<"fs">>
    [] m.type = "dev" -> <<"dev">>
    [] m.type = "wait" -> <<"wait">>
    [] m.type = "fork" -> fs_fork
    [] m.type = "exec" -> <<"lock_mm", "fs", "unlock_mm">>
    [] m.type = "root" -> <<"deny", "fs", "allow">>

Locked(m, op) == CASE op \in {"lock_par", "unlock_par"} -> m.par
                   [] op \in {"lock_who", "unlock_who"} -> m.who
                   [] op \in {"lock_mm", "unlock_mm"} -> MM

Root == Msg(VFS, "root", VFS, VFS)

\* worker_init(), and init_vfs() dispatching init_root() to the first worker
Init ==
  /\ fp = [f \in Fprocs |-> [worker |-> IF f = VFS THEN 1 ELSE NULL,
                             msg |-> IF f = VFS THEN Root ELSE NoMsg,
                             func |-> f = VFS, pend |-> FALSE,
                             owner |-> NULL, queue |-> <<>>]]
  /\ wk = [w \in Workers |-> [fproc |-> IF w = 1 THEN VFS ELSE NO_TASK,
                              pc |-> "get_work", todo |-> <<>>, msg_in |-> NoMsg,
                              blocked_on |-> "none", recv_from |-> NO_TASK,
                              msg_recv |-> FALSE, msg_driver |-> FALSE]]
  /\ runq = <<1>>
  /\ block_all = FALSE /\ pending = 0 /\ panicked = FALSE
  /\ inbox = {} /\ asked = {} /\ pm = NoMsg /\ orphans = {}
  /\ st \in {s \in [Procs \cup {MM} -> {"run", "free"}] :
               s[MM] = "run" /\ \E p \in Procs : s[p] = "run"}

-----------------------------------------------------------------------------
(* threads and locks *)

Asleep(w) == w \notin {runq[i] : i \in 1 .. Len(runq)}

\* worker_wake(): cond_signal() reaches the thread only if it sleeps on it
worker_wake(w) ==
  runq' = IF wk[w].pc \in {"get_work", "event"} /\ Asleep(w) THEN Append(runq, w)
                                                             ELSE runq

Running(w) == ~panicked /\ runq # <<>> /\ w = Head(runq)

\* The running thread goes on to its next step.
Next_op(w) == [wk[w] EXCEPT !.todo = Tail(@), !.blocked_on = "none"]

\* lock_fproc(): trylock, or wait in the lock's queue
lock_fproc(w, f, then) ==
  IF fp[f].owner = NULL
  THEN /\ fp' = [fp EXCEPT ![f].owner = w]
       /\ wk' = [wk EXCEPT ![w] = then]
       /\ UNCHANGED runq
  ELSE /\ fp' = [fp EXCEPT ![f].queue = Append(@, w)]
       /\ wk' = [wk EXCEPT ![w] = [then EXCEPT !.blocked_on = "lock"]]
       /\ runq' = Tail(runq)

\* unlock_fproc(): the first that waits becomes the owner and can run
Unlocked(f) ==
  IF fp[f].queue = <<>> THEN [fp[f] EXCEPT !.owner = NULL]
  ELSE [fp[f] EXCEPT !.owner = Head(fp[f].queue), !.queue = Tail(@)]

Granted(f, q) == IF fp[f].queue = <<>> THEN q ELSE Append(q, Head(fp[f].queue))

-----------------------------------------------------------------------------
(* handing a request to a worker *)

\* mutant: the last worker is never looked at
FreeWorkers_OffByOne == {w \in 1 .. NrWorkers - 1 : wk[w].fproc = NO_TASK}

FreeWorkers == {w \in Workers : wk[w].fproc = NO_TASK}

\* worker_assign() of the process f, whose entry has become r
worker_assign(f, r) ==
  IF FreeWorkers = {} THEN panicked' = TRUE /\ UNCHANGED <<fp, wk, runq>>
  ELSE LET w == CHOOSE x \in FreeWorkers : \A y \in FreeWorkers : x <= y IN
       /\ fp' = [fp EXCEPT ![f] = [r EXCEPT !.worker = w]]
       /\ wk' = [wk EXCEPT ![w].fproc = f]
       /\ worker_wake(w)
       /\ UNCHANGED panicked

\* worker_dispatch() and worker_try_assign()
worker_dispatch(f, m) ==
  LET r == [fp[f] EXCEPT !.func = TRUE, !.msg = m] IN
  IF ~block_all THEN worker_assign(f, r) /\ UNCHANGED pending
  ELSE /\ fp' = [fp EXCEPT ![f] = [r EXCEPT !.pend = TRUE]]
       /\ pending' = pending + 1
       /\ UNCHANGED <<wk, runq, panicked>>

-----------------------------------------------------------------------------
(* main(): one message, when no thread can run *)

MainReceives == ~panicked /\ runq = <<>>

Receive(m) ==
  /\ MainReceives /\ m \in inbox
  /\ inbox' = inbox \ {m}
  /\ worker_dispatch(Target(m), m)
  /\ UNCHANGED <<block_all, asked, st, pm, orphans>>

\* do_reply() of a file server's answer, which carries the worker's number
do_reply(w) ==
  IF wk[w].fproc # NO_TASK /\ wk[w].blocked_on = "drv" /\ wk[w].recv_from = "fs"
     /\ wk[w].msg_recv
  THEN /\ wk' = [wk EXCEPT ![w].msg_recv = FALSE, ![w].recv_from = NO_TASK]
       /\ worker_wake(w)
  ELSE UNCHANGED <<wk, runq>>

\* mutant: the answer is kept, the worker sleeps on
cdev_reply_NoWake(f) ==
  LET w == fp[f].worker IN
  IF w # NULL /\ wk[w].msg_driver /\ wk[w].blocked_on = "drv"
  THEN wk' = [wk EXCEPT ![w].msg_driver = FALSE] /\ UNCHANGED runq
  ELSE UNCHANGED <<wk, runq>>

\* cdev_reply_generic(), sdev_reply(), signalfd_reply_generic(): the answer
\* carries the process, and goes to the worker the process remembers
cdev_reply(f) ==
  LET w == fp[f].worker IN
  IF w # NULL /\ wk[w].msg_driver /\ wk[w].blocked_on = "drv"
  THEN /\ wk' = [wk EXCEPT ![w].msg_driver = FALSE]
       /\ worker_wake(w)
  ELSE UNCHANGED <<wk, runq>>

Answer(r) ==
  /\ MainReceives /\ r \in asked
  /\ asked' = asked \ {r}
  /\ \/ r.kind = "fs" /\ do_reply(r.worker)
     \/ r.kind = "dev" /\ cdev_reply(r.proc)
  /\ UNCHANGED <<fp, block_all, pending, panicked, inbox, st, pm, orphans>>

\* A notification with no timer due, or a message to a worker without a request:
\* the main loop turns once more.
Ignored == MainReceives /\ UNCHANGED vars

\* The event a worker sleeps for comes (external: a timer, a notification).
Event(w) ==
  /\ MainReceives
  /\ wk[w].pc = "event" /\ wk[w].blocked_on = "wait" /\ Asleep(w)
  /\ worker_wake(w)
  /\ UNCHANGED <<fp, wk, block_all, pending, panicked, env>>

-----------------------------------------------------------------------------
(* worker_main(), from the place where the thread runs again *)

\* worker_get_work() returns: with a request, lock its process; without one the
\* thread ends
GetWork(w) ==
  /\ Running(w) /\ wk[w].pc = "get_work"
  /\ IF wk[w].fproc = NO_TASK
     THEN /\ wk' = [wk EXCEPT ![w].pc = "exit"]
          /\ runq' = Tail(runq) /\ UNCHANGED fp
     ELSE lock_fproc(w, wk[w].fproc, [wk[w] EXCEPT !.pc = "locked"])
  /\ UNCHANGED <<block_all, pending, panicked, env>>

\* the lock of the process is held: take the request and call its function
Func(w) ==
  /\ Running(w) /\ wk[w].pc = "locked"
  /\ LET f == fp[wk[w].fproc] IN
     wk' = [wk EXCEPT ![w].pc = "func", ![w].blocked_on = "none",
                      ![w].msg_in = IF f.func THEN f.msg ELSE NoMsg,
                      ![w].todo = IF f.func THEN Program(f.msg) ELSE <<>>]
  /\ UNCHANGED <<fp, runq, block_all, pending, panicked, env>>

InFunc(w, op) == /\ Running(w) /\ wk[w].pc = "func"
                 /\ wk[w].todo # <<>> /\ Head(wk[w].todo) = op

Lock(w, op) ==
  /\ InFunc(w, op) /\ op \in {"lock_par", "lock_who", "lock_mm"}
  /\ lock_fproc(w, Locked(wk[w].msg_in, op), Next_op(w))
  /\ UNCHANGED <<block_all, pending, panicked, env>>

Unlock(w, op) ==
  /\ InFunc(w, op) /\ op \in {"unlock_par", "unlock_who", "unlock_mm"}
  /\ LET f == Locked(wk[w].msg_in, op) IN
     /\ fp' = [fp EXCEPT ![f] = Unlocked(f)]
     /\ runq' = Granted(f, runq)
  /\ wk' = [wk EXCEPT ![w] = Next_op(w)]
  /\ UNCHANGED <<block_all, pending, panicked, env>>

\* fs_fork(): *child = *parent, all but the lock
Copy(w) ==
  /\ InFunc(w, "copy")
  /\ LET m == wk[w].msg_in IN
     fp' = [fp EXCEPT ![m.who] = [fp[m.par] EXCEPT !.owner = fp[m.who].owner,
                                                   !.queue = fp[m.who].queue]]
  /\ wk' = [wk EXCEPT ![w] = Next_op(w)]
  /\ UNCHANGED <<runq, block_all, pending, panicked, env>>

\* fs_sendrec() to a file server; cdev_recv(), sdev_sendrec() and
\* signalfd_recv() after a request to a driver; a sleep on a wait queue: each
\* ends in worker_wait()
Wait(w, op) ==
  /\ InFunc(w, op)
  /\ \/ /\ op = "fs"
        /\ asked' = asked \cup {[kind |-> "fs", worker |-> w, proc |-> NO_TASK]}
        /\ wk' = [wk EXCEPT ![w] = [Next_op(w) EXCEPT !.pc = "event", !.blocked_on = "drv",
                                      !.msg_recv = TRUE, !.recv_from = "fs"]]
     \/ /\ op = "dev"
        /\ asked' = asked \cup {[kind |-> "dev", worker |-> NULL, proc |-> wk[w].fproc]}
        /\ wk' = [wk EXCEPT ![w] = [Next_op(w) EXCEPT !.pc = "event", !.blocked_on = "drv",
                                      !.msg_driver = TRUE, !.recv_from = "dev"]]
     \/ /\ op = "wait"
        /\ wk' = [wk EXCEPT ![w] = [Next_op(w) EXCEPT !.pc = "event", !.blocked_on = "wait"]]
        /\ UNCHANGED asked
  /\ runq' = Tail(runq)
  /\ UNCHANGED <<fp, block_all, pending, panicked, inbox, st, pm, orphans>>

\* worker_resume() after the wait, and cdev_recv() forgetting the driver
Resume(w) ==
  /\ Running(w) /\ wk[w].pc = "event"
  /\ wk' = [wk EXCEPT ![w].pc = "func", ![w].blocked_on = "none", ![w].recv_from = NO_TASK]
  /\ UNCHANGED <<fp, runq, block_all, pending, panicked, env>>

\* init_root(): worker_allow(FALSE)
Deny(w) ==
  /\ InFunc(w, "deny")
  /\ block_all' = TRUE
  /\ wk' = [wk EXCEPT ![w] = Next_op(w)]
  /\ UNCHANGED <<fp, runq, pending, panicked, env>>

Pending == {f \in Fprocs : fp[f].pend}

\* init_root(): worker_allow(TRUE), one turn of its loop over the processes
\* that wait per step
Allow(w) ==
  /\ InFunc(w, "allow")
  /\ block_all' = FALSE
  /\ IF pending = 0
     THEN /\ wk' = [wk EXCEPT ![w] = Next_op(w)]
          /\ UNCHANGED <<fp, runq, pending, panicked>>
     ELSE \E f \in Pending :
            /\ worker_assign(f, [fp[f] EXCEPT !.pend = FALSE])
            /\ pending' = pending - 1
  /\ UNCHANGED env

\* What the reply does at the caller: a process runs again if it still is in
\* the call; PM goes on, and with it the processes of the request.  init_root()
\* replies to nobody.
Released(m) == CASE m.type = "exit" -> m.who :> "free"
                 [] m.type = "fork" -> m.who :> "run" @@ m.par :> "run"
                 [] m.type = "exec" -> m.who :> "run"
Replied(m) ==
  \/ /\ m.src \in Procs \cup {MM}
     /\ st' = [st EXCEPT ![m.src] = IF @ = "vfs" THEN "run" ELSE @]
     /\ UNCHANGED pm
  \/ /\ m.src = PM
     /\ st' = Released(m) @@ st
     /\ pm' = NoMsg
  \/ m.src \in {VFS, NO_TASK} /\ UNCHANGED <<st, pm>>

\* The end of a turn of worker_main(), and worker_get_work(): while requests
\* wait and may start it would take one of them, else it sleeps
Finish(w) ==
  /\ Running(w) /\ wk[w].pc = "func" /\ wk[w].todo = <<>>
  /\ Replied(wk[w].msg_in)
  /\ LET f == wk[w].fproc IN
     /\ fp' = [fp EXCEPT ![f] = [Unlocked(f) EXCEPT !.func = FALSE, !.worker = NULL,
                                                    !.msg = NoMsg]]
     /\ runq' = Granted(f, Tail(runq))
     /\ wk' = [wk EXCEPT ![w] = [@ EXCEPT !.fproc = NO_TASK, !.pc = "get_work",
                                  !.msg_in = NoMsg, !.blocked_on = "none"]]
     /\ orphans' = orphans \ {f}
  /\ UNCHANGED <<block_all, pending, panicked, inbox, asked>>

-----------------------------------------------------------------------------
(* the callers (external) *)

Call(p, t) ==
  /\ ~panicked /\ st[p] = "run"
  /\ t \in Calls /\ (p = MM <=> t = "mm")
  /\ st' = [st EXCEPT ![p] = "vfs"]
  /\ inbox' = inbox \cup {Msg(p, t, p, p)}
  /\ UNCHANGED <<fp, wk, runq, block_all, pending, panicked, asked, pm, orphans>>

PmAsks(m) == pm = NoMsg /\ pm' = m /\ inbox' = inbox \cup {m}

\* exit_proc(): the process ends, in user mode or inside a call the server has
\* received.
Exit(p) ==
  /\ ~panicked /\ st[p] \in {"run", "vfs"}
  /\ \E q \in Procs \ {p} : st[q] \in {"run", "vfs"}   \* INIT does not exit
  /\ \A m \in inbox : m.src # p
  /\ PmAsks(Msg(PM, "exit", p, p))
  /\ st' = [st EXCEPT ![p] = "dead"]
  /\ orphans' = IF st[p] = "vfs" THEN orphans \cup {p} ELSE orphans
  /\ UNCHANGED <<fp, wk, runq, block_all, pending, panicked, asked>>

\* do_fork() into a slot PM takes to be free
Fork(p, c) ==
  /\ ~panicked /\ st[p] = "run" /\ st[c] = "free"
  /\ PmAsks(Msg(PM, "fork", c, p))
  /\ st' = [st EXCEPT ![p] = "pm", ![c] = "new"]
  /\ UNCHANGED <<fp, wk, runq, block_all, pending, panicked, asked, orphans>>

\* do_exec()
Exec(p) ==
  /\ ~panicked /\ st[p] = "run"
  /\ PmAsks(Msg(PM, "exec", p, p))
  /\ st' = [st EXCEPT ![p] = "pm"]
  /\ UNCHANGED <<fp, wk, runq, block_all, pending, panicked, asked, orphans>>

LockOps == {"lock_par", "lock_who", "lock_mm"}
UnlockOps == {"unlock_par", "unlock_who", "unlock_mm"}

Step(w) ==
  \/ GetWork(w) \/ Func(w) \/ Copy(w) \/ Resume(w)
  \/ \E op \in LockOps : Lock(w, op)
  \/ \E op \in UnlockOps : Unlock(w, op)
  \/ \E op \in {"fs", "dev", "wait"} : Wait(w, op)
  \/ Deny(w) \/ Allow(w) \/ Finish(w)

Next ==
  \/ \E m \in inbox : Receive(m)
  \/ \E r \in asked : Answer(r)
  \/ Ignored
  \/ \E w \in Workers : Event(w) \/ Step(w)
  \/ \E p \in Procs \cup {MM}, t \in CallKinds : Call(p, t)
  \/ \E p \in Procs : Exit(p) \/ Exec(p) \/ \E c \in Procs : Fork(p, c)

Spec == Init /\ [][Next]_vars

\* The kernel queues senders in order, so a message is received at some turn of
\* the main loop; the servers, the drivers and the writers on the other side
\* answer; a thread that can run does.
Fairness ==
  /\ \A f \in Procs \cup {MM, PM} : SF_vars(\E m \in inbox : m.src = f /\ Receive(m))
  /\ WF_vars(\E w \in Workers : Step(w))
  /\ \A w \in Workers : SF_vars(Event(w) \/ \E r \in asked : r.worker = w /\ Answer(r))
  /\ \A p \in Procs : SF_vars(\E r \in asked : r.proc = p /\ Answer(r))

LiveSpec == Spec /\ Fairness

-----------------------------------------------------------------------------
(* properties *)

\* The tables hold what their fields may hold; no worker thread has left its
\* loop, which worker_get_work() allows if a worker is woken without a request.
TypeOK ==
  /\ \A f \in Fprocs : /\ fp[f].worker \in Workers \cup {NULL}
                       /\ fp[f].owner \in Workers \cup {NULL}
                       /\ fp[f].queue \in Seq(Workers)
  /\ \A w \in Workers : /\ wk[w].fproc \in Fprocs \cup {NO_TASK}
                        /\ wk[w].pc \in {"get_work", "locked", "func", "event"}
  /\ runq \in Seq(Workers) /\ pending \in 0 .. Cardinality(Fprocs)

\* A driver's answer names the process, so it finds the worker that waits only
\* if the process remembers the worker that serves it: fproc->worker and
\* worker->fproc agree, across forks that copy the entry of another process.
WorkerOfProc ==
  \A w \in Workers : wk[w].fproc # NO_TASK => fp[wk[w].fproc].worker = w

\* A call in progress is in exactly one place: not yet received, put off while
\* the root is mounted, or with one worker.
CallHeldOnce ==
  \A p \in Procs \cup {MM} : st[p] = "vfs" =>
    Cardinality({m \in inbox : m.src = p})
      + (IF fp[p].pend THEN 1 ELSE 0)
      + Cardinality({w \in Workers : wk[w].fproc = p}) = 1

\* A process that dies inside a call leaves its worker behind, with the lock of
\* the slot.  fs_fork() takes that lock, so no new process runs in the slot
\* before the old call has ended.
SlotNotReused ==
  \A p \in orphans : st[p] \in {"dead", "free", "new"}

\* Requests wait only while block_all is set, outside the loop of
\* worker_allow(); so the branch of worker_get_work() that takes a waiting
\* request, and writes through the fproc of the main loop, is never entered.
PendingOnlyBlocked ==
  /\ pending = Cardinality(Pending)
  /\ pending > 0 /\ ~block_all =>
       runq # <<>> /\ wk[Head(runq)].pc = "func" /\ Head(wk[Head(runq)].todo) = "allow"

\* With a worker for every process that can call, worker_assign() finds one:
\* no call holds two workers, and calls left behind hold only their slot's.
EnoughWorkers == ~panicked

\* Every call of a process ends, in a reply or with the process, and PM gets its
\* answer; a fork into a slot whose last process died inside a call waits until
\* that call ends, so it takes the event of that call.
CallsAnswered ==
  /\ \A p \in Procs \cup {MM} : []<>(st[p] # "vfs")
  /\ []<>(pm = NoMsg)
=============================================================================
