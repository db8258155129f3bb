-------------------------------- MODULE Sched --------------------------------
(***************************************************************************)
(* The scheduler: run queues and bitmaps per CPU, quanta, and deadlines    *)
(* that order the processes of a queue.  All processes have the policy     *)
(* SCHED_NORMAL that init_proc() gives them, so each CPU has one queue.    *)
(* Times are in milliseconds and a deadline is kept relative to the        *)
(* present: less than zero is expired, and by how much is never asked.     *)
(* Interrupts of devices go to the boot CPU, which enables them; an idle   *)
(* CPU other than that one has its timer stopped.                          *)
(***************************************************************************)
EXTENDS Integers, Sequences, SequencesExt, FiniteSets

CONSTANTS Procs, CPUs, bsp,
          idle,          \* idle_proc
          Hogs,          \* the processes that only compute
          Tasks,         \* the processes with TASK_PRIO
          rr_interval_ms, USER_PRIO, TASK_PRIO,
          TickMs,        \* the period of the clock
          Grain          \* the unit in which time is charged

VARIABLES
  state,        \* the PST_ bits of a process
  run_queue,    \* of a CPU, newest first
  bitmap,       \* of a CPU: the bit of its queue
  deadline, counter,
  proc_ptr,     \* the process that a CPU runs
  pc,           \* "user", "pick" in switch_to_user(), or "halt" in idle()
  left          \* milliseconds until the next clock interrupt

vars == <<state, run_queue, bitmap, deadline, counter, proc_ptr, pc, left>>

\* init_proc() and finish_bsp_booting(): the boot CPU queues everybody
Init ==
  /\ state = [p \in Procs |-> {}]
  /\ run_queue = [c \in CPUs |-> IF c = bsp THEN SetToSeq(Procs) ELSE <<>>]
  /\ bitmap = [c \in CPUs |-> c = bsp]
  /\ deadline = [p \in Procs |->
       rr_interval_ms * (IF p \in Tasks THEN TASK_PRIO ELSE USER_PRIO)]
  /\ counter = [p \in Procs |-> rr_interval_ms]
  /\ proc_ptr = [c \in CPUs |-> idle] /\ pc = [c \in CPUs |-> "pick"]
  /\ left = TickMs

Prio(p) == IF p \in Tasks THEN TASK_PRIO ELSE USER_PRIO

Runnable(p) == state[p] = {}

-----------------------------------------------------------------------------
(* The queues: each operator gives the queues after it.                    *)

enqueue_proc(c, p) ==
  /\ run_queue' = [run_queue EXCEPT ![c] = <<p>> \o @]
  /\ bitmap' = [bitmap EXCEPT ![c] = TRUE]

\* list_del() takes the process from whatever list it is on, and the test that
\* follows looks at the queue of this CPU
dequeue_proc(c, p) ==
  /\ run_queue' = [d \in CPUs |-> Remove(run_queue[d], p)]
  /\ bitmap' = [bitmap EXCEPT ![c] = @ /\ Remove(run_queue[c], p) # <<>>]

PST_SET(c, p, f) ==
  /\ state' = [state EXCEPT ![p] = @ \cup {f}]
  /\ IF Runnable(p) THEN dequeue_proc(c, p) ELSE UNCHANGED <<run_queue, bitmap>>

\* mutant: queued although other bits are still set
PST_UNSET_Always(c, p, f) ==
  /\ state' = [state EXCEPT ![p] = @ \ {f}]
  /\ IF f \in state[p] THEN enqueue_proc(c, p)
     ELSE UNCHANGED <<run_queue, bitmap>>

PST_UNSET(c, p, f) ==
  /\ state' = [state EXCEPT ![p] = @ \ {f}]
  /\ IF state[p] = {f} THEN enqueue_proc(c, p)
     ELSE UNCHANGED <<run_queue, bitmap>>

\* sched_clock() and proc_no_time(): the deadline starts again from now
Renewed(p) == rr_interval_ms * Prio(p)

-----------------------------------------------------------------------------
(* switch_to_user()                                                         *)

Expired(q) == {i \in DOMAIN q : deadline[q[i]] < 0}

\* pick_proc(): the first of the queue whose deadline has passed, or else the
\* first of those with the least deadline
Picked(q) ==
  IF Expired(q) # {} THEN q[CHOOSE i \in Expired(q) : \A j \in Expired(q) : i <= j]
  ELSE q[CHOOSE i \in DOMAIN q : \A j \in DOMAIN q :
           \/ deadline[q[i]] < deadline[q[j]]
           \/ deadline[q[i]] = deadline[q[j]] /\ i <= j]

\* nothing to run: idle() halts the CPU
PickIdle(c) ==
  /\ pc[c] = "pick"
  /\ ~bitmap[c] \/ run_queue[c] = <<>>
  /\ proc_ptr' = [proc_ptr EXCEPT ![c] = idle]
  /\ pc' = [pc EXCEPT ![c] = "halt"]
  /\ UNCHANGED <<state, run_queue, bitmap, deadline, counter, left>>

\* a process with time left is resumed
PickRuns(c) ==
  /\ pc[c] = "pick" /\ bitmap[c] /\ run_queue[c] # <<>>
  /\ LET p == Picked(run_queue[c]) IN
     /\ counter[p] > 0
     /\ dequeue_proc(c, p)
     /\ proc_ptr' = [proc_ptr EXCEPT ![c] = p]
  /\ pc' = [pc EXCEPT ![c] = "user"]
  /\ UNCHANGED <<state, deadline, counter, left>>

\* proc_no_time(): PST_NO_QUANTUM is set and taken back, which puts the process
\* at the head of the queue; then another one is picked
NoTime(c, p) ==
  /\ run_queue' = [run_queue EXCEPT ![c] = <<p>> \o Remove(@, p)]
  /\ bitmap' = [bitmap EXCEPT ![c] = TRUE]
  /\ counter' = [counter EXCEPT ![p] = rr_interval_ms]
  /\ deadline' = [deadline EXCEPT ![p] = Renewed(p)]

\* a process that was picked with its time used up
PickSpent(c) ==
  /\ pc[c] = "pick" /\ bitmap[c] /\ run_queue[c] # <<>>
  /\ LET p == Picked(run_queue[c]) IN
     /\ counter[p] = 0
     /\ NoTime(c, p)
     /\ proc_ptr' = [proc_ptr EXCEPT ![c] = p]
  /\ UNCHANGED <<state, pc, left>>

\* mutant: the state is not looked at
Return_Unchecked(c) ==
  LET p == proc_ptr[c] IN
  /\ pc[c] = "return"
  /\ \/ /\ counter[p] > 0 /\ pc' = [pc EXCEPT ![c] = "user"]
        /\ UNCHANGED <<run_queue, bitmap, deadline, counter>>
     \/ /\ counter[p] = 0 /\ pc' = [pc EXCEPT ![c] = "pick"]
        /\ NoTime(c, p)
  /\ UNCHANGED <<state, proc_ptr, left>>

\* the process that entered the kernel is resumed if it still can run
Return(c) ==
  LET p == proc_ptr[c] IN
  /\ pc[c] = "return"
  /\ \/ /\ ~Runnable(p) /\ pc' = [pc EXCEPT ![c] = "pick"]
        /\ UNCHANGED <<run_queue, bitmap, deadline, counter>>
     \/ /\ Runnable(p) /\ counter[p] > 0 /\ pc' = [pc EXCEPT ![c] = "user"]
        /\ UNCHANGED <<run_queue, bitmap, deadline, counter>>
     \/ /\ Runnable(p) /\ counter[p] = 0 /\ pc' = [pc EXCEPT ![c] = "pick"]
        /\ NoTime(c, p)
  /\ UNCHANGED <<state, proc_ptr, left>>

-----------------------------------------------------------------------------
(* Entries to the kernel                                                    *)

\* stop_context(): the running process pays for the t milliseconds since
Enter(c, t) ==
  LET p == proc_ptr[c] IN
  /\ pc[c] = "user" /\ t % Grain = 0
  /\ counter' = [counter EXCEPT ![p] = IF t < @ THEN @ - t ELSE 0]
  /\ pc' = [pc EXCEPT ![c] = "return"]
  /\ UNCHANGED proc_ptr

\* a system call by the running process, before the next tick: it blocks, or
\* the kernel signals it or another process, or it makes another one runnable
Call(c, t) ==
  LET p == proc_ptr[c] IN
  /\ t < left /\ p \notin Hogs /\ Enter(c, t) /\ left' = left - t
  /\ \/ PST_SET(c, p, "RECEIVING")
     \/ \E q \in Procs : PST_SET(c, q, "SIGNALED")
     \/ \E q \in Procs \ {p} : \E f \in state[q] : PST_UNSET(c, q, f)
  /\ UNCHANGED deadline

\* the interrupt of a device makes its driver runnable; a halted CPU wakes up
\* to pick again
Irq(t, q) ==
  /\ t < left /\ left' = left - t
  /\ \/ Enter(bsp, t)
     \/ /\ pc[bsp] = "halt" /\ t % Grain = 0
        /\ pc' = [pc EXCEPT ![bsp] = "pick"] /\ UNCHANGED <<counter, proc_ptr>>
  /\ "RECEIVING" \in state[q] /\ PST_UNSET(bsp, q, "RECEIVING")
  /\ UNCHANGED deadline

\* one period nearer; how long ago a deadline passed does not matter
Later(d) == IF d - TickMs < 0 THEN -1 ELSE d - TickMs

\* clock_handler() on the boot CPU: jiffies moves on for all processes, and
\* sched_clock() gives the running one a new deadline
Tick ==
  /\ \/ /\ Enter(bsp, left)
        /\ deadline' = [q \in Procs |->
             IF q = proc_ptr[bsp] THEN Renewed(q) ELSE Later(deadline[q])]
     \/ /\ pc[bsp] = "halt"
        /\ deadline' = [q \in Procs |-> Later(deadline[q])]
        /\ pc' = [pc EXCEPT ![bsp] = "pick"] /\ UNCHANGED <<counter, proc_ptr>>
  /\ left' = TickMs
  /\ UNCHANGED <<state, run_queue, bitmap>>

switch_to_user(c) == Return(c) \/ PickIdle(c) \/ PickRuns(c) \/ PickSpent(c)

Next ==
  \/ \E c \in CPUs : switch_to_user(c) \/ \E t \in 0 .. TickMs - 1 : Call(c, t)
  \/ \E t \in 0 .. TickMs - 1, q \in Procs : Irq(t, q)
  \/ Tick

Spec == Init /\ [][Next]_vars

-----------------------------------------------------------------------------
TypeOK ==
  /\ state \in [Procs -> SUBSET {"RECEIVING", "SIGNALED"}]
  /\ run_queue \in [CPUs -> Seq(Procs)] /\ bitmap \in [CPUs -> BOOLEAN]
  /\ deadline \in [Procs -> -1 .. rr_interval_ms * (USER_PRIO + TASK_PRIO)]
  /\ counter \in [Procs -> 0 .. rr_interval_ms]
  /\ proc_ptr \in [CPUs -> Procs \cup {idle}]
  /\ pc \in [CPUs -> {"user", "return", "pick", "halt"}]
  /\ left \in 1 .. TickMs

Places(p) == {c \in CPUs : p \in Range(run_queue[c]) /\ bitmap[c]}

Running(c, p) == pc[c] \in {"user", "return"} /\ proc_ptr[c] = p

\* PST_SET, PST_UNSET, pick_proc() and proc_no_time() move processes between
\* the queues and the CPUs one link at a time.  A process that can run is in
\* exactly one place: on one CPU, or once in one queue whose bit is set; a
\* process that cannot run is in no queue.
NotForgotten == \A p \in Procs :
  /\ Runnable(p) =>
       Cardinality(Places(p)) + Cardinality({c \in CPUs : Running(c, p)}) = 1
  /\ ~Runnable(p) => \A c \in CPUs : p \notin Range(run_queue[c])
  /\ \A c \in CPUs : Cardinality({i \in DOMAIN run_queue[c] : run_queue[c][i] = p}) <= 1

\* switch_to_user() never goes back to user mode with a process that is stopped
\* or that has no time left, and idles only when its queue is empty.
ResumesRunnable == \A c \in CPUs :
  /\ pc[c] = "user" => Runnable(proc_ptr[c]) /\ counter[proc_ptr[c]] > 0
  /\ pc[c] = "halt" => run_queue[c] = <<>>

\* p can run and no CPU runs it.
Passed(p) == Runnable(p) /\ ~\E c \in CPUs : pc[c] = "user" /\ proc_ptr[c] = p
=============================================================================
