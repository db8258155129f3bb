----------------------------- MODULE MCKernel -------------------------------
(***************************************************************************)
(* The parts of the kernel around its message passing, on small instances: *)
(* the signals it raises for PM, the memory it asks MM for, the table of   *)
(* asynchronous messages, the locks of the processes on several CPUs, the  *)
(* run queues, the clock with its timers, and the interrupt lines.  They   *)
(* use different fields of the kernel's structures, so a behaviour is      *)
(* about one of them, part, which the initial state chooses; the variables *)
(* of the others are not used, and the interrupt lines rest.               *)
(***************************************************************************)
EXTENDS Irq, Integers

CONSTANTS p1, p2, p3, NONE, ANY

VARIABLES
  part,
  state, pc, target, notified,
  sig_pending, raised, ksig, pmflags, msgset, sigset, retval,
  flags, mmrequest, next_request, type, result, call, fresh, kmem, faults, replies, requestor,
  queue, active,
  async_msg, first_slot, next_slot, async_table, async_len, async_pending, receiving, alive,
  m, got,
  sendto, recvfrom, q_sending, lock, op, peer, at, owes,
  run_queue, bitmap, deadline, counter, proc_ptr, left,
  jiffies, timer_list, next_timeout, alarm, expire_time, list, expiring, timestamp

signalVars == <<sig_pending, raised, ksig, pmflags, msgset, sigset, retval>>
memoryVars ==
  <<flags, mmrequest, next_request, type, result, call, fresh, kmem, faults, replies,
    requestor, queue, active>>
asyncVars ==
  <<async_msg, first_slot, next_slot, async_table, async_len, async_pending, receiving, alive,
    m, got>>
smpVars == <<sendto, recvfrom, q_sending, lock, op, peer, at, owes>>
runVars == <<run_queue, bitmap, deadline, counter, proc_ptr, left>>
timerVars ==
  <<jiffies, timer_list, next_timeout, alarm, expire_time, list, expiring, timestamp>>
kernelVars ==
  <<part, vars, state, pc, target, notified, signalVars, memoryVars, asyncVars, smpVars,
    runVars, timerVars>>

-----------------------------------------------------------------------------
(* The parts.  The requests to MM have three instances: two processes, two   *)
(* that PM may destroy while they wait, and a traced one whose pages VFS may *)
(* fail to read while MM has memory for one request to it.  The locks have   *)
(* two: processes that send to each other, and clients of two servers.  The  *)
(* clock starts again after three ticks, and one of two tasks has two timers *)
(* of which one is periodic.  Of the two interrupt lines, one is shared by   *)
(* two drivers and the other is triggered by an edge.                        *)

Signal == INSTANCE KernelSignal WITH
  Procs <- {1, 2, 3}, Signals <- {1, 2}, SIGINT <- 2, Alive <- {1, 2}, MaxSignals <- 4
Memory == INSTANCE MMRequest WITH
  Procs <- {p1, p2}, NULL <- NONE, MaxPages <- 1, MaxQueue <- 2, VfsFails <- FALSE,
  Kills <- FALSE, Traced <- {}
Dying == INSTANCE MMRequest WITH
  Procs <- {p1, p2}, NULL <- NONE, MaxPages <- 0, MaxQueue <- 2, VfsFails <- FALSE,
  Kills <- TRUE, Traced <- {}
Failing == INSTANCE MMRequest WITH
  Procs <- {p1}, NULL <- NONE, MaxPages <- 1, MaxQueue <- 1, VfsFails <- TRUE,
  Kills <- FALSE, Traced <- {p1}
Async == INSTANCE AsyncSend WITH
  Dests <- {p1, p2}, Ids <- {1, 2}, ASYNC_SIZE <- 3, Mortal <- {p2}, Preempted <- FALSE
Peers == INSTANCE SmpSend WITH
  Procs <- {p1, p2}, NO_TASK <- NONE, Servers <- {}, Free <- TRUE, NR_CPUS <- 2
Clients == INSTANCE SmpSend WITH
  Procs <- {p1, p2, p3}, NO_TASK <- NONE, Servers <- {p2, p3}, Free <- FALSE, NR_CPUS <- 3
Run == INSTANCE Sched WITH
  Procs <- {p1, p2, p3}, CPUs <- {1, 2}, bsp <- 1, idle <- NONE, Hogs <- {}, Tasks <- {p1},
  rr_interval_ms <- 6, TickMs <- 10, USER_PRIO <- 2, TASK_PRIO <- 1, Grain <- 5
Clock == INSTANCE SysTimer WITH
  Tasks <- {1, 2}, Timers <- {1, 2, 3}, Owner <- <<1, 1, 2>>, Periodic <- {2},
  Delays <- {1, 2}, MAX_TICKS <- 3

TwoLines == {1, 2}
EdgeLine == {2}
ThreeHooks == {1, 2, 3}
LineOfHook == <<1, 1, 2>>
DriverOfHook == <<1, 2, 2>>
Stopping == {2, 3}
ByPolicy == {3}
FourDevices == {1, 2, 3, 4}
HookOfDevice == <<1, 2, 3, 1>>

Unused == "unused"
SignalRests ==
  /\ sig_pending = Unused /\ raised = Unused /\ ksig = Unused /\ pmflags = Unused
  /\ msgset = Unused /\ sigset = Unused /\ retval = Unused
MemoryRests ==
  /\ flags = Unused /\ mmrequest = Unused /\ next_request = Unused /\ type = Unused
  /\ result = Unused /\ call = Unused /\ fresh = Unused /\ kmem = Unused /\ faults = Unused
  /\ replies = Unused /\ requestor = Unused /\ queue = Unused /\ active = Unused
AsyncRests ==
  /\ async_msg = Unused /\ first_slot = Unused /\ next_slot = Unused /\ async_table = Unused
  /\ async_len = Unused /\ async_pending = Unused /\ receiving = Unused /\ alive = Unused
  /\ m = Unused /\ got = Unused
SmpRests ==
  /\ sendto = Unused /\ recvfrom = Unused /\ q_sending = Unused /\ lock = Unused
  /\ op = Unused /\ peer = Unused /\ at = Unused /\ owes = Unused
RunRests ==
  /\ run_queue = Unused /\ bitmap = Unused /\ deadline = Unused /\ counter = Unused
  /\ proc_ptr = Unused /\ left = Unused
TimerRests ==
  /\ jiffies = Unused /\ timer_list = Unused /\ next_timeout = Unused /\ alarm = Unused
  /\ expire_time = Unused /\ list = Unused /\ expiring = Unused /\ timestamp = Unused

KernelInit ==
  /\ Init
  /\ \/ /\ part = "signal" /\ Signal!Init /\ MemoryRests /\ AsyncRests /\ SmpRests /\ RunRests
        /\ TimerRests
     \/ /\ part = "memory" /\ Memory!Init /\ notified = Unused /\ SignalRests /\ AsyncRests
        /\ SmpRests /\ RunRests /\ TimerRests
     \/ /\ part = "dying" /\ Dying!Init /\ notified = Unused /\ SignalRests /\ AsyncRests
        /\ SmpRests /\ RunRests /\ TimerRests
     \/ /\ part = "failing" /\ Failing!Init /\ notified = Unused /\ SignalRests /\ AsyncRests
        /\ SmpRests /\ RunRests /\ TimerRests
     \/ /\ part = "async" /\ Async!Init /\ state = Unused /\ target = Unused
        /\ notified = Unused /\ SignalRests /\ MemoryRests /\ SmpRests /\ RunRests
        /\ TimerRests
     \/ /\ part = "peers" /\ Peers!Init /\ target = Unused /\ notified = Unused /\ SignalRests
        /\ MemoryRests /\ AsyncRests /\ RunRests /\ TimerRests
     \/ /\ part = "clients" /\ Clients!Init /\ target = Unused /\ notified = Unused
        /\ SignalRests /\ MemoryRests /\ AsyncRests /\ RunRests /\ TimerRests
     \/ /\ part = "run" /\ Run!Init /\ target = Unused /\ notified = Unused /\ SignalRests
        /\ MemoryRests /\ AsyncRests /\ SmpRests /\ TimerRests
     \/ /\ part = "timer" /\ Clock!Init /\ state = Unused /\ target = Unused /\ SignalRests
        /\ MemoryRests /\ AsyncRests /\ SmpRests /\ RunRests
     \/ /\ part = "irq" /\ state = Unused /\ pc = Unused /\ target = Unused
        /\ notified = Unused /\ SignalRests /\ MemoryRests /\ AsyncRests /\ SmpRests
        /\ RunRests /\ TimerRests

SignalStep ==
  /\ part = "signal" /\ Signal!Next
  /\ UNCHANGED <<part, vars, memoryVars, asyncVars, smpVars, runVars, timerVars>>
MemoryStep ==
  /\ part = "memory" /\ Memory!Next
  /\ UNCHANGED <<part, vars, notified, signalVars, asyncVars, smpVars, runVars, timerVars>>
DyingStep ==
  /\ part = "dying" /\ Dying!Next
  /\ UNCHANGED <<part, vars, notified, signalVars, asyncVars, smpVars, runVars, timerVars>>
FailingStep ==
  /\ part = "failing" /\ Failing!Next
  /\ UNCHANGED <<part, vars, notified, signalVars, asyncVars, smpVars, runVars, timerVars>>
AsyncStep ==
  /\ part = "async" /\ Async!Next
  /\ UNCHANGED <<part, vars, state, target, notified, signalVars, memoryVars, smpVars,
                 runVars, timerVars>>
PeersStep ==
  /\ part = "peers" /\ Peers!Next
  /\ UNCHANGED <<part, vars, target, notified, signalVars, memoryVars, asyncVars, runVars,
                 timerVars>>
ClientsStep ==
  /\ part = "clients" /\ Clients!Next
  /\ UNCHANGED <<part, vars, target, notified, signalVars, memoryVars, asyncVars, runVars,
                 timerVars>>
RunStep ==
  /\ part = "run" /\ Run!Next
  /\ UNCHANGED <<part, vars, target, notified, signalVars, memoryVars, asyncVars, smpVars,
                 timerVars>>
ClockStep ==
  /\ part = "timer" /\ Clock!Next
  /\ UNCHANGED <<part, vars, state, target, signalVars, memoryVars, asyncVars, smpVars,
                 runVars>>
IrqStep ==
  /\ part = "irq" /\ Next
  /\ UNCHANGED <<part, state, pc, target, notified, signalVars, memoryVars, asyncVars,
                 smpVars, runVars, timerVars>>

KernelNext ==
  \/ SignalStep
  \/ MemoryStep
  \/ DyingStep
  \/ FailingStep
  \/ AsyncStep
  \/ PeersStep
  \/ ClientsStep
  \/ RunStep
  \/ ClockStep
  \/ IrqStep

KernelSpec == KernelInit /\ [][KernelNext]_kernelVars

-----------------------------------------------------------------------------
(* Properties *)

\* The structures are well formed whenever another process or CPU looks at
\* them: types; a request for memory is in the hands of one party (list, MM,
\* VFS queue, answer); the queue of a process whose lock is free holds the
\* processes blocked sending to it, each once; the timer lists hold what is set,
\* in the order in which it expires.
WellFormed ==
  /\ part = "signal" => Signal!TypeOK
  /\ part = "memory" => Memory!TypeOK /\ Memory!HeldOnce
  /\ part = "dying" => Dying!HeldOnce
  /\ part = "async" => Async!TypeOK
  /\ part = "peers" => Peers!TypeOK /\ Peers!LockedQueueSound
  /\ part = "clients" => Clients!TypeOK /\ Clients!LockedQueueSound
  /\ part = "run" => Run!TypeOK
  /\ part = "timer" => Clock!ListsExact

\* A server is told once and then looks for itself.  Whatever waits for it is
\* announced: signals pending for PM, requests in the list of MM, MM's queue
\* of requests to VFS, asynchronous messages for their destination,
\* and the timers of a task, whose one alarm rings no later than the first.
Announced ==
  /\ part = "signal" => Signal!PendingIsMarked /\ Signal!MarkedIsAnnounced
  /\ part = "memory" => Memory!ListIsAnnounced /\ Memory!VfsBusy
  /\ part = "dying" => Dying!VfsBusy
  /\ part = "failing" => Failing!ListIsAnnounced /\ Failing!VfsBusy
  /\ part = "async" => Async!NotMissed
  /\ part = "timer" => Clock!WillRing

\* A process that was stopped, or that can run, is known to who will let it go
\* on: PM's loop, MM or VFS, the partner of a message, a run queue or a CPU.
NotForgotten ==
  /\ part = "signal" => Signal!StoppedIsHandled
  /\ part = "memory" => Memory!NotForgotten
  /\ part = "peers" => Peers!NoLostMeeting
  /\ part = "clients" => Clients!NoLostMeeting
  /\ part = "run" => Run!NotForgotten

\* A decision is made on an answer to the question asked: endksig on the
\* verdict about this target, a repeated system call on the result of its own
\* memory request, and only while a call is unfinished.
AnswerIsFresh ==
  /\ part = "signal" => Signal!VerdictIsFresh
  /\ part = "memory" => Memory!ResumeIsReal /\ Memory!ResultIsFresh

\* CPUs do not spin in a circle for locks that the next one holds, and none goes
\* back to user mode with a process that is stopped or has no time left.
CpusGoOn ==
  /\ part = "clients" => Clients!NoSpinCycle
  /\ part = "run" => Run!ResumesRunnable

\* A process stopped for a signal becomes runnable only when nothing is left to
\* handle: no signal is pending and PM is not in the middle of its set.
RunsWithoutSignals == [][part = "signal" => Signal!RunsWithoutSignals]_kernelVars

\* Whatever the order in which the slots of the async table are filled, read,
\* compacted and reused, the table implements one queue per destination.
QueueSpec ==
  /\ part = "async" => Async!Queue!Init
  /\ [][part = "async" => [Async!Queue!Next]_(Async!Queue!vars)]_kernelVars
=============================================================================
