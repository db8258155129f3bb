------------------------------ MODULE MCLive --------------------------------
(***************************************************************************)
(* What must happen in the end, on the smallest instances in which it      *)
(* could fail to.  A behaviour is about one part, which the initial state  *)
(* chooses; the variables of the others are not used.                      *)
(***************************************************************************)
EXTENDS Integers, Sequences, FiniteSets

CONSTANTS PM, FS, MM, ANYONE, NONE, b1, i1

VARIABLES
  part,
  recvfrom, int_pending, async_pending, async_table, faults, retval, state, pc, target, call,
  queue, got, run_queue, readers, runq, files, ready, events, timer, expired,
  pst, pf, sendto, q_sending, send_msg, deliver_msg, notify_pending,
  sig_pending, raised, ksig, notified, pmflags, msgset, sigset,
  flags, mmrequest, next_request, type, result, fresh, kmem, replies, requestor, active,
  async_msg, first_slot, next_slot, async_len, receiving, alive, m,
  bitmap, deadline, counter, proc_ptr, left,
  current_thread, held, writer, reader_queue, writer_queue,
  handler, active_ids, masked, latch, asserted, hook,
  data, start, i_size, rd_wait, wr_wait, open, writers, freed, dead, rtot, wtot,
  watch, chan, i, found, entries, qproc, triggered, timed_out, woken,
  rdllist, txlist, hooked, reg, enabled, wq, flock, flockq, mtx, mtxq, notes, answer, cur,
  self, file,
  proc, vfs_up, forks, kills,
  msg, async, todo, work, asleep, in_pm, in_fs, made

ipcVars == <<pst, pf, sendto, q_sending, send_msg, deliver_msg, notify_pending>>
signalVars == <<sig_pending, raised, ksig, notified, pmflags, msgset, sigset>>
memoryVars ==
  <<flags, mmrequest, next_request, type, result, fresh, kmem, replies, requestor, active>>
asyncVars == <<async_msg, first_slot, next_slot, async_len, receiving, alive, m>>
runVars == <<bitmap, deadline, counter, proc_ptr, left>>
coroVars == <<current_thread, held, writer, reader_queue, writer_queue>>
irqVars == <<handler, active_ids, masked, latch, asserted, hook>>
pipeVars == <<data, start, i_size, rd_wait, wr_wait, open, writers, freed, dead, rtot, wtot>>
pollVars == <<watch, chan, i, found, entries, qproc, triggered, timed_out, woken>>
epollVars ==
  <<rdllist, txlist, hooked, reg, enabled, wq, flock, flockq, mtx, mtxq, notes, answer, cur,
    self, file>>
tableVars == <<proc, vfs_up, forks, kills>>
talkVars == <<msg, async, todo, work, asleep, in_pm, in_fs, made>>
liveVars ==
  <<part, recvfrom, int_pending, async_pending, async_table, faults, retval, state, pc,
    target, call, queue, got, run_queue, readers, runq, files, ready, events, timer, expired,
    ipcVars, signalVars, memoryVars, asyncVars, runVars, coroVars, irqVars, pipeVars,
    pollVars, epollVars, tableVars, talkVars>>

-----------------------------------------------------------------------------
(* The instances *)

Ipc == INSTANCE KernelIPC WITH
  N <- 3, MM <- 3, Bodies <- {b1}, Ints <- {i1}, BlockSenders <- {1, 2}, NbSenders <- {},
  AsyncSenders <- {}, Notifiers <- {}, Faulters <- {1}, Servers <- {3}, Inhibited <- {3},
  BadSend <- {}, BadRecv <- {}, MaxAsync <- 1
Signal == INSTANCE KernelSignal WITH
  Procs <- {1, 2}, Signals <- {1, 2}, SIGINT <- 2, Alive <- {1, 2}, MaxSignals <- 3
Memory == INSTANCE MMRequest WITH
  Procs <- {1, 2}, NULL <- NONE, MaxPages <- 1, MaxQueue <- 2, VfsFails <- FALSE,
  Kills <- FALSE, Traced <- {}
Async == INSTANCE AsyncSend WITH
  Dests <- {1, 2}, Ids <- {1, 2}, ASYNC_SIZE <- 2, Mortal <- {}, Preempted <- FALSE
Run == INSTANCE Sched WITH
  Procs <- {1, 2, 3}, CPUs <- {1}, bsp <- 1, idle <- NONE, Hogs <- {1, 2},
  Tasks <- {1, 2, 3}, rr_interval_ms <- 6, TickMs <- 10, USER_PRIO <- 7, TASK_PRIO <- 3,
  Grain <- 5
Lock == INSTANCE Coro WITH NrThreads <- 3
Interrupts == INSTANCE Irq WITH
  Lines <- {1, 2}, Edge <- {2}, Hooks <- {1, 2, 3}, LineOf <- <<1, 1, 2>>,
  DriverOf <- <<1, 2, 2>>, Reenable <- {3}, Devices <- {1, 2, 3}, HookOf <- <<1, 2, 3>>,
  MayStop <- {}
Pipe == INSTANCE VfsPipe WITH
  Readers <- {1, 2}, Writers <- {3}, PIPE_BUF <- 2, MaxLen <- 3, Faults <- FALSE,
  NonBlock <- {}
TimedPoll == INSTANCE VfsPoll WITH
  N <- 2, Local <- {2}, MaxEntries <- 2, Select <- FALSE, Timeout <- "some", MaxEvents <- 3
Poll == INSTANCE VfsPoll WITH
  N <- 2, Local <- {2}, MaxEntries <- 2, Select <- FALSE, Timeout <- "none", MaxEvents <- 3
Epoll == INSTANCE VfsEpoll WITH
  Procs <- {1}, Files <- {1, 2}, Devices <- {2}, Edge <- {}, OneShot <- {}, MaxEv <- 1,
  Timed <- FALSE, Ctl <- FALSE, Closing <- FALSE, MaxEvents <- 3, None <- NONE
Table == INSTANCE PMProc WITH
  NR_PROCS <- 3, NO_STATUS <- NONE, MaxForks <- 3, MaxKills <- 0, Groups <- FALSE
Talk == INSTANCE PmVfs WITH
  ANY <- ANYONE,
  Procs <- {1, 2, 3}, Born <- {1, 2}, Calls <- {"fork", "exit", "exec", "signalfd", "kill"},
  MaxCalls <- 3
Alone == INSTANCE PmVfs WITH
  ANY <- ANYONE,
  Procs <- {1}, Born <- {1}, Calls <- {"setid", "exec", "signalfd", "kill"}, MaxCalls <- 8

Unused == "unused"
IpcRests ==
  /\ pst = Unused /\ pf = Unused /\ sendto = Unused /\ q_sending = Unused /\ send_msg = Unused
  /\ deliver_msg = Unused /\ notify_pending = Unused
SignalRests ==
  /\ sig_pending = Unused /\ raised = Unused /\ ksig = Unused /\ notified = Unused
  /\ pmflags = Unused /\ msgset = Unused /\ sigset = Unused
MemoryRests ==
  /\ flags = Unused /\ mmrequest = Unused /\ next_request = Unused /\ type = Unused
  /\ result = Unused /\ fresh = Unused /\ kmem = Unused /\ replies = Unused
  /\ requestor = Unused /\ active = Unused
AsyncRests ==
  /\ async_msg = Unused /\ first_slot = Unused /\ next_slot = Unused /\ async_len = Unused
  /\ receiving = Unused /\ alive = Unused /\ m = Unused
RunRests ==
  /\ bitmap = Unused /\ deadline = Unused /\ counter = Unused /\ proc_ptr = Unused
  /\ left = Unused
CoroRests ==
  /\ current_thread = Unused /\ held = Unused /\ writer = Unused /\ reader_queue = Unused
  /\ writer_queue = Unused
IrqRests ==
  /\ handler = Unused /\ active_ids = Unused /\ masked = Unused /\ latch = Unused
  /\ asserted = Unused /\ hook = Unused
PipeRests ==
  /\ data = Unused /\ start = Unused /\ i_size = Unused /\ rd_wait = Unused
  /\ wr_wait = Unused /\ open = Unused /\ writers = Unused /\ freed = Unused /\ dead = Unused
  /\ rtot = Unused /\ wtot = Unused
PollRests ==
  /\ watch = Unused /\ chan = Unused /\ i = Unused /\ found = Unused /\ entries = Unused
  /\ qproc = Unused /\ triggered = Unused /\ timed_out = Unused /\ woken = Unused
EpollRests ==
  /\ rdllist = Unused /\ txlist = Unused /\ hooked = Unused /\ reg = Unused
  /\ enabled = Unused /\ wq = Unused /\ flock = Unused /\ flockq = Unused /\ mtx = Unused
  /\ mtxq = Unused /\ notes = Unused /\ answer = Unused /\ cur = Unused /\ self = Unused
  /\ file = Unused
TableRests == proc = Unused /\ vfs_up = Unused /\ forks = Unused /\ kills = Unused
TalkRests ==
  /\ msg = Unused /\ async = Unused /\ todo = Unused /\ work = Unused /\ asleep = Unused
  /\ in_pm = Unused /\ in_fs = Unused /\ made = Unused

LiveInit ==
  \/ /\ part = "ipc" /\ Ipc!Init /\ state = Unused /\ pc = Unused /\ target = Unused
     /\ call = Unused /\ queue = Unused /\ got = Unused /\ run_queue = Unused
     /\ readers = Unused /\ runq = Unused /\ files = Unused /\ ready = Unused
     /\ events = Unused /\ timer = Unused /\ expired = Unused /\ SignalRests /\ MemoryRests
     /\ AsyncRests /\ RunRests /\ CoroRests /\ IrqRests /\ PipeRests /\ PollRests
     /\ EpollRests /\ TableRests /\ TalkRests
  \/ /\ part = "signal" /\ Signal!Init /\ recvfrom = Unused /\ int_pending = Unused
     /\ async_pending = Unused /\ async_table = Unused /\ faults = Unused /\ call = Unused
     /\ queue = Unused /\ got = Unused /\ run_queue = Unused /\ readers = Unused
     /\ runq = Unused /\ files = Unused /\ ready = Unused /\ events = Unused /\ timer = Unused
     /\ expired = Unused /\ IpcRests /\ MemoryRests /\ AsyncRests /\ RunRests /\ CoroRests
     /\ IrqRests /\ PipeRests /\ PollRests /\ EpollRests /\ TableRests /\ TalkRests
  \/ /\ part = "memory" /\ Memory!Init /\ recvfrom = Unused /\ int_pending = Unused
     /\ async_pending = Unused /\ async_table = Unused /\ retval = Unused /\ got = Unused
     /\ run_queue = Unused /\ readers = Unused /\ runq = Unused /\ files = Unused
     /\ ready = Unused /\ events = Unused /\ timer = Unused /\ expired = Unused /\ IpcRests
     /\ SignalRests /\ AsyncRests /\ RunRests /\ CoroRests /\ IrqRests /\ PipeRests
     /\ PollRests /\ EpollRests /\ TableRests /\ TalkRests
  \/ /\ part = "async" /\ Async!Init /\ recvfrom = Unused /\ int_pending = Unused
     /\ faults = Unused /\ retval = Unused /\ state = Unused /\ target = Unused
     /\ call = Unused /\ queue = Unused /\ run_queue = Unused /\ readers = Unused
     /\ runq = Unused /\ files = Unused /\ ready = Unused /\ events = Unused /\ timer = Unused
     /\ expired = Unused /\ IpcRests /\ SignalRests /\ MemoryRests /\ RunRests /\ CoroRests
     /\ IrqRests /\ PipeRests /\ PollRests /\ EpollRests /\ TableRests /\ TalkRests
  \/ /\ part = "run" /\ Run!Init /\ recvfrom = Unused /\ int_pending = Unused
     /\ async_pending = Unused /\ async_table = Unused /\ faults = Unused /\ retval = Unused
     /\ target = Unused /\ call = Unused /\ queue = Unused /\ got = Unused /\ readers = Unused
     /\ runq = Unused /\ files = Unused /\ ready = Unused /\ events = Unused /\ timer = Unused
     /\ expired = Unused /\ IpcRests /\ SignalRests /\ MemoryRests /\ AsyncRests /\ CoroRests
     /\ IrqRests /\ PipeRests /\ PollRests /\ EpollRests /\ TableRests /\ TalkRests
  \/ /\ part = "coro" /\ Lock!Init /\ recvfrom = Unused /\ int_pending = Unused
     /\ async_pending = Unused /\ async_table = Unused /\ faults = Unused /\ retval = Unused
     /\ state = Unused /\ target = Unused /\ call = Unused /\ queue = Unused /\ got = Unused
     /\ runq = Unused /\ files = Unused /\ ready = Unused /\ events = Unused /\ timer = Unused
     /\ expired = Unused /\ IpcRests /\ SignalRests /\ MemoryRests /\ AsyncRests /\ RunRests
     /\ IrqRests /\ PipeRests /\ PollRests /\ EpollRests /\ TableRests /\ TalkRests
  \/ /\ part = "irq" /\ Interrupts!Init /\ recvfrom = Unused /\ async_pending = Unused
     /\ async_table = Unused /\ faults = Unused /\ retval = Unused /\ state = Unused
     /\ pc = Unused /\ target = Unused /\ call = Unused /\ queue = Unused /\ got = Unused
     /\ run_queue = Unused /\ readers = Unused /\ runq = Unused /\ files = Unused
     /\ ready = Unused /\ events = Unused /\ timer = Unused /\ expired = Unused /\ IpcRests
     /\ SignalRests /\ MemoryRests /\ AsyncRests /\ RunRests /\ CoroRests /\ PipeRests
     /\ PollRests /\ EpollRests /\ TableRests /\ TalkRests
  \/ /\ part = "pipe" /\ Pipe!Init /\ recvfrom = Unused /\ int_pending = Unused
     /\ async_pending = Unused /\ async_table = Unused /\ faults = Unused /\ retval = Unused
     /\ state = Unused /\ pc = Unused /\ target = Unused /\ queue = Unused /\ got = Unused
     /\ run_queue = Unused /\ ready = Unused /\ events = Unused /\ timer = Unused
     /\ expired = Unused /\ IpcRests /\ SignalRests /\ MemoryRests /\ AsyncRests /\ RunRests
     /\ CoroRests /\ IrqRests /\ PollRests /\ EpollRests /\ TableRests /\ TalkRests
  \/ /\ part = "timed" /\ TimedPoll!Init /\ recvfrom = Unused /\ int_pending = Unused
     /\ async_pending = Unused /\ async_table = Unused /\ faults = Unused /\ retval = Unused
     /\ state = Unused /\ target = Unused /\ call = Unused /\ queue = Unused /\ got = Unused
     /\ run_queue = Unused /\ readers = Unused /\ runq = Unused /\ files = Unused /\ IpcRests
     /\ SignalRests /\ MemoryRests /\ AsyncRests /\ RunRests /\ CoroRests /\ IrqRests
     /\ PipeRests /\ EpollRests /\ TableRests /\ TalkRests
  \/ /\ part = "poll" /\ Poll!Init /\ recvfrom = Unused /\ int_pending = Unused
     /\ async_pending = Unused /\ async_table = Unused /\ faults = Unused /\ retval = Unused
     /\ state = Unused /\ target = Unused /\ call = Unused /\ queue = Unused /\ got = Unused
     /\ run_queue = Unused /\ readers = Unused /\ runq = Unused /\ files = Unused /\ IpcRests
     /\ SignalRests /\ MemoryRests /\ AsyncRests /\ RunRests /\ CoroRests /\ IrqRests
     /\ PipeRests /\ EpollRests /\ TableRests /\ TalkRests
  \/ /\ part = "epoll" /\ Epoll!Init /\ recvfrom = Unused /\ int_pending = Unused
     /\ async_pending = Unused /\ async_table = Unused /\ faults = Unused /\ retval = Unused
     /\ state = Unused /\ target = Unused /\ call = Unused /\ queue = Unused
     /\ run_queue = Unused /\ readers = Unused /\ files = Unused /\ IpcRests /\ SignalRests
     /\ MemoryRests /\ AsyncRests /\ RunRests /\ CoroRests /\ IrqRests /\ PipeRests
     /\ PollRests /\ TableRests /\ TalkRests
  \/ /\ part = "table" /\ Table!Init /\ recvfrom = Unused /\ int_pending = Unused
     /\ async_pending = Unused /\ async_table = Unused /\ faults = Unused /\ retval = Unused
     /\ state = Unused /\ pc = Unused /\ target = Unused /\ call = Unused /\ queue = Unused
     /\ got = Unused /\ run_queue = Unused /\ readers = Unused /\ runq = Unused
     /\ ready = Unused /\ events = Unused /\ timer = Unused /\ expired = Unused /\ IpcRests
     /\ SignalRests /\ MemoryRests /\ AsyncRests /\ RunRests /\ CoroRests /\ IrqRests
     /\ PipeRests /\ PollRests /\ EpollRests /\ TalkRests
  \/ /\ part = "talk" /\ Talk!Init /\ int_pending = Unused /\ async_pending = Unused
     /\ async_table = Unused /\ faults = Unused /\ retval = Unused /\ state = Unused
     /\ pc = Unused /\ target = Unused /\ got = Unused /\ run_queue = Unused
     /\ readers = Unused /\ runq = Unused /\ files = Unused /\ ready = Unused
     /\ events = Unused /\ timer = Unused /\ expired = Unused /\ IpcRests /\ SignalRests
     /\ MemoryRests /\ AsyncRests /\ RunRests /\ CoroRests /\ IrqRests /\ PipeRests
     /\ PollRests /\ EpollRests /\ TableRests
  \/ /\ part = "alone" /\ Alone!Init /\ int_pending = Unused /\ async_pending = Unused
     /\ async_table = Unused /\ faults = Unused /\ retval = Unused /\ state = Unused
     /\ pc = Unused /\ target = Unused /\ got = Unused /\ run_queue = Unused
     /\ readers = Unused /\ runq = Unused /\ files = Unused /\ ready = Unused
     /\ events = Unused /\ timer = Unused /\ expired = Unused /\ IpcRests /\ SignalRests
     /\ MemoryRests /\ AsyncRests /\ RunRests /\ CoroRests /\ IrqRests /\ PipeRests
     /\ PollRests /\ EpollRests /\ TableRests

IpcStep ==
  /\ part = "ipc" /\ Ipc!Next
  /\ UNCHANGED <<part, state, pc, target, call, queue, got, run_queue, readers, runq, files,
                 ready, events, timer, expired, signalVars, memoryVars, asyncVars, runVars,
                 coroVars, irqVars, pipeVars, pollVars, epollVars, tableVars, talkVars>>
SignalStep ==
  /\ part = "signal" /\ Signal!Next
  /\ UNCHANGED <<part, recvfrom, int_pending, async_pending, async_table, faults, call, queue,
                 got, run_queue, readers, runq, files, ready, events, timer, expired, ipcVars,
                 memoryVars, asyncVars, runVars, coroVars, irqVars, pipeVars, pollVars,
                 epollVars, tableVars, talkVars>>
MemoryStep ==
  /\ part = "memory" /\ Memory!Next
  /\ UNCHANGED <<part, recvfrom, int_pending, async_pending, async_table, retval, got,
                 run_queue, readers, runq, files, ready, events, timer, expired, ipcVars,
                 signalVars, asyncVars, runVars, coroVars, irqVars, pipeVars, pollVars,
                 epollVars, tableVars, talkVars>>
AsyncStep ==
  /\ part = "async" /\ Async!Next
  /\ UNCHANGED <<part, recvfrom, int_pending, faults, retval, state, target, call, queue,
                 run_queue, readers, runq, files, ready, events, timer, expired, ipcVars,
                 signalVars, memoryVars, runVars, coroVars, irqVars, pipeVars, pollVars,
                 epollVars, tableVars, talkVars>>
RunStep ==
  /\ part = "run" /\ Run!Next
  /\ UNCHANGED <<part, recvfrom, int_pending, async_pending, async_table, faults, retval,
                 target, call, queue, got, readers, runq, files, ready, events, timer,
                 expired, ipcVars, signalVars, memoryVars, asyncVars, coroVars, irqVars,
                 pipeVars, pollVars, epollVars, tableVars, talkVars>>
LockStep ==
  /\ part = "coro" /\ Lock!Next
  /\ UNCHANGED <<part, recvfrom, int_pending, async_pending, async_table, faults, retval,
                 state, target, call, queue, got, runq, files, ready, events, timer, expired,
                 ipcVars, signalVars, memoryVars, asyncVars, runVars, irqVars, pipeVars,
                 pollVars, epollVars, tableVars, talkVars>>
InterruptsStep ==
  /\ part = "irq" /\ Interrupts!Next
  /\ UNCHANGED <<part, recvfrom, async_pending, async_table, faults, retval, state, pc,
                 target, call, queue, got, run_queue, readers, runq, files, ready, events,
                 timer, expired, ipcVars, signalVars, memoryVars, asyncVars, runVars,
                 coroVars, pipeVars, pollVars, epollVars, tableVars, talkVars>>
PipeStep ==
  /\ part = "pipe" /\ Pipe!Next
  /\ UNCHANGED <<part, recvfrom, int_pending, async_pending, async_table, faults, retval,
                 state, pc, target, queue, got, run_queue, ready, events, timer, expired,
                 ipcVars, signalVars, memoryVars, asyncVars, runVars, coroVars, irqVars,
                 pollVars, epollVars, tableVars, talkVars>>
TimedPollStep ==
  /\ part = "timed" /\ TimedPoll!Next
  /\ UNCHANGED <<part, recvfrom, int_pending, async_pending, async_table, faults, retval,
                 state, target, call, queue, got, run_queue, readers, runq, files, ipcVars,
                 signalVars, memoryVars, asyncVars, runVars, coroVars, irqVars, pipeVars,
                 epollVars, tableVars, talkVars>>
PollStep ==
  /\ part = "poll" /\ Poll!Next
  /\ UNCHANGED <<part, recvfrom, int_pending, async_pending, async_table, faults, retval,
                 state, target, call, queue, got, run_queue, readers, runq, files, ipcVars,
                 signalVars, memoryVars, asyncVars, runVars, coroVars, irqVars, pipeVars,
                 epollVars, tableVars, talkVars>>
EpollStep ==
  /\ part = "epoll" /\ Epoll!Next
  /\ UNCHANGED <<part, recvfrom, int_pending, async_pending, async_table, faults, retval,
                 state, target, call, queue, run_queue, readers, files, ipcVars, signalVars,
                 memoryVars, asyncVars, runVars, coroVars, irqVars, pipeVars, pollVars,
                 tableVars, talkVars>>
TableStep ==
  /\ part = "table" /\ Table!Next
  /\ UNCHANGED <<part, recvfrom, int_pending, async_pending, async_table, faults, retval,
                 state, pc, target, call, queue, got, run_queue, readers, runq, ready, events,
                 timer, expired, ipcVars, signalVars, memoryVars, asyncVars, runVars,
                 coroVars, irqVars, pipeVars, pollVars, epollVars, talkVars>>
TalkStep ==
  /\ part = "talk" /\ Talk!Next
  /\ UNCHANGED <<part, int_pending, async_pending, async_table, faults, retval, state, pc,
                 target, got, run_queue, readers, runq, files, ready, events, timer, expired,
                 ipcVars, signalVars, memoryVars, asyncVars, runVars, coroVars, irqVars,
                 pipeVars, pollVars, epollVars, tableVars>>
AloneStep ==
  /\ part = "alone" /\ Alone!Next
  /\ UNCHANGED <<part, int_pending, async_pending, async_table, faults, retval, state, pc,
                 target, got, run_queue, readers, runq, files, ready, events, timer, expired,
                 ipcVars, signalVars, memoryVars, asyncVars, runVars, coroVars, irqVars,
                 pipeVars, pollVars, epollVars, tableVars>>

LiveNext ==
  \/ IpcStep
  \/ SignalStep
  \/ MemoryStep
  \/ AsyncStep
  \/ RunStep
  \/ LockStep
  \/ InterruptsStep
  \/ PipeStep
  \/ TimedPollStep
  \/ PollStep
  \/ EpollStep
  \/ TableStep
  \/ TalkStep
  \/ AloneStep

\* What a part leaves alone
IpcRest ==
  <<part, state, pc, target, call, queue, got, run_queue, readers, runq, files, ready, events,
    timer, expired, signalVars, memoryVars, asyncVars, runVars, coroVars, irqVars, pipeVars,
    pollVars, epollVars, tableVars, talkVars>>
SignalRest ==
  <<part, recvfrom, int_pending, async_pending, async_table, faults, call, queue, got,
    run_queue, readers, runq, files, ready, events, timer, expired, ipcVars, memoryVars,
    asyncVars, runVars, coroVars, irqVars, pipeVars, pollVars, epollVars, tableVars, talkVars>>
MemoryRest ==
  <<part, recvfrom, int_pending, async_pending, async_table, retval, got, run_queue, readers,
    runq, files, ready, events, timer, expired, ipcVars, signalVars, asyncVars, runVars,
    coroVars, irqVars, pipeVars, pollVars, epollVars, tableVars, talkVars>>
AsyncRest ==
  <<part, recvfrom, int_pending, faults, retval, state, target, call, queue, run_queue,
    readers, runq, files, ready, events, timer, expired, ipcVars, signalVars, memoryVars,
    runVars, coroVars, irqVars, pipeVars, pollVars, epollVars, tableVars, talkVars>>
RunRest ==
  <<part, recvfrom, int_pending, async_pending, async_table, faults, retval, target, call,
    queue, got, readers, runq, files, ready, events, timer, expired, ipcVars, signalVars,
    memoryVars, asyncVars, coroVars, irqVars, pipeVars, pollVars, epollVars, tableVars,
    talkVars>>
LockRest ==
  <<part, recvfrom, int_pending, async_pending, async_table, faults, retval, state, target,
    call, queue, got, runq, files, ready, events, timer, expired, ipcVars, signalVars,
    memoryVars, asyncVars, runVars, irqVars, pipeVars, pollVars, epollVars, tableVars,
    talkVars>>
InterruptsRest ==
  <<part, recvfrom, async_pending, async_table, faults, retval, state, pc, target, call,
    queue, got, run_queue, readers, runq, files, ready, events, timer, expired, ipcVars,
    signalVars, memoryVars, asyncVars, runVars, coroVars, pipeVars, pollVars, epollVars,
    tableVars, talkVars>>
PipeRest ==
  <<part, recvfrom, int_pending, async_pending, async_table, faults, retval, state, pc,
    target, queue, got, run_queue, ready, events, timer, expired, ipcVars, signalVars,
    memoryVars, asyncVars, runVars, coroVars, irqVars, pollVars, epollVars, tableVars,
    talkVars>>
PollRest ==
  <<part, recvfrom, int_pending, async_pending, async_table, faults, retval, state, target,
    call, queue, got, run_queue, readers, runq, files, ipcVars, signalVars, memoryVars,
    asyncVars, runVars, coroVars, irqVars, pipeVars, epollVars, tableVars, talkVars>>
EpollRest ==
  <<part, recvfrom, int_pending, async_pending, async_table, faults, retval, state, target,
    call, queue, run_queue, readers, files, ipcVars, signalVars, memoryVars, asyncVars,
    runVars, coroVars, irqVars, pipeVars, pollVars, tableVars, talkVars>>
TableRest ==
  <<part, recvfrom, int_pending, async_pending, async_table, faults, retval, state, pc,
    target, call, queue, got, run_queue, readers, runq, ready, events, timer, expired,
    ipcVars, signalVars, memoryVars, asyncVars, runVars, coroVars, irqVars, pipeVars,
    pollVars, epollVars, talkVars>>
TalkRest ==
  <<part, int_pending, async_pending, async_table, faults, retval, state, pc, target, got,
    run_queue, readers, runq, files, ready, events, timer, expired, ipcVars, signalVars,
    memoryVars, asyncVars, runVars, coroVars, irqVars, pipeVars, pollVars, epollVars,
    tableVars>>

\* A server, a sender, a CPU or a thread goes on by itself.
ServerRuns ==
  \/ part = "ipc" /\ Ipc!PstUnset(3) /\ UNCHANGED IpcRest
  \/ part = "signal" /\ Signal!PMRuns /\ UNCHANGED SignalRest
  \/ part = "memory" /\ Memory!MMRuns /\ UNCHANGED MemoryRest
  \/ part = "async" /\ Async!SenderRuns /\ UNCHANGED AsyncRest
  \/ part = "run" /\ Run!switch_to_user(1) /\ UNCHANGED RunRest
  \/ part = "coro" /\ Lock!ThreadRuns /\ UNCHANGED LockRest
  \/ part = "irq" /\ Interrupts!Driver(1) /\ UNCHANGED InterruptsRest
  \/ part = "pipe" /\ Pipe!Continue /\ UNCHANGED PipeRest
  \/ part = "timed" /\ TimedPoll!Worker /\ UNCHANGED PollRest
  \/ part = "poll" /\ Poll!Worker /\ UNCHANGED PollRest
  \/ part = "epoll" /\ (Epoll!Run \/ Epoll!Worker(1)) /\ UNCHANGED EpollRest
  \/ part = "table" /\ (Table!WaitReaps(1, -1) \/ Table!WaitBlocks(1, -1)) /\ UNCHANGED TableRest
  \/ part = "talk" /\ Talk!PMNext /\ UNCHANGED TalkRest
  \/ part = "alone" /\ Alone!PMNext /\ UNCHANGED TalkRest

\* So does the main loop of the file system server; thread 0 is woken.
MainRuns ==
  \/ part = "coro" /\ Lock!Wake(0) /\ UNCHANGED LockRest
  \/ part = "irq" /\ Interrupts!Driver(2) /\ UNCHANGED InterruptsRest
  \/ part = "timed" /\ TimedPoll!Main /\ UNCHANGED PollRest
  \/ part = "poll" /\ Poll!Main /\ UNCHANGED PollRest
  \/ part = "epoll" /\ Epoll!Main /\ UNCHANGED EpollRest
  \/ part = "talk" /\ Talk!FSNext /\ UNCHANGED TalkRest
  \/ part = "alone" /\ Alone!FSNext /\ UNCHANGED TalkRest

\* The drivers and the memory manager answer; thread 1 is woken.
OthersAnswer ==
  \/ part = "coro" /\ Lock!Wake(1) /\ UNCHANGED LockRest
  \/ part = "irq" /\ Interrupts!handle_simple_irq(1) /\ UNCHANGED InterruptsRest
  \/ part = "timed" /\ TimedPoll!Driver /\ UNCHANGED PollRest
  \/ part = "poll" /\ Poll!Driver /\ UNCHANGED PollRest
  \/ part = "talk" /\ Talk!MMAnswers /\ UNCHANGED TalkRest
  \/ part = "alone" /\ Alone!MMAnswers /\ UNCHANGED TalkRest

\* Timers expire, file servers answer; thread 2 is woken.
TimePasses ==
  \/ part = "coro" /\ Lock!Wake(2) /\ UNCHANGED LockRest
  \/ part = "irq" /\ Interrupts!handle_simple_irq(2) /\ UNCHANGED InterruptsRest
  \/ part = "timed" /\ TimedPoll!select_timeout_check /\ UNCHANGED PollRest
  \/ part = "talk" /\ (\E r \in asleep : Talk!FSExec(r)) /\ UNCHANGED TalkRest
  \/ part = "alone" /\ (\E r \in asleep : Alone!FSExec(r)) /\ UNCHANGED TalkRest

\* What is possible again and again happens: a server in its main loop makes its
\* next receive, a destination receives, MM takes the answer of VFS, a pending
\* clock interrupt is taken, thread 0 unlocks, process 1 reads or ends.
FirstServed ==
  \/ part = "ipc" /\ (\E async_ok \in BOOLEAN : Ipc!Receive(3, -1, async_ok)) /\ UNCHANGED IpcRest
  \/ part = "memory" /\ Memory!do_vfs_reply /\ UNCHANGED MemoryRest
  \/ part = "async" /\ Async!Receive(1) /\ UNCHANGED AsyncRest
  \/ part = "run" /\ Run!Tick /\ UNCHANGED RunRest
  \/ part = "coro" /\ Lock!coro_rwlock_unlock(0) /\ UNCHANGED LockRest
  \/ part = "pipe" /\ (\E n \in 1 .. 3 : Pipe!Read(1, n)) /\ UNCHANGED PipeRest
  \/ part = "table" /\ Table!do_exit(1) /\ UNCHANGED TableRest

\* So does the delivery of what it received, the other destination, the fault of
\* process 1, thread 1, process 2.
SecondServed ==
  \/ part = "ipc" /\ Ipc!DeliverMsg(3) /\ UNCHANGED IpcRest
  \/ part = "memory" /\ Memory!do_handle_fault(1) /\ UNCHANGED MemoryRest
  \/ part = "async" /\ Async!Receive(2) /\ UNCHANGED AsyncRest
  \/ part = "coro" /\ Lock!coro_rwlock_unlock(1) /\ UNCHANGED LockRest
  \/ part = "pipe" /\ (\E n \in 1 .. 3 : Pipe!Read(2, n)) /\ UNCHANGED PipeRest
  \/ part = "table" /\ Table!do_exit(2) /\ UNCHANGED TableRest

\* And the end of a fault, the fault of process 2, thread 2, process 3.
ThirdServed ==
  \/ part = "ipc" /\ Ipc!FaultHandled(1) /\ UNCHANGED IpcRest
  \/ part = "memory" /\ Memory!do_handle_fault(2) /\ UNCHANGED MemoryRest
  \/ part = "coro" /\ Lock!coro_rwlock_unlock(2) /\ UNCHANGED LockRest
  \/ part = "pipe" /\ (\E n \in 1 .. 3 : Pipe!Write(3, n)) /\ UNCHANGED PipeRest
  \/ part = "table" /\ Table!do_exit(3) /\ UNCHANGED TableRest

\* Parts have different fairness; conditions of different parts that are never
\* about the same behaviour are stated as one.
LiveSpec ==
  /\ LiveInit /\ [][LiveNext]_liveVars
  /\ WF_liveVars(ServerRuns) /\ WF_liveVars(MainRuns)
  /\ WF_liveVars(OthersAnswer) /\ WF_liveVars(TimePasses)
  /\ SF_liveVars(FirstServed) /\ SF_liveVars(SecondServed) /\ SF_liveVars(ThirdServed)

-----------------------------------------------------------------------------
(* Properties *)

Message(k) == [to |-> 1 + (k % 2), id |-> 1 + (k \div 3)]

\* What k waits for, where k is a process, a thread, a watched file or a message.
Waits(k) ==
  \/ part = "ipc" /\ k \in 1 .. 3 /\ Ipc!Unserved(k)
  \/ part = "ipc" /\ k = 4 /\ int_pending[3] # {}
  \/ part = "signal" /\ k \in 1 .. 2 /\ Signal!Stopped(k)
  \/ part = "async" /\ Async!Undelivered(Message(k))
  \/ part = "run" /\ k \in 1 .. 3 /\ Run!Passed(k)
  \/ part = "coro" /\ k \in 1 .. 3 /\ Lock!Asks(k - 1)
  \/ part = "irq" /\ k \in 1 .. 3 /\ k \in asserted
  \/ part = "pipe" /\ k \in 1 .. 3 /\ Pipe!Sleeps(k)
  \/ part = "timed" /\ pc # "idle"
  \/ part = "poll" /\ k \in 1 .. 2 /\ ready[k] /\ pc # "idle"
  \/ part = "epoll" /\ k \in 1 .. 2 /\ ready[k] /\ k \in reg /\ pc[1] # "idle"
  \/ part = "table" /\ k \in 1 .. 3 /\ Table!Waits(k)
  \/ part = "talk" /\ k \in 1 .. 3 /\ call[k] # "none"
  \/ part = "alone" /\ k = 1 /\ call[k] # "none"

WaitsForMemory(k) ==
  \/ part = "ipc" /\ k = 1 /\ Ipc!FaultUnserved(k)
  \/ part = "memory" /\ Memory!Stopped(k)

\* MM is woken again and again by some message, and its lists run empty.
MMGoesOn == /\ part = "ipc" => Ipc!InUser(3)
            /\ part = "memory" => Memory!CaughtUp

\* Nobody waits for ever: a sender for a server, a driver for its interrupt, a
\* stopped process for PM, a message for its receiver, a runnable process for the
\* processor, a thread for the lock, a reader or writer for the other end, poll()
\* for its timeout, poll() and epoll_wait() for a file that stays ready, a parent
\* for its child and a zombie for its parent, a caller for PM and VFS; and, as long
\* as MM goes on, a process for its memory.
Served ==
  /\ \A k \in 1 .. 4 : []<>~Waits(k)
  /\ []<>MMGoesOn => \A k \in 1 .. 2 : []<>~WaitsForMemory(k)
=============================================================================
