------------------------------- MODULE MCVfs --------------------------------
(***************************************************************************)
(* The file system server on small instances: its workers, and the calls   *)
(* that sleep in it (pipes, event files, poll and select, epoll); its open *)
(* files; and the block cache of the file systems below it.  The objects   *)
(* do not share state beyond the run queue, so a behaviour is about one of *)
(* them, part, which the initial state chooses; the variables of the       *)
(* others are not used.                                                    *)
(***************************************************************************)
EXTENDS Integers, Sequences, FiniteSets

CONSTANTS p1, p2, p3, p4, f1, f2, d1, NONE

VARIABLES
  part,
  runq, call, wq, ready, events, pc, timer, expired, files, self,
  fp, wk, block_all, pending, panicked, inbox, asked, st, pm, orphans,
  data, start, i_size, rd_wait, wr_wait, open, readers, writers, freed, dead, rtot, wtot,
  count, nonblock, written, taken,
  watch, chan, i, found, entries, qproc, triggered, timed_out, woken,
  rdllist, txlist, hooked, reg, enabled, flock, flockq, mtx, mtxq, notes, answer, cur, file,
  got,
  table, filp, pin, fs_cnt, lockq,
  buf, hashed, lru, mem, disk, cache, fault, held, latest

workerVars == <<fp, wk, block_all, pending, panicked, inbox, asked, st, pm, orphans>>
pipeVars ==
  <<data, start, i_size, rd_wait, wr_wait, open, readers, writers, freed, dead, rtot, wtot>>
eventVars == <<count, nonblock, written, taken>>
pollVars == <<watch, chan, i, found, entries, qproc, triggered, timed_out, woken>>
epollVars ==
  <<rdllist, txlist, hooked, reg, enabled, flock, flockq, mtx, mtxq, notes, answer, cur, file,
    got>>
fileVars == <<table, filp, pin, fs_cnt, lockq>>
cacheVars == <<buf, hashed, lru, mem, disk, cache, fault, held, latest>>
vfsVars ==
  <<part, runq, call, wq, ready, events, pc, timer, expired, files, self, workerVars,
    pipeVars, eventVars, pollVars, epollVars, fileVars, cacheVars>>

-----------------------------------------------------------------------------
(* The instances.  A pipe is shorter than the longest call and its copies    *)
(* may fail; a pipe whose files have O_NONBLOCK sees only calls that fit.    *)
(* An event file has one reader and one writer, a semaphore three processes  *)
(* that do both.  poll() has a driver and two files of the server, select()  *)
(* one of each.  epoll watches a file and a driver while processes add and   *)
(* remove them, or two files that are closed while they are watched.  Open   *)
(* files are those of a process and its child, of a file system or a device, *)
(* and of three processes that open and close one file.  Two buffers cache   *)
(* two or three blocks, one of a mapped file, over reads that fail, or three *)
(* over writes that fail.                                                    *)

Worker == INSTANCE VfsWorker WITH
  Procs <- {p1, p2}, NrWorkers <- 5, Calls <- {"dev", "wait", "mm"}
Pipe == INSTANCE VfsPipe WITH
  Readers <- {p1, p2}, Writers <- {p3, p4}, PIPE_BUF <- 2, MaxLen <- 3, Faults <- TRUE,
  NonBlock <- {}
ShortPipe == INSTANCE VfsPipe WITH
  Readers <- {p1, p2}, Writers <- {p3}, PIPE_BUF <- 2, MaxLen <- 2, Faults <- FALSE,
  NonBlock <- {"r", "w"}
Eventfd == INSTANCE VfsEventfd WITH
  Procs <- {p1, p2}, MaxCount <- 9, Semaphore <- FALSE, ReadersOf <- {p1}, WritersOf <- {p2}
SemaphoreFd == INSTANCE VfsEventfd WITH
  Procs <- {p1, p2, p3}, MaxCount <- 5, Semaphore <- TRUE, ReadersOf <- {p1, p2, p3},
  WritersOf <- {p1, p2, p3}
Poll == INSTANCE VfsPoll WITH
  N <- 3, Local <- {2, 3}, MaxEntries <- 3, Select <- FALSE, Timeout <- "some", MaxEvents <- 4
SelectCall == INSTANCE VfsPoll WITH
  N <- 2, Local <- {2}, MaxEntries <- 2, Select <- TRUE, Timeout <- "some", MaxEvents <- 4
Epoll == INSTANCE VfsEpoll WITH
  Procs <- {p1, p2}, Files <- {f1, d1}, Devices <- {d1}, Edge <- {}, OneShot <- {}, MaxEv <- 1,
  Timed <- TRUE, Ctl <- TRUE, Closing <- FALSE, MaxEvents <- 3, None <- NONE
Close == INSTANCE VfsEpoll WITH
  Procs <- {p1, p2}, Files <- {f1, f2}, Devices <- {}, Edge <- {f1}, OneShot <- {f2}, MaxEv <- 1,
  Timed <- TRUE, Ctl <- TRUE, Closing <- TRUE, MaxEvents <- 2, None <- NONE
Files == INSTANCE VfsFile WITH
  Procs <- {p1, p2}, Born <- {p1}, Fds <- {1, 2}, NR_FILE_DESC <- 2, Pins <- {1, 2}, Inodes <- {1},
  Devices <- {}, Threads <- {}, Calls <- {"read", "dup", "close"}, MaxReads <- 1, MaxLookups <- 2
DeviceFiles == INSTANCE VfsFile WITH
  Procs <- {p1, p2}, Born <- {p1}, Fds <- {1, 2}, NR_FILE_DESC <- 2, Pins <- {1, 2}, Inodes <- {2},
  Devices <- {2}, Threads <- {}, Calls <- {"read", "dup", "close"}, MaxReads <- 1, MaxLookups <- 2
ForkedFiles == INSTANCE VfsFile WITH
  Procs <- {p1, p2, p3}, Born <- {p1, p2}, Fds <- {1}, NR_FILE_DESC <- 2, Pins <- {1, 2},
  Inodes <- {1}, Devices <- {}, Threads <- {}, Calls <- {"close"}, MaxReads <- 1, MaxLookups <- 3
Cache == INSTANCE BlockCache WITH
  Blocks <- {1, 2}, Bufs <- {1, 2}, Pages <- 1 .. 6, Mapped <- {1}, Written <- {2}, VmCache <- TRUE,
  ReadFaults <- TRUE, WriteFaults <- FALSE, MaxWrites <- 1, MaxHeld <- 2
Evicting == INSTANCE BlockCache WITH
  Blocks <- {1, 2, 3}, Bufs <- {1, 2}, Pages <- 1 .. 7, Mapped <- {1}, Written <- {2}, VmCache <- TRUE,
  ReadFaults <- TRUE, WriteFaults <- FALSE, MaxWrites <- 1, MaxHeld <- 1
FailingDisk == INSTANCE BlockCache WITH
  Blocks <- {1, 2, 3}, Bufs <- {1, 2}, Pages <- 1 .. 6, Mapped <- {}, Written <- {1, 2, 3},
  VmCache <- FALSE, ReadFaults <- TRUE, WriteFaults <- TRUE, MaxWrites <- 1, MaxHeld <- 1

Unused == "unused"
WorkerRests ==
  /\ fp = Unused /\ wk = Unused /\ block_all = Unused /\ pending = Unused /\ panicked = Unused
  /\ inbox = Unused /\ asked = Unused /\ st = Unused /\ pm = Unused /\ orphans = Unused
PipeRests ==
  /\ data = Unused /\ start = Unused /\ i_size = Unused /\ rd_wait = Unused
  /\ wr_wait = Unused /\ open = Unused /\ readers = Unused /\ writers = Unused
  /\ freed = Unused /\ dead = Unused /\ rtot = Unused /\ wtot = Unused
EventRests == count = Unused /\ nonblock = Unused /\ written = Unused /\ taken = Unused
PollRests ==
  /\ watch = Unused /\ chan = Unused /\ i = Unused /\ found = Unused /\ entries = Unused
  /\ qproc = Unused /\ triggered = Unused /\ timed_out = Unused /\ woken = Unused
EpollRests ==
  /\ rdllist = Unused /\ txlist = Unused /\ hooked = Unused /\ reg = Unused
  /\ enabled = Unused /\ flock = Unused /\ flockq = Unused /\ mtx = Unused /\ mtxq = Unused
  /\ notes = Unused /\ answer = Unused /\ cur = Unused /\ file = Unused /\ got = Unused
FileRests ==
  /\ table = Unused /\ filp = Unused /\ pin = Unused /\ fs_cnt = Unused /\ lockq = Unused
CacheRests ==
  /\ buf = Unused /\ hashed = Unused /\ lru = Unused /\ mem = Unused /\ disk = Unused
  /\ cache = Unused /\ fault = Unused /\ held = Unused /\ latest = Unused

VfsInit ==
  \/ /\ part = "worker" /\ Worker!Init /\ call = Unused /\ wq = Unused /\ ready = Unused
     /\ events = Unused /\ pc = Unused /\ timer = Unused /\ expired = Unused /\ files = Unused
     /\ self = Unused /\ PipeRests /\ EventRests /\ PollRests /\ EpollRests /\ FileRests
     /\ CacheRests
  \/ /\ part = "pipe" /\ Pipe!Init /\ wq = Unused /\ ready = Unused /\ events = Unused
     /\ pc = Unused /\ timer = Unused /\ expired = Unused /\ self = Unused /\ WorkerRests
     /\ EventRests /\ PollRests /\ EpollRests /\ FileRests /\ CacheRests
  \/ /\ part = "nonblock" /\ ShortPipe!Init /\ wq = Unused /\ ready = Unused
     /\ events = Unused /\ pc = Unused /\ timer = Unused /\ expired = Unused /\ self = Unused
     /\ WorkerRests /\ EventRests /\ PollRests /\ EpollRests /\ FileRests /\ CacheRests
  \/ /\ part = "eventfd" /\ Eventfd!Init /\ ready = Unused /\ events = Unused /\ pc = Unused
     /\ timer = Unused /\ expired = Unused /\ files = Unused /\ self = Unused /\ WorkerRests
     /\ PipeRests /\ PollRests /\ EpollRests /\ FileRests /\ CacheRests
  \/ /\ part = "semaphore" /\ SemaphoreFd!Init /\ ready = Unused /\ events = Unused
     /\ pc = Unused /\ timer = Unused /\ expired = Unused /\ files = Unused /\ self = Unused
     /\ WorkerRests /\ PipeRests /\ PollRests /\ EpollRests /\ FileRests /\ CacheRests
  \/ /\ part = "poll" /\ Poll!Init /\ runq = Unused /\ call = Unused /\ wq = Unused
     /\ files = Unused /\ self = Unused /\ WorkerRests /\ PipeRests /\ EventRests
     /\ EpollRests /\ FileRests /\ CacheRests
  \/ /\ part = "select" /\ SelectCall!Init /\ runq = Unused /\ call = Unused /\ wq = Unused
     /\ files = Unused /\ self = Unused /\ WorkerRests /\ PipeRests /\ EventRests
     /\ EpollRests /\ FileRests /\ CacheRests
  \/ /\ part = "epoll" /\ Epoll!Init /\ call = Unused /\ files = Unused /\ WorkerRests
     /\ PipeRests /\ EventRests /\ PollRests /\ FileRests /\ CacheRests
  \/ /\ part = "close" /\ Close!Init /\ call = Unused /\ files = Unused /\ WorkerRests
     /\ PipeRests /\ EventRests /\ PollRests /\ FileRests /\ CacheRests
  \/ /\ part = "files" /\ Files!Init /\ runq = Unused /\ wq = Unused /\ ready = Unused
     /\ events = Unused /\ pc = Unused /\ timer = Unused /\ expired = Unused /\ WorkerRests
     /\ PipeRests /\ EventRests /\ PollRests /\ EpollRests /\ CacheRests
  \/ /\ part = "devices" /\ DeviceFiles!Init /\ runq = Unused /\ wq = Unused /\ ready = Unused
     /\ events = Unused /\ pc = Unused /\ timer = Unused /\ expired = Unused /\ WorkerRests
     /\ PipeRests /\ EventRests /\ PollRests /\ EpollRests /\ CacheRests
  \/ /\ part = "forks" /\ ForkedFiles!Init /\ runq = Unused /\ wq = Unused /\ ready = Unused
     /\ events = Unused /\ pc = Unused /\ timer = Unused /\ expired = Unused /\ WorkerRests
     /\ PipeRests /\ EventRests /\ PollRests /\ EpollRests /\ CacheRests
  \/ /\ part = "cache" /\ Cache!Init /\ runq = Unused /\ call = Unused /\ wq = Unused
     /\ ready = Unused /\ events = Unused /\ pc = Unused /\ timer = Unused /\ expired = Unused
     /\ files = Unused /\ self = Unused /\ WorkerRests /\ PipeRests /\ EventRests /\ PollRests
     /\ EpollRests /\ FileRests
  \/ /\ part = "evict" /\ Evicting!Init /\ runq = Unused /\ call = Unused /\ wq = Unused
     /\ ready = Unused /\ events = Unused /\ pc = Unused /\ timer = Unused /\ expired = Unused
     /\ files = Unused /\ self = Unused /\ WorkerRests /\ PipeRests /\ EventRests /\ PollRests
     /\ EpollRests /\ FileRests
  \/ /\ part = "faults" /\ FailingDisk!Init /\ runq = Unused /\ call = Unused /\ wq = Unused
     /\ ready = Unused /\ events = Unused /\ pc = Unused /\ timer = Unused /\ expired = Unused
     /\ files = Unused /\ self = Unused /\ WorkerRests /\ PipeRests /\ EventRests /\ PollRests
     /\ EpollRests /\ FileRests

WorkerStep ==
  /\ part = "worker" /\ Worker!Next
  /\ UNCHANGED <<part, call, wq, ready, events, pc, timer, expired, files, self, pipeVars,
                 eventVars, pollVars, epollVars, fileVars, cacheVars>>
PipeStep ==
  /\ part = "pipe" /\ Pipe!Next
  /\ UNCHANGED <<part, wq, ready, events, pc, timer, expired, self, workerVars, eventVars,
                 pollVars, epollVars, fileVars, cacheVars>>
ShortPipeStep ==
  /\ part = "nonblock" /\ ShortPipe!Next
  /\ UNCHANGED <<part, wq, ready, events, pc, timer, expired, self, workerVars, eventVars,
                 pollVars, epollVars, fileVars, cacheVars>>
EventfdStep ==
  /\ part = "eventfd" /\ Eventfd!Next
  /\ UNCHANGED <<part, ready, events, pc, timer, expired, files, self, workerVars, pipeVars,
                 pollVars, epollVars, fileVars, cacheVars>>
SemaphoreFdStep ==
  /\ part = "semaphore" /\ SemaphoreFd!Next
  /\ UNCHANGED <<part, ready, events, pc, timer, expired, files, self, workerVars, pipeVars,
                 pollVars, epollVars, fileVars, cacheVars>>
PollStep ==
  /\ part = "poll" /\ Poll!Next
  /\ UNCHANGED <<part, runq, call, wq, files, self, workerVars, pipeVars, eventVars,
                 epollVars, fileVars, cacheVars>>
SelectCallStep ==
  /\ part = "select" /\ SelectCall!Next
  /\ UNCHANGED <<part, runq, call, wq, files, self, workerVars, pipeVars, eventVars,
                 epollVars, fileVars, cacheVars>>
EpollStep ==
  /\ part = "epoll" /\ Epoll!Next
  /\ UNCHANGED <<part, call, files, workerVars, pipeVars, eventVars, pollVars, fileVars,
                 cacheVars>>
CloseStep ==
  /\ part = "close" /\ Close!Next
  /\ UNCHANGED <<part, call, files, workerVars, pipeVars, eventVars, pollVars, fileVars,
                 cacheVars>>
FilesStep ==
  /\ part = "files" /\ Files!Next
  /\ UNCHANGED <<part, runq, wq, ready, events, pc, timer, expired, workerVars, pipeVars,
                 eventVars, pollVars, epollVars, cacheVars>>
DeviceFilesStep ==
  /\ part = "devices" /\ DeviceFiles!Next
  /\ UNCHANGED <<part, runq, wq, ready, events, pc, timer, expired, workerVars, pipeVars,
                 eventVars, pollVars, epollVars, cacheVars>>
ForkedFilesStep ==
  /\ part = "forks" /\ ForkedFiles!Next
  /\ UNCHANGED <<part, runq, wq, ready, events, pc, timer, expired, workerVars, pipeVars,
                 eventVars, pollVars, epollVars, cacheVars>>
CacheStep ==
  /\ part = "cache" /\ Cache!Next
  /\ UNCHANGED <<part, runq, call, wq, ready, events, pc, timer, expired, files, self,
                 workerVars, pipeVars, eventVars, pollVars, epollVars, fileVars>>
EvictingStep ==
  /\ part = "evict" /\ Evicting!Next
  /\ UNCHANGED <<part, runq, call, wq, ready, events, pc, timer, expired, files, self,
                 workerVars, pipeVars, eventVars, pollVars, epollVars, fileVars>>
FailingDiskStep ==
  /\ part = "faults" /\ FailingDisk!Next
  /\ UNCHANGED <<part, runq, call, wq, ready, events, pc, timer, expired, files, self,
                 workerVars, pipeVars, eventVars, pollVars, epollVars, fileVars>>

VfsNext ==
  \/ WorkerStep
  \/ PipeStep
  \/ ShortPipeStep
  \/ EventfdStep
  \/ SemaphoreFdStep
  \/ PollStep
  \/ SelectCallStep
  \/ EpollStep
  \/ CloseStep
  \/ FilesStep
  \/ DeviceFilesStep
  \/ ForkedFilesStep
  \/ CacheStep
  \/ EvictingStep
  \/ FailingDiskStep

VfsSpec == VfsInit /\ [][VfsNext]_vfsVars

-----------------------------------------------------------------------------
(* Properties *)

\* The tables and lists are well formed between any two steps of the workers:
\* types; an epoll item is on one list at most, and stays while a driver is
\* asked about it; the wait-queue entries and timers of poll() and epoll_wait(),
\* which are on the stack of the call, are linked nowhere once it has returned;
\* a block is in one buffer, which is in the LRU list exactly while nobody uses it.
WellFormed ==
  /\ part = "worker" => Worker!TypeOK
  /\ part = "pipe" => Pipe!TypeOK
  /\ part = "semaphore" => SemaphoreFd!TypeOK
  /\ part = "poll" => Poll!TypeOK /\ Poll!StackUnlinked
  /\ part = "select" => SelectCall!TypeOK /\ SelectCall!StackUnlinked
  /\ part = "epoll" => Epoll!TypeOK /\ Epoll!ListsSound /\ Epoll!StackUnlinked
  /\ part = "close" => Close!TypeOK /\ Close!ListsSound /\ Close!StackUnlinked
  /\ part = "cache" => Cache!BuffersExact
  /\ part = "evict" => Evicting!BuffersExact
  /\ part = "faults" => FailingDisk!BuffersExact

\* A call is in one place: received by nobody, put off, or with one worker, which
\* its process names; and a worker left behind by a process that died in a call
\* keeps the slot from a new process until that call ends.  worker_assign() never
\* runs out of workers, and requests wait only while block_all is set, so the
\* branch of worker_get_work() for them is not entered.
CallHeldOnce ==
  part = "worker" => /\ Worker!CallHeldOnce /\ Worker!WorkerOfProc /\ Worker!SlotNotReused
                     /\ Worker!EnoughWorkers /\ Worker!PendingOnlyBlocked

\* Nobody sleeps beside what they wait for: readers of a pipe, readers and
\* writers of an event file, poll() and select() beside a ready file, epoll_wait()
\* beside an item of the ready list, on which every ready file is.
NoSleeperBesideData ==
  /\ part = "pipe" => Pipe!NoSleepingReader
  /\ part = "nonblock" => ShortPipe!NonblockNeverSleeps
  /\ part = "eventfd" => Eventfd!NoMissedWake
  /\ part = "poll" => Poll!SleepsUnready
  /\ part = "select" => SelectCall!SleepsUnready
  /\ part = "epoll" => Epoll!ReadyListed /\ Epoll!NoSleeperBesideEvent
  /\ part = "close" => Close!ReadyListed /\ Close!NoSleeperBesideEvent

\* A pipe holds the bytes written and not read, in order, and an event file the
\* sum written less the sum read, over partial, failing and interrupted calls; the
\* position of a file that processes share counts the reads.
StreamExact ==
  /\ part = "pipe" => Pipe!PipeHoldsStream
  /\ part = "nonblock" => ShortPipe!PipeHoldsStream
  /\ part = "eventfd" => Eventfd!CounterExact
  /\ part = "semaphore" => SemaphoreFd!CounterExact
  /\ part = "files" => Files!PositionExact

\* A worker goes on as itself and on objects that still exist: self names it
\* whenever it runs, no worker is woken for a pipe that was freed, and no inode is
\* freed under a worker that locks it.
ResumesInPlace ==
  /\ part = "pipe" => Pipe!RunsOnLivePipe
  /\ part = "epoll" => Epoll!RunsAsSelf
  /\ part = "close" => Close!RunsAsSelf
  /\ part = "files" => Files!NoneFreed
  /\ part = "devices" => DeviceFiles!NoneFreed
  /\ part = "forks" => ForkedFiles!NoneFreed

\* Descriptors, filps, inodes and the file server count each other exactly while
\* opens, closes, forks and exits overlap; a descriptor is free when it is taken;
\* and locks are given back and never waited for in a circle.
FilesExact ==
  /\ part = "files" => Files!RefsExact /\ Files!FdUnused /\ Files!LocksReturned
  /\ part = "devices" => DeviceFiles!RefsExact /\ DeviceFiles!FdUnused /\ DeviceFiles!LocksReturned
  /\ part = "forks" => ForkedFiles!RefsExact /\ ForkedFiles!FdUnused /\ ForkedFiles!LocksReturned

\* What was written last is what is read, from whichever of the two caches, and
\* it is on the disk or in a buffer that will be written.
DataKept ==
  /\ part = "cache" => Cache!ReadsLatest /\ Cache!NoWriteForgotten
  /\ part = "evict" => Evicting!ReadsLatest /\ Evicting!NoWriteForgotten
=============================================================================
