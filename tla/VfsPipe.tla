------------------------------- MODULE VfsPipe -------------------------------
(***************************************************************************)
(* One pipe of the file system server (servers/vfs/pipe.c) between         *)
(* processes that share its two ends, each through one open file.  A call  *)
(* runs in a worker until it sleeps on rd_wait or wr_wait; workers are     *)
(* coroutines, so the first of runq goes on before the main loop takes     *)
(* another call.  The file lock is released before every sleep and is      *)
(* therefore never waited for; it is left out.                             *)
(*                                                                         *)
(* A byte is its number in the stream, modulo Wrap, so that the contents   *)
(* of the buffer can be compared with what was written.                    *)
(***************************************************************************)
EXTENDS Integers, Sequences, FiniteSets

CONSTANTS
  Readers, Writers,  \* the processes that have the read end, the write end
  PIPE_BUF,
  MaxLen,            \* the longest read or write
  Faults,            \* TRUE if the buffers of a call may be unmapped
  NonBlock           \* the ends that have O_NONBLOCK: a subset of {"r", "w"}

Procs == Readers \cup Writers
Wrap == PIPE_BUF + MaxLen + 1

VARIABLES
  data, start, i_size,  \* the buffer
  rd_wait, wr_wait,     \* wait queues, the last to come first
  runq,                 \* workers that were woken, in the order they run
  open,                 \* the processes that still have their end open
  readers, writers, files, freed,
  call,                 \* what each process does: the call and the count left
  dead,                 \* processes that ended inside a call
  rtot, wtot            \* bytes read and written, modulo Wrap

bufVars == <<data, start, i_size, rtot, wtot>>
endVars == <<open, readers, writers, files, freed>>
vars == <<bufVars, rd_wait, wr_wait, runq, endVars, call, dead>>

Idle == [op |-> "none", left |-> 0, asleep |-> FALSE]
Asleep(op, n) == [op |-> op, left |-> n, asleep |-> TRUE]

\* create_pipe(), and forks that share the two files
Init ==
  /\ data = [i \in 0 .. PIPE_BUF - 1 |-> 0] /\ start = 0 /\ i_size = 0
  /\ rd_wait = <<>> /\ wr_wait = <<>> /\ runq = <<>>
  /\ open = Procs /\ readers = 1 /\ writers = 1 /\ files = 2 /\ freed = FALSE
  /\ call = [p \in Procs |-> Idle] /\ dead = {}
  /\ rtot = 0 /\ wtot = 0

-----------------------------------------------------------------------------
(* wait queues: an entry that is woken stays in the queue, without a worker, *)
(* until the worker takes it out; here it leaves when it is woken            *)

Smaller(m, n) == IF m <= n THEN m ELSE n

\* waitqueue_wakeup_all(&pipe->rd_wait)
wakeup_rd == rd_wait' = <<>> /\ runq' = runq \o rd_wait

\* waitqueue_wakeup_all(&pipe->wr_wait), when q can run already
wakeup_wr(q) == wr_wait' = <<>> /\ runq' = q \o wr_wait

-----------------------------------------------------------------------------
(* pipe_read(), from the top of its loop, with the workers q left to run *)

Returns(p) == /\ call' = [call EXCEPT ![p] = Idle]
              /\ dead' = dead \ {p}

\* data_copy() from or to a process that is gone, or an unmapped buffer
CopyFails(p) == p \in dead \/ Faults

\* nothing to read: the writers can run, and the reader returns or sleeps
ReadEmpty(p, n, q) ==
  /\ i_size = 0 /\ writers > 0 /\ wakeup_wr(q)
  /\ IF "r" \in NonBlock THEN Returns(p) /\ UNCHANGED rd_wait
     ELSE /\ rd_wait' = <<p>> \o rd_wait
          /\ call' = [call EXCEPT ![p] = Asleep("read", n)]
          /\ UNCHANGED dead
  /\ UNCHANGED <<bufVars, endVars>>

\* data_copy() to the reader, or its failure
ReadData(p, n, q) ==
  /\ i_size > 0
  /\ \/ LET size == Smaller(n, i_size) IN
        /\ p \notin dead
        /\ start' = start + size /\ i_size' = i_size - size
        /\ rtot' = (rtot + size) % Wrap
        /\ UNCHANGED <<data, wtot>>
     \/ CopyFails(p) /\ UNCHANGED bufVars
  /\ Returns(p) /\ runq' = q
  /\ UNCHANGED <<rd_wait, wr_wait, endVars>>

ReadEnd(p, q) ==
  /\ i_size = 0 /\ writers = 0
  /\ Returns(p) /\ runq' = q
  /\ UNCHANGED <<bufVars, rd_wait, wr_wait, endVars>>

pipe_read(p, n, q) == ReadEmpty(p, n, q) \/ ReadData(p, n, q) \/ ReadEnd(p, q)

-----------------------------------------------------------------------------
(* pipe_write(), from the top of its loop *)

\* mutant: the bytes that are left are not moved to the front
Compacted_Stay == data

\* the bytes that are left move to the front of the buffer
Compacted == [i \in 0 .. PIPE_BUF - 1 |->
               IF start > 0 /\ i < i_size THEN data[start + i] ELSE data[i]]

\* Room: how many of n bytes can be copied now; 0 when the writer has to wait
Room(n) == CASE i_size + n <= PIPE_BUF -> n
             [] i_size + n > PIPE_BUF /\ n > PIPE_BUF /\ "w" \notin NonBlock ->
                  PIPE_BUF - i_size
             [] OTHER -> 0

\* -EAGAIN of a file with O_NONBLOCK
WriteAgain(p, n, q) ==
  /\ "w" \in NonBlock /\ i_size + n > PIPE_BUF
  /\ n <= PIPE_BUF \/ i_size = PIPE_BUF
  /\ Returns(p) /\ runq' = q
  /\ UNCHANGED <<bufVars, rd_wait, wr_wait, endVars>>

\* goto wait: no room, or a long write to a file with O_NONBLOCK, which has
\* taken size = PIPE_BUF - pos and woken the readers
WriteWait(p, n, q) ==
  /\ Room(n) = 0
  /\ "w" \in NonBlock => n > PIPE_BUF /\ i_size < PIPE_BUF
  /\ wr_wait' = <<p>> \o wr_wait
  /\ call' = [call EXCEPT ![p] = Asleep("write", n)]
  /\ IF "w" \in NonBlock THEN rd_wait' = <<>> /\ runq' = q \o rd_wait
                         ELSE UNCHANGED rd_wait /\ runq' = q
  /\ UNCHANGED <<bufVars, endVars, dead>>

\* Readers are woken when the pipe was empty and on a partial write.
WakesReaders(n) == i_size = 0 \/ Room(n) < n

\* the copy, and the sleep for the rest if the write was partial
WriteData(p, n, q) ==
  LET size == Room(n) IN
  /\ size > 0 /\ p \notin dead
  /\ data' = [i \in 0 .. PIPE_BUF - 1 |->
               IF i \in i_size .. i_size + size - 1 THEN (wtot + i - i_size) % Wrap
               ELSE Compacted[i]]
  /\ start' = 0 /\ i_size' = i_size + size
  /\ wtot' = (wtot + size) % Wrap
  /\ IF WakesReaders(n) THEN rd_wait' = <<>> /\ runq' = q \o rd_wait
                        ELSE UNCHANGED rd_wait /\ runq' = q
  /\ IF size = n THEN Returns(p) /\ UNCHANGED wr_wait
     ELSE /\ wr_wait' = <<p>> \o wr_wait
          /\ call' = [call EXCEPT ![p] = Asleep("write", n - size)]
          /\ UNCHANGED dead
  /\ UNCHANGED <<rtot, endVars>>

\* data_copy() fails: the readers were woken, the buffer was moved
WriteFault(p, n, q) ==
  /\ Room(n) > 0 /\ CopyFails(p)
  /\ data' = Compacted /\ start' = 0
  /\ IF WakesReaders(n) THEN rd_wait' = <<>> /\ runq' = q \o rd_wait
                        ELSE UNCHANGED rd_wait /\ runq' = q
  /\ Returns(p)
  /\ UNCHANGED <<i_size, rtot, wtot, wr_wait, endVars>>

pipe_write(p, n, q) == \/ WriteAgain(p, n, q) \/ WriteWait(p, n, q)
                       \/ WriteData(p, n, q) \/ WriteFault(p, n, q)

-----------------------------------------------------------------------------
(* calls *)

Ready(p) == runq = <<>> /\ p \in open /\ call[p] = Idle

Read(p, n) == Ready(p) /\ p \in Readers /\ pipe_read(p, n, runq)
Write(p, n) == Ready(p) /\ p \in Writers /\ pipe_write(p, n, runq)

\* the first worker that was woken goes on
Continue ==
  /\ runq # <<>>
  /\ LET p == Head(runq) IN
     \/ call[p].op = "read" /\ pipe_read(p, call[p].left, Tail(runq))
     \/ call[p].op = "write" /\ pipe_write(p, call[p].left, Tail(runq))

\* pipe_release() of the last reference to one end: the other end is woken,
\* and the pipe is freed with its last file
pipe_release(p) ==
  LET r == IF p \in Readers THEN readers - 1 ELSE readers
      w == IF p \in Writers THEN writers - 1 ELSE writers IN
  /\ readers' = r /\ writers' = w /\ files' = files - 1 /\ freed' = (files = 1)
  /\ CASE w = 0 /\ r > 0 -> wakeup_rd /\ UNCHANGED wr_wait
       [] r = 0 /\ w > 0 -> wakeup_wr(runq) /\ UNCHANGED rd_wait
       [] OTHER -> UNCHANGED <<rd_wait, wr_wait, runq>>

\* close_filp() of the process's descriptor
Closed(p) ==
  /\ open' = open \ {p}
  /\ IF \E o \in open \ {p} : (o \in Readers) = (p \in Readers)
     THEN UNCHANGED <<readers, writers, files, freed, rd_wait, wr_wait, runq>>
     ELSE pipe_release(p)

Close(p) == Ready(p) /\ Closed(p) /\ UNCHANGED <<bufVars, call, dead>>

\* fs_exit() of a process that sleeps in the pipe: its descriptor is closed and
\* its worker sleeps on
Exit(p) ==
  /\ runq = <<>> /\ p \in open /\ call[p].asleep
  /\ Closed(p) /\ dead' = dead \cup {p}
  /\ UNCHANGED <<bufVars, call>>

Lens == 1 .. MaxLen

Next ==
  \/ Continue
  \/ \E p \in Readers, n \in Lens : Read(p, n)
  \/ \E p \in Writers, n \in Lens : Write(p, n)
  \/ \E p \in Procs : Close(p) \/ Exit(p)

Spec == Init /\ [][Next]_vars

-----------------------------------------------------------------------------

Calls == [op : {"none", "read", "write"}, left : 0 .. MaxLen, asleep : BOOLEAN]

TypeOK ==
  /\ data \in [0 .. PIPE_BUF - 1 -> 0 .. Wrap - 1]
  /\ start \in 0 .. PIPE_BUF /\ i_size \in 0 .. PIPE_BUF
  /\ rd_wait \in Seq(Procs) /\ wr_wait \in Seq(Procs) /\ runq \in Seq(Procs)
  /\ open \subseteq Procs /\ dead \subseteq Procs
  /\ readers \in 0 .. 1 /\ writers \in 0 .. 1 /\ files = readers + writers
  /\ freed = (files = 0)
  /\ call \in [Procs -> Calls]
  /\ rtot \in 0 .. Wrap - 1 /\ wtot \in 0 .. Wrap - 1

\* The buffer holds exactly the bytes that were written and not yet read, in
\* the order they were written: no byte is lost, read twice or overwritten,
\* over partial writes, the memmove() in pipe_write(), reads that leave a rest,
\* and copies that fail.
PipeHoldsStream ==
  /\ wtot = (rtot + i_size) % Wrap
  /\ start + i_size <= PIPE_BUF
  /\ \A i \in 0 .. i_size - 1 : data[start + i] = (rtot + i) % Wrap

InQueue(q) == {q[i] : i \in DOMAIN q}

\* A living reader that sleeps in pipe_read() and was not woken has nothing to
\* read, and a writer can still come: neither a write nor the release of the
\* write end was missed.
NoSleepingReader ==
  InQueue(rd_wait) \ dead # {} => i_size = 0 /\ writers > 0

\* A worker that goes on takes its entry out of the pipe's wait queue, so
\* pipe_release() must not wake workers of the pipe it frees.
RunsOnLivePipe == runq # <<>> => ~freed

\* A call on a file with O_NONBLOCK does not sleep: it holds while writes fit in
\* the pipe and fails for a longer one, which passes through goto wait.
NonblockNeverSleeps == /\ "w" \in NonBlock => wr_wait = <<>>
                       /\ "r" \in NonBlock => rd_wait = <<>>

\* A living process sleeps in a call whose other end is still there.
Sleeps(p) ==
  /\ p \notin dead
  /\ \/ p \in InQueue(wr_wait) /\ readers > 0
     \/ p \in InQueue(rd_wait) /\ ~freed
=============================================================================
