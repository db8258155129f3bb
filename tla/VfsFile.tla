------------------------------ MODULE VfsFile -------------------------------
(***************************************************************************)
(* Open files in the file system server (file.c, open.c, inode.c, path.c,  *)
(* misc.c): tables of file descriptors, which threads share; filps, which  *)
(* processes share after fork(); and inodes, which filps share and the     *)
(* file server counts.  A worker runs until it waits for a lock, a file    *)
(* server or a driver, and the others run meanwhile.  There is one mount.  *)
(* Locks are granted in the order of their requests, as those of libcoro   *)
(* are (module Coro).                                                      *)
(***************************************************************************)
EXTENDS Integers, Sequences, FiniteSets, SequencesExt, FiniteSetsExt

CONSTANTS
  Procs, Born,      \* processes; those that exist at first
  Fds,              \* numbers of descriptors (bound)
  NR_FILE_DESC,     \* filps (bound)
  Pins,             \* inodes in memory, numbers (bound)
  Inodes,           \* of the file system
  Devices,          \* those that are character devices
  Threads,          \* the processes that share their files, by CLONE_FILES
  Calls,            \* the calls that are made
  MaxReads,         \* bound: reads from a filp
  MaxLookups        \* bound: what the file server counts

VARIABLES
  table,    \* of a process: its files_struct, or NoTable
  files,    \* filp[] of a files_struct: descriptor -> filp
  filp,     \* f_desc_table: fd_cnt, fd_inode, fd_pos, and the reads since it was opened
  pin,      \* inode: i_num, i_cnt, i_fs_cnt, and whether it is hashed
  fs_cnt,   \* what the file server counts for an inode
  lockq,    \* of a lock: who has it and who waits, in order
  call,     \* of a process: what its worker does and where it is
  self      \* the process whose worker runs, or nobody

vars == <<table, files, filp, pin, fs_cnt, lockq, call, self>>

Filps == 1 .. NR_FILE_DESC
NoTable == "none"
Tables == Procs      \* a table is named after the process it was made for
NULL == 0

FreeFilp == [fd_cnt |-> 0, fd_inode |-> NULL, fd_pos |-> 0, reads |-> 0]
FreePin == [i_num |-> NULL, i_cnt |-> 0, i_fs_cnt |-> 0, hashed |-> FALSE]
Idle ==
  [at |-> "idle", op |-> "none", for |-> "none", fd |-> NULL, filp |-> NULL, pin |-> NULL, n |-> 0]

vmnt == <<"vmnt", 0>>
ILock(i) == <<"inode", i>>
FLock(f) == <<"filp", f>>
Locks == {vmnt} \cup {ILock(i) : i \in Pins} \cup {FLock(f) : f \in Filps}

Init ==
  /\ table = [p \in Procs |-> IF p \in Born THEN p ELSE NoTable]
  /\ files = [t \in Tables |-> [d \in Fds |-> NULL]]
  /\ filp = [f \in Filps |-> FreeFilp] /\ pin = [i \in Pins |-> FreePin]
  /\ fs_cnt = [n \in Inodes |-> 0]
  /\ lockq = [l \in Locks |-> <<>>]
  /\ call = [p \in Procs |-> Idle] /\ self = NULL

-----------------------------------------------------------------------------
(* locks *)

\* A reader has the lock when only readers are before it, a writer when nobody is
Has(p, l) ==
  \E k \in DOMAIN lockq[l] :
    /\ lockq[l][k].who = p
    /\ IF lockq[l][k].for = "read" THEN \A j \in 1 .. k : lockq[l][j].for = "read" ELSE k = 1

Locked(q, p, l, for) == [q EXCEPT ![l] = Append(@, [who |-> p, for |-> for])]
Unlocked(q, p, l) == [q EXCEPT ![l] = SelectSeq(@, LAMBDA e : e.who # p)]

\* lock_filp(): the inode, and then the filp
lock_filp(p, f, for) == lockq' = Locked(lockq, p, ILock(filp[f].fd_inode), for)
\* unlock_filp() of a filp that is open
unlock_filp(q, p, f) == Unlocked(Unlocked(q, p, ILock(filp[f].fd_inode)), p, FLock(f))

At(p, where) == call[p].at = where
Goto(p, where) == call' = [call EXCEPT ![p].at = where]
Return(p) == call' = [call EXCEPT ![p] = Idle]

FilesOf(p) == files[table[p]]
install_filp(p, d, f) == files' = [files EXCEPT ![table[p]][d] = f]

-----------------------------------------------------------------------------
(* open *)

\* get_fd(): the first descriptor that is not used, and the first filp
FreeFds(p) == {d \in Fds : FilesOf(p)[d] = NULL}
FreeFilps == {f \in Filps : filp[f].fd_inode = NULL /\ lockq[FLock(f)] = <<>>}

Alive(p) == At(p, "idle") /\ table[p] # NoTable

\* common_openat(), to where the mount is to be locked
Open(p, n) ==
  /\ Alive(p) /\ FreeFds(p) # {} /\ FreeFilps # {} /\ fs_cnt[n] < MaxLookups
  /\ LET f == Min(FreeFilps) IN
     /\ lockq' = Locked(Locked(lockq, p, FLock(f), "write"), p, vmnt, "write")
     /\ call' = [call EXCEPT ![p] =
          [Idle EXCEPT !.at = "lookup", !.op = "open", !.fd = Min(FreeFds(p)), !.filp = f, !.n = n]]
  /\ UNCHANGED <<table, files, filp, pin, fs_cnt>>

\* advance_path(): the file server answers request_lookup(), and counts; the
\* lock of the mount is made weaker
Lookup(p) ==
  /\ At(p, "lookup") /\ Has(p, vmnt)
  /\ fs_cnt' = [fs_cnt EXCEPT ![call[p].n] = @ + 1]
  /\ lockq' = Locked(Unlocked(lockq, p, vmnt), p, vmnt, "read")
  /\ Goto(p, "found")
  /\ UNCHANGED <<table, files, filp, pin>>

LookupFails(p) ==
  /\ At(p, "lookup") /\ Has(p, vmnt)
  /\ lockq' = Unlocked(Unlocked(lockq, p, vmnt), p, FLock(call[p].filp))
  /\ Return(p)
  /\ UNCHANGED <<table, files, filp, pin, fs_cnt>>

find_inode(n) == {i \in Pins : pin[i].hashed /\ pin[i].i_num = n}
FreePins == {i \in Pins : pin[i] = FreePin}

\* mutant: the count of an inode that is in memory is not raised
Found_NoCount(p) ==
  LET n == call[p].n
      new == find_inode(n) = {}
      i == Min(IF new THEN FreePins ELSE find_inode(n)) IN
  /\ At(p, "found") /\ Has(p, vmnt) /\ (new => FreePins # {})
  /\ pin' = [pin EXCEPT ![i] =
       IF new THEN [i_num |-> n, i_cnt |-> 1, i_fs_cnt |-> 0, hashed |-> TRUE] ELSE @]
  /\ lockq' = Locked(lockq, p, ILock(i), "write")
  /\ call' = [call EXCEPT ![p].at = "inode", ![p].pin = i]
  /\ UNCHANGED <<table, files, filp, fs_cnt>>

\* ... and the inode is found and its count raised, or made, and locked
Found(p) ==
  LET n == call[p].n
      new == find_inode(n) = {}
      i == Min(IF new THEN FreePins ELSE find_inode(n)) IN
  /\ At(p, "found") /\ Has(p, vmnt) /\ (new => FreePins # {})
  /\ pin' = [pin EXCEPT ![i] =
       IF new THEN [i_num |-> n, i_cnt |-> 1, i_fs_cnt |-> 0, hashed |-> TRUE]
       ELSE [@ EXCEPT !.i_cnt = @ + 1]]
  /\ lockq' = Locked(lockq, p, ILock(i), "write")
  /\ call' = [call EXCEPT ![p].at = "inode", ![p].pin = i]
  /\ UNCHANGED <<table, files, filp, fs_cnt>>

\* The rest of common_openat(): the descriptor is installed.  A device is
\* opened by its driver, and a file whose permissions do not allow it is closed.
OpenInode(p) ==
  LET c == call[p] IN
  /\ At(p, "inode") /\ Has(p, ILock(c.pin))
  /\ pin' = [pin EXCEPT ![c.pin].i_fs_cnt = @ + 1]
  /\ install_filp(p, c.fd, c.filp)
  /\ filp' = [filp EXCEPT ![c.filp] = [FreeFilp EXCEPT !.fd_cnt = 1, !.fd_inode = c.pin]]
  /\ lockq' = Unlocked(lockq, p, vmnt)
  /\ Goto(p, "opened")
  /\ UNCHANGED <<table, fs_cnt>>

Opened(p) ==
  /\ At(p, "opened")
  /\ lockq' = unlock_filp(lockq, p, call[p].filp)
  /\ Return(p)
  /\ UNCHANGED <<table, files, filp, pin, fs_cnt>>

OpenFails(p) ==
  LET c == call[p] IN
  /\ At(p, "opened")
  /\ install_filp(p, c.fd, NULL)
  /\ filp' = [filp EXCEPT ![c.filp] = FreeFilp]
  /\ lockq' = Locked(unlock_filp(lockq, p, c.filp), p, ILock(c.pin), "write")
  /\ Goto(p, "put")
  /\ UNCHANGED <<table, pin, fs_cnt>>

-----------------------------------------------------------------------------
(* read, dup *)

\* get_filp(), for a call that reads or writes, duplicates or closes
Get(p, d, op, for) ==
  LET f == FilesOf(p)[d] IN
  /\ Alive(p) /\ f # NULL /\ (op = "dup" => FreeFds(p) # {})
  /\ IF filp[f].fd_inode # NULL
     THEN lock_filp(p, f, for) ELSE lockq' = Locked(lockq, p, FLock(f), "write")
  /\ call' = [call EXCEPT ![p] =
       [Idle EXCEPT !.at = IF filp[f].fd_inode # NULL THEN "filp" ELSE "locked", !.op = op,
                    !.for = for, !.fd = d, !.filp = f, !.pin = filp[f].fd_inode]]
  /\ UNCHANGED <<table, files, filp, pin, fs_cnt>>

\* ... goes on to the lock of the filp
GetLock(p) ==
  /\ At(p, "filp") /\ Has(p, ILock(call[p].pin))
  /\ lockq' = Locked(lockq, p, FLock(call[p].filp), "write")
  /\ Goto(p, "locked")
  /\ UNCHANGED <<table, files, filp, pin, fs_cnt>>

Owns(p) == At(p, "locked") /\ Has(p, FLock(call[p].filp))
\* unlock_filp(), which looks at fd_cnt
Released(p) ==
  LET f == call[p].filp IN
  IF filp[f].fd_cnt > 0 THEN unlock_filp(lockq, p, f) ELSE Unlocked(lockq, p, FLock(f))

\* do_rdwt(): a file server is asked to read at the position; for a device the
\* locks are given back first (cdev_read())
Read(p) ==
  LET c == call[p] IN
  /\ Owns(p) /\ c.op = "read" /\ filp[c.filp].fd_inode # NULL /\ filp[c.filp].fd_pos < MaxReads
  /\ LET dev == pin[filp[c.filp].fd_inode].i_num \in Devices IN
     /\ lockq' = IF dev THEN Released(p) ELSE lockq
     /\ call' = [call EXCEPT ![p].at = IF dev THEN "driver" ELSE "server", ![p].n = filp[c.filp].fd_pos]
  /\ UNCHANGED <<table, files, filp, pin, fs_cnt>>

\* A file that another closed meanwhile is neither read nor closed
GetNothing(p) ==
  /\ Owns(p) /\ call[p].op # "dup" /\ filp[call[p].filp].fd_inode = NULL
  /\ lockq' = Released(p) /\ Return(p)
  /\ UNCHANGED <<table, files, filp, pin, fs_cnt>>

ServerAnswers(p) ==
  LET c == call[p] IN
  /\ At(p, "server")
  /\ filp' = [filp EXCEPT ![c.filp].fd_pos = c.n + 1, ![c.filp].reads = @ + 1] \/ UNCHANGED filp
  /\ lockq' = Released(p) /\ Return(p)
  /\ UNCHANGED <<table, files, pin, fs_cnt>>

\* A driver does not use the position; the locks are taken again
DriverAnswers(p) ==
  LET f == call[p].filp IN
  /\ At(p, "driver")
  /\ IF filp[f].fd_inode # NULL
     THEN lock_filp(p, f, call[p].for) /\ call' = [call EXCEPT ![p].at = "refilp", ![p].pin = filp[f].fd_inode]
     ELSE lockq' = Locked(lockq, p, FLock(f), "write") /\ Goto(p, "relocked")
  /\ UNCHANGED <<table, files, filp, pin, fs_cnt>>

RegetLock(p) ==
  /\ At(p, "refilp") /\ Has(p, ILock(call[p].pin))
  /\ lockq' = Locked(lockq, p, FLock(call[p].filp), "write")
  /\ Goto(p, "relocked")
  /\ UNCHANGED <<table, files, filp, pin, fs_cnt>>

ReadDevice(p) ==
  LET c == call[p] IN
  /\ At(p, "relocked") /\ Has(p, FLock(c.filp))
  /\ filp' = [filp EXCEPT ![c.filp].fd_pos = c.n]
  /\ lockq' = Released(p) /\ Return(p)
  /\ UNCHANGED <<table, files, pin, fs_cnt>>

\* do_dup(), to the first free descriptor from where the caller says; one that
\* was used there is closed before
Dup(p) ==
  LET c == call[p] IN
  /\ Owns(p) /\ c.op = "dup"
  /\ filp' = [filp EXCEPT ![c.filp].fd_cnt = @ + 1]
  /\ \E d \in FreeFds(p) : install_filp(p, d, c.filp)
  /\ lockq' = Released(p) /\ Return(p)
  /\ UNCHANGED <<table, pin, fs_cnt>>

-----------------------------------------------------------------------------
(* close *)

\* close_filp() of a filp that others use too
CloseShared(p) ==
  LET c == call[p] IN
  /\ Owns(p) /\ c.op \in {"close", "exit"} /\ filp[c.filp].fd_cnt > 1
  /\ filp' = [filp EXCEPT ![c.filp].fd_cnt = @ - 1]
  /\ install_filp(p, c.fd, NULL)
  /\ lockq' = Unlocked(Unlocked(lockq, p, ILock(filp[c.filp].fd_inode)), p, FLock(c.filp))
  /\ IF c.op = "close" THEN Return(p) ELSE Goto(p, "exit")
  /\ UNCHANGED <<table, pin, fs_cnt>>

\* ... or of one that is used no more: a driver is told, and then the inode is
\* put
CloseLast(p) ==
  LET f == call[p].filp IN
  /\ Owns(p) /\ call[p].op \in {"close", "exit"} /\ filp[f].fd_cnt = 1
  /\ filp' = [filp EXCEPT ![f].fd_cnt = 0]
  /\ Goto(p, "release")
  /\ UNCHANGED <<table, files, pin, fs_cnt, lockq>>

ReleaseDone(p) ==
  LET i == filp[call[p].filp].fd_inode IN
  /\ At(p, "release")
  /\ lockq' = Locked(Unlocked(lockq, p, ILock(i)), p, ILock(i), "write")
  /\ call' = [call EXCEPT ![p].at = "put", ![p].pin = i]
  /\ UNCHANGED <<table, files, filp, pin, fs_cnt>>

\* What follows put_inode(): an open that failed returns; a filp that is closed
\* becomes free, and its descriptor
AfterPut(p, q) ==
  LET c == call[p] IN
  IF c.op = "open"
  THEN lockq' = q /\ Return(p) /\ UNCHANGED <<files, filp>>
  ELSE /\ filp' = [filp EXCEPT ![c.filp] = FreeFilp]
       /\ install_filp(p, c.fd, NULL)
       /\ lockq' = Unlocked(q, p, FLock(c.filp))
       /\ IF c.op = "close" THEN Return(p) ELSE Goto(p, "exit")

\* put_inode() of an inode that others use
PutShared(p) ==
  LET i == call[p].pin IN
  /\ At(p, "put") /\ Has(p, ILock(i)) /\ pin[i].i_cnt > 1
  /\ pin' = [pin EXCEPT ![i].i_cnt = @ - 1]
  /\ AfterPut(p, Unlocked(lockq, p, ILock(i)))
  /\ UNCHANGED <<table, fs_cnt>>

\* ... or that is used no more: it cannot be found again, and the file server
\* is told how often it was looked up
PutLast(p) ==
  LET i == call[p].pin IN
  /\ At(p, "put") /\ Has(p, ILock(i)) /\ pin[i].i_cnt = 1
  /\ pin' = [pin EXCEPT ![i].hashed = FALSE]
  /\ lockq' = Unlocked(lockq, p, ILock(i))
  /\ Goto(p, "putfs")
  /\ UNCHANGED <<table, files, filp, fs_cnt>>

PutAnswered(p) ==
  LET i == call[p].pin IN
  /\ At(p, "putfs")
  /\ fs_cnt' = [fs_cnt EXCEPT ![pin[i].i_num] = @ - pin[i].i_fs_cnt]
  /\ pin' = [pin EXCEPT ![i] = FreePin]
  /\ AfterPut(p, lockq)
  /\ UNCHANGED <<table>>

-----------------------------------------------------------------------------
(* fork and exit, for PM *)

\* fs_fork(): the child gets the table, or a copy of it by dup_files()
Fork(p, c) ==
  /\ Alive(p) /\ table[c] = NoTable /\ \A q \in Procs : table[q] # c
  /\ IF c \in Threads
     THEN table' = [table EXCEPT ![c] = table[p]] /\ UNCHANGED <<files, filp>>
     ELSE /\ table' = [table EXCEPT ![c] = c]
          /\ files' = [files EXCEPT ![c] = FilesOf(p)]
          /\ filp' = [f \in Filps |-> [filp[f] EXCEPT !.fd_cnt =
                        @ + Cardinality({d \in Fds : FilesOf(p)[d] = f})]]
  /\ UNCHANGED <<pin, fs_cnt, lockq, call>>

\* fs_exit(): exit_files(), unless others have the table
Exit(p) ==
  /\ Alive(p)
  /\ IF \E q \in Procs \ {p} : table[q] = table[p]
     THEN table' = [table EXCEPT ![p] = NoTable] /\ UNCHANGED call
     ELSE call' = [call EXCEPT ![p].at = "exit", ![p].op = "exit"] /\ UNCHANGED table
  /\ UNCHANGED <<files, filp, pin, fs_cnt, lockq>>

\* close_files() closes one descriptor after the other
Used(p) == {d \in Fds : FilesOf(p)[d] # NULL}
ExitNext(p) ==
  LET d == Min(Used(p))
      f == FilesOf(p)[d] IN
  /\ At(p, "exit") /\ Used(p) # {}
  /\ lock_filp(p, f, "write")
  /\ call' = [call EXCEPT ![p] = [@ EXCEPT !.at = "filp", !.fd = d, !.filp = f, !.pin = filp[f].fd_inode]]
  /\ UNCHANGED <<table, files, filp, pin, fs_cnt>>

ExitDone(p) ==
  /\ At(p, "exit") /\ Used(p) = {}
  /\ table' = [table EXCEPT ![p] = NoTable]
  /\ Return(p)
  /\ UNCHANGED <<files, filp, pin, fs_cnt, lockq>>

-----------------------------------------------------------------------------
Step(p) ==
  \/ Lookup(p) \/ LookupFails(p) \/ Found(p) \/ OpenInode(p) \/ Opened(p) \/ OpenFails(p)
  \/ GetLock(p) \/ GetNothing(p) \/ Read(p) \/ ServerAnswers(p) \/ DriverAnswers(p)
  \/ RegetLock(p) \/ ReadDevice(p) \/ Dup(p)
  \/ CloseShared(p) \/ CloseLast(p) \/ ReleaseDone(p) \/ PutShared(p) \/ PutLast(p) \/ PutAnswered(p)
  \/ ExitNext(p) \/ ExitDone(p)

Start(p) ==
  \/ \E n \in Inodes : Open(p, n)
  \/ \E d \in Fds : \/ \E for \in {"read", "write"} : "read" \in Calls /\ Get(p, d, "read", for)
                    \/ "dup" \in Calls /\ Get(p, d, "dup", "read")
                    \/ "close" \in Calls /\ Get(p, d, "close", "write")
  \/ \E c \in Procs : Fork(p, c)
  \/ Exit(p)

\* A worker that does not have to wait goes on before others run
GoesOn(p) ==
  LET c == call[p] IN
  \/ c.at = "found" /\ Has(p, vmnt)
  \/ c.at \in {"inode", "filp", "refilp", "put"} /\ Has(p, ILock(c.pin))
  \/ c.at \in {"locked", "relocked"} /\ Has(p, FLock(c.filp))
  \/ c.at = "release" /\ pin[filp[c.filp].fd_inode].i_num \notin Devices
  \/ c.at = "exit"

Next ==
  \E p \in Procs :
    /\ self \in {NULL, p}
    /\ Step(p) \/ (self = NULL /\ Start(p))
    /\ self' = IF GoesOn(p)' THEN p ELSE NULL

Spec == Init /\ [][Next]_vars

-----------------------------------------------------------------------------
(* properties *)

\* What a call holds beyond the tables: an inode that it found and has not
\* installed, or that is to be put
Opening(i) == {p \in Procs : At(p, "inode") /\ call[p].pin = i}
Putting(i) == {p \in Procs : call[p].at \in {"put", "putfs"} /\ call[p].op = "open" /\ call[p].pin = i}
Closing(f) == {p \in Procs : call[p].at \in {"release", "put", "putfs"} /\ call[p].op # "open" /\ call[p].filp = f}

Slots(f) == {<<t, d>> \in Tables \X Fds : (\E q \in Procs : table[q] = t) /\ files[t][d] = f}

\* Every count is exact, however opens, closes, forks and exits of the same
\* file overlap: a filp counts its descriptors, an inode its filps and those
\* about to use or to put it, and the file server the lookups of the inodes in
\* memory and of those on their way.
RefsExact ==
  /\ \A f \in Filps : filp[f].fd_cnt = Cardinality(Slots(f)) - Cardinality(Closing(f))
  /\ \A i \in Pins : pin[i].i_cnt = Cardinality({f \in Filps : filp[f].fd_inode = i})
                                   + Cardinality(Opening(i)) + Cardinality(Putting(i))
  /\ \A n \in Inodes :
       fs_cnt[n] = MapThenSumSet(LAMBDA i : IF pin[i].i_num = n THEN pin[i].i_fs_cnt ELSE 0, Pins)
                 + Cardinality({p \in Procs : call[p].at \in {"found", "inode"} /\ call[p].n = n})

\* An inode is never freed under a worker that has its lock or waits for it,
\* and an inode of the file system is hashed once.
NoneFreed ==
  /\ \A i \in Pins : pin[i] = FreePin => lockq[ILock(i)] = <<>>
  /\ \A n \in Inodes : Cardinality(find_inode(n)) <= 1

\* Reads from a filp that processes share after fork() do not overlap: its
\* position is the number of reads that returned.
PositionExact == \A f \in Filps : filp[f].fd_inode # NULL => filp[f].fd_pos = filp[f].reads

\* A worker waits for those before it in the queue of a lock, when one of the
\* two wants to write
Waits(p, q) ==
  \E l \in Locks : \E j, k \in DOMAIN lockq[l] :
    /\ j < k /\ lockq[l][j].who = q /\ lockq[l][k].who = p
    /\ "write" \in {lockq[l][j].for, lockq[l][k].for}

\* A call that returned has given back its locks, and calls never wait for each
\* other in a circle, although an inode is locked before a filp by get_filp()
\* and after it by close_filp().
LocksReturned ==
  /\ \A l \in Locks : \A k \in DOMAIN lockq[l] : ~At(lockq[l][k].who, "idle")
  /\ \A S \in SUBSET Procs \ {{}} : \E p \in S : \A q \in S : ~Waits(p, q)

\* The descriptor that get_fd() found is unused until the file is installed in
\* it ("find an unused fd in proc's filp table").
FdUnused ==
  \A p \in Procs : call[p].at \in {"lookup", "found", "inode"} => FilesOf(p)[call[p].fd] = NULL
=============================================================================
