------------------------------- MODULE PMProc --------------------------------
(***************************************************************************)
(* Processes in the process manager: fork, exit, wait and kill.  PM takes  *)
(* one request at a time, so each is one step; it asks MM and VFS with     *)
(* BOTH and cannot do anything else meanwhile.  All processes are in one   *)
(* process group and no signal is caught, ignored or blocked, so that a    *)
(* signal is SIGCHLD, with no effect, or ends the process.                 *)
(***************************************************************************)
EXTENDS Integers, FiniteSets, FiniteSetsExt

CONSTANTS NR_PROCS,
          NO_STATUS,
          MaxForks, MaxKills,   \* bounds
          Groups                \* the program also waits for process groups

Slots == 1 .. NR_PROCS
INIT == 1
INIT_PID == 1

VARIABLES
  proc,      \* pmproc_table, and what the process does
  files,     \* the processes that have files in VFS
  vfs_up,    \* VFS has not run into a null pointer
  forks, kills

vars == <<proc, files, vfs_up, forks, kills>>

Endpoint(s, gen) == [slot |-> s, gen |-> gen]

Free(gen) == [flags |-> {}, ep |-> gen, parent |-> Endpoint(INIT, 0), pid |-> 0,
              wait_pid |-> 0, status |-> NO_STATUS, call |-> "dead",
              got |-> [pid |-> 0, status |-> NO_STATUS]]

\* INIT is its own parent
Init ==
  /\ proc = [s \in Slots |-> IF s # INIT THEN Free(0) ELSE
       [Free(0) EXCEPT !.flags = {"INUSE"}, !.pid = INIT_PID, !.call = "user"]]
  /\ files = {INIT} /\ vfs_up = TRUE /\ forks = 0 /\ kills = 0

InUse(T, s) == "INUSE" \in T[s].flags

Children(T, s) == {c \in Slots : T[c].parent = Endpoint(s, T[s].ep)}

-----------------------------------------------------------------------------
(* The table after each of the functions of forkexit.c                     *)

cleanup(T, s) == [T EXCEPT ![s].flags = {}, ![s].pid = 0]

\* mutant: the WAITING bit stays
tell_parent_Waiting(T, s) ==
  LET p == T[s].parent.slot IN
  [T EXCEPT ![p].call = IF @ = "wait" THEN "user" ELSE @,
            ![p].got = [pid |-> T[s].pid, status |-> T[s].status]]

\* the answer goes to a process that is in its receive
tell_parent(T, s) ==
  LET p == T[s].parent.slot IN
  [T EXCEPT ![p].flags = @ \ {"WAITING"},
            ![p].call = IF @ = "wait" THEN "user" ELSE @,
            ![p].got = [pid |-> T[s].pid, status |-> T[s].status]]

waiting_for(T, p, s) ==
  "WAITING" \in T[p].flags /\ T[p].wait_pid \in {-1, T[s].pid}

check_parent(T, s) ==
  IF waiting_for(T, T[s].parent.slot, s) THEN cleanup(tell_parent(T, s), s)
  ELSE [T EXCEPT ![s].flags = @ \cup {"HANGING"}]

\* mutant: children keep their dead parent
Adopted_Not(T, s) == T

\* the children of a dead process go to INIT, which hears of one zombie if it
\* waits
Adopted(T, s) ==
  LET kids == Children(T, s)
      U == [c \in Slots |-> IF c \in kids THEN [T[c] EXCEPT !.parent = Endpoint(INIT, 0)]
                            ELSE T[c]]
      zombies == {c \in kids : "HANGING" \in T[c].flags} IN
  IF "WAITING" \in T[INIT].flags /\ zombies # {}
  THEN check_parent(U, Min(zombies)) ELSE U

exit_proc(T, s, status) ==
  Adopted(check_parent([T EXCEPT ![s].status = status, ![s].call = "dead"], s), s)

\* mutant: the files stay
fs_exit_Keeps(s) == UNCHANGED <<vfs_up, files>>

\* fs_exit(): exit_files() takes a reference from fp->files
fs_exit(s) ==
  /\ vfs_up' = (s \in files) /\ files' = files \ {s}

-----------------------------------------------------------------------------
(* Requests: PM can take them as long as VFS answers it                     *)

Asks(s) == vfs_up /\ proc[s].call = "user"

\* the least pid that is free, from INIT_PID + 2 on
find_free_pid == Min({n \in INIT_PID + 2 .. INIT_PID + 2 + NR_PROCS :
                        \A s \in Slots : proc[s].pid # n})

do_fork(s) ==
  LET free == {c \in Slots : ~InUse(proc, c)} IN
  /\ Asks(s) /\ forks < MaxForks /\ free # {}
  /\ LET c == Min(free) IN
     /\ proc' = [proc EXCEPT ![c] =
          [Free(proc[c].ep + 1) EXCEPT !.flags = {"INUSE"}, !.call = "user",
             !.parent = Endpoint(s, proc[s].ep), !.pid = find_free_pid]]
     /\ files' = files \cup {c}
  /\ forks' = forks + 1 /\ UNCHANGED <<vfs_up, kills>>

\* EAGAIN: the table is full
ForkFails(s) ==
  /\ Asks(s) /\ \A c \in Slots : InUse(proc, c)
  /\ UNCHANGED vars

do_exit(s) ==
  /\ Asks(s) /\ s # INIT
  /\ fs_exit(s) /\ proc' = exit_proc(proc, s, "exit")
  /\ UNCHANGED <<forks, kills>>

\* sig_proc() with a signal that ends the process, whatever it does just now
do_kill(s, d) ==
  /\ Asks(s) /\ InUse(proc, d) /\ d # INIT /\ kills < MaxKills
  /\ fs_exit(d) /\ proc' = exit_proc(proc, d, "signal")
  /\ kills' = kills + 1 /\ UNCHANGED forks

\* the children that the argument of wait() selects
Selected(s, n) == {c \in Children(proc, s) :
  InUse(proc, c) /\ (n > 0 => proc[c].pid = n)}

Zombies(s, n) == {c \in Selected(s, n) : "HANGING" \in proc[c].flags}

Waiting(s, n) == [proc EXCEPT ![s].flags = @ \cup {"WAITING"},
                              ![s].wait_pid = n, ![s].call = "wait"]

\* wait() finds a zombie
WaitReaps(s, n) ==
  /\ Asks(s) /\ Zombies(s, n) # {}
  /\ proc' = check_parent(Waiting(s, n), Min(Zombies(s, n)))
  /\ UNCHANGED <<files, vfs_up, forks, kills>>

\* children, but no zombie
WaitBlocks(s, n) ==
  /\ Asks(s) /\ Selected(s, n) # {} /\ Zombies(s, n) = {}
  /\ proc' = Waiting(s, n)
  /\ UNCHANGED <<files, vfs_up, forks, kills>>

\* WNOHANG: the reply is the request, with the pid that was asked for in it
WaitNoHang(s, n) ==
  /\ Asks(s) /\ Selected(s, n) # {} /\ Zombies(s, n) = {}
  /\ proc' = [proc EXCEPT ![s].got = [pid |-> n, status |-> NO_STATUS]]
  /\ UNCHANGED <<files, vfs_up, forks, kills>>

\* ECHILD
WaitFails(s, n) ==
  /\ Asks(s) /\ Selected(s, n) = {}
  /\ proc' = [proc EXCEPT ![s].got = [pid |-> -1, status |-> NO_STATUS]]
  /\ UNCHANGED <<files, vfs_up, forks, kills>>

do_wait(s, n) ==
  WaitReaps(s, n) \/ WaitBlocks(s, n) \/ WaitNoHang(s, n) \/ WaitFails(s, n)

\* what may be asked for: anyone, a group, or a child; INIT waits for anyone
Args(s) == {-1} \cup (IF s = INIT THEN {} ELSE
  {proc[c].pid : c \in Children(proc, s) \cap {c \in Slots : InUse(proc, c)}}
  \cup (IF Groups THEN {0} ELSE {}))

Next == \E s \in Slots :
  \/ do_fork(s) \/ ForkFails(s) \/ do_exit(s)
  \/ \E d \in Slots : do_kill(s, d)
  \/ \E n \in Args(s) : do_wait(s, n)

Spec == Init /\ [][Next]_vars

-----------------------------------------------------------------------------
TypeOK ==
  /\ \A s \in Slots :
       /\ proc[s].flags \subseteq {"INUSE", "WAITING", "HANGING"}
       /\ proc[s].pid \in (IF InUse(proc, s) THEN Nat \ {0} ELSE {0})
       /\ proc[s].wait_pid \in Int
       /\ proc[s].call \in {"user", "wait", "dead"}
  /\ files \subseteq Slots /\ vfs_up \in BOOLEAN

Alive(s) == InUse(proc, s) /\ "HANGING" \notin proc[s].flags

\* exit_proc() gives the children of a dead process to INIT: the parent of a
\* process, alive or zombie, is alive, so that somebody can wait for it.
OrphansAdopted == \A s \in Slots : InUse(proc, s) =>
  LET p == proc[s].parent IN Alive(p.slot) /\ proc[p.slot].ep = p.gen

\* do_wait() and exit_proc() meet whichever comes first: nobody waits while a
\* child that the call asked for is a zombie.
NoSleepBesideZombie == \A s \in Slots :
  (proc[s].call = "wait" /\ proc[s].wait_pid # 0) =>
    Zombies(s, proc[s].wait_pid) = {}

\* The WAITING bit is set exactly while the process is blocked in wait(): an
\* answer is sent without blocking and to nobody else.
WaitingIsBlocked == \A s \in Slots :
  Alive(s) => ("WAITING" \in proc[s].flags <=> proc[s].call = "wait")

\* A process that is alive, and only such a process, has files in VFS, and no
\* two processes in use have the same pid.
TablesAgree ==
  /\ vfs_up => files = {s \in Slots : Alive(s)}
  /\ \A s, t \in Slots :
       (s # t /\ InUse(proc, s) /\ InUse(proc, t)) => proc[s].pid # proc[t].pid

\* tell_parent() and cleanup(): the table entry of a process is released in the
\* step in which its parent is told its pid and how it ended.
ReleasedWhenTold ==
  \A t \in Slots : (InUse(proc, t) /\ ~InUse(proc, t)') =>
    \E s \in Slots : /\ proc'[s].got = [pid |-> proc[t].pid, status |-> proc'[t].status]
                     /\ proc[s].call \in {"user", "wait"} /\ proc'[s].call = "user"

\* s waits for any child or for one by its pid, or is itself a zombie.
Waits(s) == \/ proc[s].call = "wait" /\ proc[s].wait_pid # 0 /\ s # INIT
            \/ "HANGING" \in proc[s].flags
=============================================================================
