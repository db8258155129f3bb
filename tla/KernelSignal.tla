----------------------------- MODULE KernelSignal -----------------------------
(***************************************************************************)
(* Signals that the kernel raises (exceptions, SIGSEGV of a failed copy,   *)
(* sys_kill() of a driver) and the loop of PM that takes them.             *)
(* ksig_proc() stops the process, records the signal and tells PM with a   *)
(* SYSTEM notification; PM calls getksig until nothing is left, handles    *)
(* each set and calls endksig, which lets the process run again.           *)
(* What a signal does to a process is data here: a victim dies or not.     *)
(* The kernel runs on one CPU; between two calls of PM anything may happen.*)
(***************************************************************************)
EXTENDS Integers, FiniteSets, FiniteSetsExt

CONSTANTS Procs,      \* slots of user processes, numbers in the order of proc_table
          Signals,    \* numbers below NSIG
          SIGINT,
          Alive,      \* the processes at the start
          MaxSignals  \* bound on the number of signals the kernel raises

VARIABLES
  state,        \* the PST_ flags of a process that matter here
  sig_pending,  \* proc->sig_pending
  raised,       \* how many signals were raised, for the bound
  ksig,         \* SIGKSIG is in the pending set of PM's priv structure
  notified,     \* PM has a SYSTEM notification pending
  pmflags,      \* PM's table: "free", "inuse" or "hanging"
  pc,           \* where PM is
  msgset,       \* SIGKSIG is in the SIGSET of the notification PM was given
  target, sigset, retval   \* locals of process_system_notify()

kernelVars == <<state, sig_pending, raised, ksig, notified>>
pmVars == <<pmflags, pc, msgset, target, sigset, retval>>
vars == <<kernelVars, pmVars>>

NO_TASK == -1
EINVAL == 22
Flags == {"SIGNALED", "SIG_PENDING", "FREE_SLOT"}
FREE == {"FREE_SLOT"}

Init ==
  /\ state = [p \in Procs |-> IF p \in Alive THEN {} ELSE FREE]
  /\ sig_pending = [p \in Procs |-> {}]
  /\ raised = 0
  /\ ksig = FALSE /\ notified = FALSE
  /\ pmflags = [p \in Procs |-> IF p \in Alive THEN "inuse" ELSE "free"]
  /\ pc = "receive" /\ msgset = FALSE
  /\ target = NO_TASK /\ sigset = {}
  /\ retval \in {0, EINVAL}    \* not initialised in the code

\* verify_endpt(); a slot is compared with exactly PST_FREE_SLOT
Valid(p) == state[p] # FREE

-----------------------------------------------------------------------------
(* The kernel *)

\* mutant: PM is told with a notification that drops a pending one's set
send_sig_Lost ==
  IF pc = "receive"
  THEN pc' = "handed" /\ msgset' = TRUE /\ UNCHANGED <<ksig, notified>>
  ELSE ksig' = TRUE /\ UNCHANGED <<pc, msgset, notified>>

\* send_sig(TASK_PM, SIGKSIG): msg_notify() hands PM the set when it is in its
\* receive, and leaves the bit otherwise
send_sig ==
  IF pc = "receive"
  THEN pc' = "handed" /\ msgset' = TRUE /\ UNCHANGED <<ksig, notified>>
  ELSE ksig' = TRUE /\ notified' = TRUE /\ UNCHANGED <<pc, msgset>>

\* ksig_proc()
ksig_proc(p, s) ==
  /\ Valid(p) /\ s \notin sig_pending[p] /\ raised < MaxSignals
  /\ raised' = raised + 1
  /\ sig_pending' = [sig_pending EXCEPT ![p] = @ \cup {s}]
  /\ IF "SIGNALED" \notin state[p]
     THEN /\ state' = [state EXCEPT ![p] = @ \cup {"SIGNALED", "SIG_PENDING"}]
          /\ send_sig
     ELSE UNCHANGED <<state, ksig, notified, pc, msgset>>
  /\ UNCHANGED <<pmflags, target, sigset, retval>>

\* an exception of the running process p, or a message of it that cannot be read
Exception(p, s) == state[p] = {} /\ ksig_proc(p, s)

\* a driver signals p, in whatever state p is
sys_kill(p, s) == Valid(p) /\ ksig_proc(p, s)

-----------------------------------------------------------------------------
(* The process manager *)

\* msg_receive(ANY) of PM's main loop: a pending notification is delivered,
\* with the set that set_notify_msg() takes out of the priv structure
Receive ==
  IF notified
  THEN pc' = "handed" /\ msgset' = ksig /\ notified' = FALSE /\ ksig' = FALSE
  ELSE pc' = "receive" /\ UNCHANGED <<msgset, notified, ksig>>

\* the notification is handled: without SIGKSIG there is nothing to do
process_system_notify ==
  /\ pc = "handed"
  /\ \/ msgset /\ pc' = "getksig" /\ UNCHANGED <<msgset, notified, ksig>>
     \/ ~msgset /\ Receive
  /\ UNCHANGED <<state, sig_pending, raised, pmflags, target, sigset, retval>>

\* sys_getksig(): the first process that is signaled, or NO_TASK
sys_getksig ==
  /\ pc = "getksig"
  /\ LET signaled == {p \in Procs : "SIGNALED" \in state[p]} IN
     IF signaled # {}
     THEN LET p == Min(signaled) IN
          /\ target' = p /\ sigset' = sig_pending[p]
          /\ sig_pending' = [sig_pending EXCEPT ![p] = {}]
          /\ state' = [state EXCEPT ![p] = @ \ {"SIGNALED"}]
          /\ pc' = "process"
          /\ UNCHANGED <<msgset, notified, ksig>>
     ELSE /\ target' = NO_TASK /\ Receive
          /\ UNCHANGED <<state, sig_pending, sigset>>
  /\ UNCHANGED <<raised, pmflags, retval>>

\* exit_proc() of the processes in D: the kernel clears the slot (PST_SETFLAGS),
\* and those whose parent waits (R) leave the table; a hanging process that is
\* killed again has no slot to clear
Exit(D, R) ==
  /\ state' = [p \in Procs |-> IF p \in D THEN FREE ELSE state[p]]
  /\ pmflags' = [p \in Procs |-> IF p \in R THEN "free"
                                 ELSE IF p \in D THEN "hanging" ELSE pmflags[p]]

InUse == {p \in Procs : pmflags[p] # "free"}

\* process_ksig(): SIGINT goes to the process group, which may be any set of
\* processes, the others to the target
process_ksig(s) ==
  \/ /\ pmflags[target] = "free"
     /\ retval' = EINVAL
     /\ UNCHANGED <<state, pmflags>>
  \/ /\ pmflags[target] # "free"
     /\ \E D \in SUBSET (IF s = SIGINT THEN InUse ELSE {target}) :
          \E R \in SUBSET D : Exit(D, R)
     /\ retval' = IF pmflags'[target] = "free" THEN EINVAL ELSE 0

\* one turn of the loop over the signals of the target
ProcessSignal ==
  /\ pc = "process" /\ sigset # {}
  /\ sigset' = sigset \ {Min(sigset)}
  /\ process_ksig(Min(sigset))
  /\ UNCHANGED <<sig_pending, raised, ksig, notified, pc, msgset, target>>

\* mutant: the process runs again although it was signaled meanwhile
sys_endksig_Always ==
  state' = [state EXCEPT ![target] = @ \ {"SIG_PENDING"}]

\* sys_endksig() of the target
sys_endksig ==
  IF /\ Valid(target) /\ "SIG_PENDING" \in state[target]
     /\ "SIGNALED" \notin state[target]
  THEN state' = [state EXCEPT ![target] = @ \ {"SIG_PENDING"}]
  ELSE UNCHANGED state

\* mutant: the verdict on the last target that died is kept for the next
EndSignals_Stale ==
  /\ pc = "process" /\ sigset = {}
  /\ IF retval = 0 /\ \A p \in Procs : pmflags[p] # "hanging"
     THEN sys_endksig ELSE UNCHANGED state
  /\ pc' = "getksig"
  /\ UNCHANGED <<sig_pending, raised, ksig, notified, pmflags, msgset, target,
                 sigset, retval>>

\* end of the loop over the signals
EndSignals ==
  /\ pc = "process" /\ sigset = {}
  /\ IF retval = 0 THEN sys_endksig ELSE UNCHANGED state
  /\ pc' = "getksig"
  /\ UNCHANGED <<sig_pending, raised, ksig, notified, pmflags, msgset, target,
                 sigset, retval>>

-----------------------------------------------------------------------------
(* The requests of PM that create and destroy processes.  PM is not in its   *)
(* receive while it talks to MM, VFS and the kernel.                         *)

ReceiveRequest ==
  /\ pc = "receive"
  /\ pc' = "request"
  /\ UNCHANGED <<kernelVars, pmflags, msgset, target, sigset, retval>>

\* do_fork() with sys_fork(): the child is a copy of its parent, which may have
\* been signaled since it asked
do_fork(p, c) ==
  /\ pmflags[p] = "inuse" /\ Valid(p) /\ pmflags[c] = "free"
  /\ state' = [state EXCEPT ![c] = state[p]]
  /\ sig_pending' = [sig_pending EXCEPT ![c] = sig_pending[p]]
  /\ pmflags' = [pmflags EXCEPT ![c] = "inuse"]

\* do_exit() of p, or a fatal signal of a user
do_exit(p) ==
  /\ pmflags[p] = "inuse"
  /\ \E R \in SUBSET {p} : Exit({p}, R)
  /\ UNCHANGED sig_pending

\* do_wait() of the parent of p
do_wait(p) ==
  /\ pmflags[p] = "hanging"
  /\ pmflags' = [pmflags EXCEPT ![p] = "free"]
  /\ UNCHANGED <<state, sig_pending>>

ServeRequest ==
  /\ pc = "request"
  /\ \/ \E p, c \in Procs : do_fork(p, c)
     \/ \E p \in Procs : do_exit(p) \/ do_wait(p)
     \/ UNCHANGED <<state, sig_pending, pmflags>>
  /\ Receive
  /\ UNCHANGED <<raised, target, sigset, retval>>

Next ==
  \/ \E p \in Procs, s \in Signals : Exception(p, s) \/ sys_kill(p, s)
  \/ process_system_notify
  \/ sys_getksig
  \/ ProcessSignal
  \/ EndSignals
  \/ ReceiveRequest
  \/ ServeRequest

Spec == Init /\ [][Next]_vars

\* What PM does without being asked: it is a server, always runnable between its
\* calls.
PMRuns == process_system_notify \/ sys_getksig \/ ProcessSignal \/ EndSignals \/ ServeRequest

-----------------------------------------------------------------------------
(* Properties *)

\* Every variable holds what the C variables can hold.
TypeOK ==
  /\ state \in [Procs -> SUBSET Flags]
  /\ sig_pending \in [Procs -> SUBSET Signals]
  /\ raised \in Nat
  /\ ksig \in BOOLEAN /\ notified \in BOOLEAN
  /\ pmflags \in [Procs -> {"free", "inuse", "hanging"}]
  /\ pc \in {"receive", "handed", "getksig", "process", "request"}
  /\ msgset \in BOOLEAN
  /\ target \in Procs \cup {NO_TASK} /\ sigset \subseteq Signals
  /\ retval \in {0, EINVAL}

\* ksig_proc() ignores a signal that is pending already, which is right only
\* if PM is still to take it: a pending signal of a live process is marked.
PendingIsMarked ==
  \A p \in Procs : Valid(p) => (sig_pending[p] # {} <=> "SIGNALED" \in state[p])

\* PM is told only when a process is first marked: while some process is
\* marked PM is in its loop or has the news pending or in its hands.
MarkedIsAnnounced ==
  (\E p \in Procs : "SIGNALED" \in state[p])
    => \/ pc \in {"getksig", "process"}
       \/ pc = "handed" /\ msgset
       \/ notified /\ ksig

\* A stopped process that is not marked any more is the one PM is handling, so
\* somebody is left to call endksig for it.
StoppedIsHandled ==
  \A p \in Procs :
    Valid(p) /\ "SIG_PENDING" \in state[p] /\ "SIGNALED" \notin state[p]
      => pc = "process" /\ target = p

\* The verdict that decides about endksig is about this target: a live target
\* whose signals were all handled has retval = 0, whatever retval was before.
VerdictIsFresh ==
  pc = "process" /\ sigset = {} /\ pmflags[target] # "free" => retval = 0

\* A stopped process becomes runnable only when nothing is left to handle: no
\* signal is pending and PM is not in the middle of its set.
RunsWithoutSignals ==
  \A p \in Procs :
    Valid(p) /\ state[p] # {} /\ state'[p] = {}
      => /\ sig_pending'[p] = {}
         /\ ~(pc' = "process" /\ target' = p /\ sigset' # {})

\* The kernel has stopped p for a signal.
Stopped(p) == "SIG_PENDING" \in state[p]
=============================================================================
