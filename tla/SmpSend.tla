------------------------------- MODULE SmpSend -------------------------------
(***************************************************************************)
(* msg_send() and msg_receive() on several CPUs: no lock covers the whole  *)
(* kernel, only every process has a spin lock of its own.  KernelIPC takes *)
(* each of the two operations as one step; here they are cut where another *)
(* CPU can see the difference: at every lock, at the loads of deadlock()   *)
(* and between the two halves of BOTH.  A process that is in the kernel    *)
(* stands for the CPU that it runs on.                                     *)
(***************************************************************************)
EXTENDS Naturals, Sequences, FiniteSets, SequencesExt

CONSTANTS Procs, NO_TASK, ANY,
          Servers,   \* the processes that the others call with BOTH
          Free,      \* processes also send to anyone, unasked
          NR_CPUS

VARIABLES
  state, sendto, recvfrom, q_sending,   \* of struct proc
  lock,      \* the process whose CPU holds the lock, or NO_TASK
  pc,        \* where in the kernel a process is
  op,        \* the operation: "SEND", "BOTH", "NONBLOCK" or "RECEIVE"
  peer,      \* its partner, or ANY
  at,        \* the process that deadlock() looks at; from in msg_receive()
  owes       \* clients whose request the server took and did not answer

ipc == <<state, sendto, recvfrom, q_sending>>
vars == <<ipc, lock, pc, op, peer, at, owes>>

Init ==
  /\ state = [p \in Procs |-> {}]
  /\ sendto = [p \in Procs |-> NO_TASK] /\ recvfrom = [p \in Procs |-> NO_TASK]
  /\ q_sending = [p \in Procs |-> <<>>]
  /\ lock = [p \in Procs |-> NO_TASK]
  /\ pc = [p \in Procs |-> "user"] /\ op = [p \in Procs |-> "SEND"]
  /\ peer = [p \in Procs |-> NO_TASK] /\ at = [p \in Procs |-> NO_TASK]
  /\ owes = [p \in Procs |-> {}]

Goto(p, where) == pc' = [pc EXCEPT ![p] = where]

\* lock_proc(): the CPU of p spins until the lock of q is free
Lock(p, q, here, there) ==
  /\ pc[p] = here /\ lock[q] = NO_TASK
  /\ lock' = [lock EXCEPT ![q] = p] /\ Goto(p, there)
  /\ UNCHANGED <<ipc, op, peer, at, owes>>

\* both locks of p are released
Unlock(p) == lock' = [q \in Procs |-> IF lock[q] = p THEN NO_TASK ELSE lock[q]]

\* sys_sendrec() by a runnable process, when there is a CPU for it
sys_sendrec(p, f, q) ==
  /\ pc[p] = "user" /\ state[p] = {} /\ p # q
  /\ Cardinality({r \in Procs : pc[r] # "user"}) < NR_CPUS
  /\ \/ f = "BOTH" /\ p \notin Servers /\ q \in Servers
     \/ f = "NONBLOCK" /\ q \in owes[p]
     \/ f = "RECEIVE" /\ q = ANY
     \/ f = "SEND" /\ q # ANY /\ Free
  /\ owes' = [owes EXCEPT ![p] = @ \ {q}]
  /\ op' = [op EXCEPT ![p] = f] /\ peer' = [peer EXCEPT ![p] = q]
  /\ Goto(p, IF f = "RECEIVE" THEN "r_self" ELSE "s_self")
  /\ UNCHANGED <<ipc, lock, at>>

-----------------------------------------------------------------------------
(* msg_send() *)

\* the lock of the receiver; deadlock() starts there
LockDest(p) ==
  /\ pc[p] = "s_dest" /\ lock[peer[p]] = NO_TASK
  /\ lock' = [lock EXCEPT ![peer[p]] = p] /\ Goto(p, "s_state")
  /\ at' = [at EXCEPT ![p] = peer[p]]
  /\ UNCHANGED <<ipc, op, peer, owes>>

\* deadlock(): the state of a process of the chain ...
WalkState(p) ==
  /\ pc[p] = "s_state"
  /\ Goto(p, IF "SENDING" \in state[at[p]] THEN "s_sendto" ELSE "s_body")
  /\ UNCHANGED <<ipc, lock, op, peer, at, owes>>

Refused(p) == Unlock(p) /\ Goto(p, "user")

\* ... and then its sendto, without its lock; endpt_proc(NO_TASK) is a kernel
\* task that does not send
WalkSendto(p) ==
  /\ pc[p] = "s_sendto"
  /\ LET q == sendto[at[p]] IN
     IF q = p THEN Refused(p) /\ UNCHANGED at
     ELSE /\ Goto(p, IF q = NO_TASK THEN "s_body" ELSE "s_state")
          /\ at' = [at EXCEPT ![p] = IF q = NO_TASK THEN @ ELSE q]
          /\ UNCHANGED lock
  /\ UNCHANGED <<ipc, op, peer, owes>>

Waits(d, p) ==
  /\ "SENDING" \notin state[d] /\ "RECEIVING" \in state[d]
  /\ recvfrom[d] \in {p, ANY}

Unblock(d) == [state EXCEPT ![d] = @ \ {"RECEIVING"}]

\* a request was handed to d: it owes p an answer
Owed(d, p) == [owes EXCEPT ![d] = IF op[p] = "BOTH" THEN @ \cup {p} ELSE @]

After(p) == IF op[p] = "BOTH" THEN "r_self" ELSE "user"

\* the message is handed over, refused, or the sender is queued; the store of
\* PST_SENDING comes first and can be seen by a walk on another CPU
SendBody(p) ==
  /\ pc[p] = "s_body"
  /\ LET d == peer[p] IN
     \/ /\ Waits(d, p)
        /\ state' = Unblock(d) /\ owes' = Owed(d, p)
        /\ Unlock(p) /\ Goto(p, After(p))
     \/ /\ ~Waits(d, p) /\ op[p] = "NONBLOCK"
        /\ Refused(p) /\ UNCHANGED <<state, owes>>
     \/ /\ ~Waits(d, p) /\ op[p] # "NONBLOCK"
        /\ state' = [state EXCEPT ![p] = @ \cup {"SENDING"}]
        /\ Goto(p, "s_queue") /\ UNCHANGED <<lock, owes>>
  /\ UNCHANGED <<sendto, recvfrom, q_sending, op, peer, at>>

SendQueue(p) ==
  /\ pc[p] = "s_queue"
  /\ sendto' = [sendto EXCEPT ![p] = peer[p]]
  /\ q_sending' = [q_sending EXCEPT ![peer[p]] = Append(@, p)]
  /\ Unlock(p) /\ Goto(p, After(p))
  /\ UNCHANGED <<state, recvfrom, op, peer, at, owes>>

-----------------------------------------------------------------------------
(* msg_receive() *)

\* the first of the senders that src admits
Candidates(p) == SelectSeq(q_sending[p], LAMBDA q : peer[p] \in {q, ANY})

\* the sender is chosen, or p blocks
ReceivePick(p) ==
  /\ pc[p] = "r_pick"
  /\ IF "SENDING" \notin state[p] /\ Candidates(p) # <<>>
     THEN /\ at' = [at EXCEPT ![p] = Head(Candidates(p))]
          /\ Goto(p, "r_from") /\ UNCHANGED <<state, recvfrom, lock>>
     ELSE /\ state' = [state EXCEPT ![p] = @ \cup {"RECEIVING"}]
          /\ recvfrom' = [recvfrom EXCEPT ![p] = peer[p]]
          /\ Unlock(p) /\ Goto(p, "user") /\ UNCHANGED at
  /\ UNCHANGED <<sendto, q_sending, op, peer, owes>>

\* the queue without the sender that was found
Dequeued(p) == Remove(q_sending[p], at[p])

\* its message is taken and it may run again
ReceiveTake(p) ==
  /\ pc[p] = "r_take"
  /\ q_sending' = [q_sending EXCEPT ![p] = Dequeued(p)]
  /\ sendto' = [sendto EXCEPT ![at[p]] = NO_TASK]
  /\ state' = [state EXCEPT ![at[p]] = @ \ {"SENDING"}]
  /\ owes' = Owed(p, at[p])
  /\ Unlock(p) /\ Goto(p, "user")
  /\ UNCHANGED <<recvfrom, op, peer, at>>

Next ==
  \E p \in Procs :
    \/ \E f \in {"SEND", "BOTH", "NONBLOCK", "RECEIVE"}, q \in Procs \cup {ANY} :
         sys_sendrec(p, f, q)
    \/ Lock(p, p, "s_self", "s_dest")
    \/ LockDest(p)
    \/ WalkState(p) \/ WalkSendto(p)
    \/ SendBody(p) \/ SendQueue(p)
    \/ Lock(p, p, "r_self", "r_pick")
    \/ ReceivePick(p)
    \/ (at[p] \in Procs /\ Lock(p, at[p], "r_from", "r_take"))
    \/ ReceiveTake(p)

Spec == Init /\ [][Next]_vars

-----------------------------------------------------------------------------
(* Properties *)

\* The types of the variables, and no CPU leaves the kernel with a lock: not
\* even when msg_send() ends with EDEADLK or EBUSY.
TypeOK ==
  /\ state \in [Procs -> SUBSET {"SENDING", "RECEIVING"}]
  /\ sendto \in [Procs -> Procs \cup {NO_TASK}]
  /\ recvfrom \in [Procs -> Procs \cup {NO_TASK, ANY}]
  /\ q_sending \in [Procs -> Seq(Procs)]
  /\ lock \in [Procs -> {p \in Procs : pc[p] # "user"} \cup {NO_TASK}]
  /\ op \in [Procs -> {"SEND", "BOTH", "NONBLOCK", "RECEIVE"}]
  /\ peer \in [Procs -> Procs \cup {NO_TASK, ANY}]
  /\ at \in [Procs -> Procs \cup {NO_TASK}]
  /\ owes \in [Procs -> SUBSET Procs]

\* Whoever gets the lock of a process finds its queue to be the processes that
\* are blocked sending to it, each once.
LockedQueueSound ==
  \A d \in Procs : lock[d] = NO_TASK =>
    /\ IsInjective(q_sending[d])
    /\ ToSet(q_sending[d]) = {p \in Procs : "SENDING" \in state[p] /\ sendto[p] = d}

\* A sender and a receiver on two CPUs do not both block: whoever gets the lock
\* of a process that waits finds no sender it would take.
NoLostMeeting ==
  \A d \in Procs : lock[d] = NO_TASK =>
    \A p \in ToSet(q_sending[d]) : ~Waits(d, p)

\* the process whose lock the CPU of p spins for, if any
SpinsFor(p) ==
  CASE pc[p] \in {"s_self", "r_self"} -> lock[p]
    [] pc[p] = "s_dest" -> lock[peer[p]]
    [] pc[p] = "r_from" -> lock[at[p]]
    [] OTHER -> NO_TASK

\* No CPUs spin in a circle for locks that the next one holds, as long as
\* clients call servers and servers answer.
NoSpinCycle ==
  \A S \in SUBSET Procs \ {{}} : \E p \in S : SpinsFor(p) \notin S

=============================================================================
