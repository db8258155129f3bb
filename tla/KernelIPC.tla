------------------------------ MODULE KernelIPC ------------------------------
(***************************************************************************)
(* Kernel message passing (kernel/proc.c).  A system call runs to its end   *)
(* with interrupts off, so every handler of sys_sendrec() is one action.    *)
(* A process makes a call only from user mode: it is runnable and the       *)
(* message it was last handed, if any, has been copied out to it.           *)
(***************************************************************************)
EXTENDS IPCTypes

CONSTANTS
  MM,            \* the memory manager, to which page faults are reported
  BlockSenders,  \* processes that use SEND and BOTH
  NbSenders,     \* processes that use SEND_NONBLOCK
  AsyncSenders,  \* processes that use SEND_ASYNC (PRF_PRIV_PROC)
  Notifiers,     \* processes that use NOTIFY
  Faulters,      \* processes that may page-fault
  Servers,       \* processes that only ever receive from ANY: a main loop
  Inhibited,     \* processes the rest of the kernel may stop and restart
  BadSend,       \* processes whose outgoing buffer may be unreadable
  BadRecv,       \* processes whose incoming buffer may be unwritable
  MaxAsync       \* bound: undelivered async messages per sender and receiver

ASSUME ConstantsAssumption ==
  /\ MM \in Procs
  /\ BlockSenders \subseteq Procs /\ NbSenders \subseteq Procs
  /\ AsyncSenders \subseteq Procs /\ Notifiers \subseteq Procs
  /\ Faulters \subseteq Procs \ {MM}   \* a fault in MM panics the kernel
  /\ Servers \subseteq Procs /\ Inhibited \subseteq Procs
  /\ BadSend \subseteq Procs /\ BadRecv \subseteq Procs
  /\ MaxAsync \in Nat

\* state bits: a process is runnable iff none is set.  "INHIBIT" stands for
\* the bits other parts of the kernel set (signals, tracing, memory requests).
PST == {"SENDING", "RECEIVING", "PAGEFAULT", "INHIBIT"}
PF == {"DELIVER_MSG", "RECV_ASYNC", "MSG_FAILED"}
Errors == {"OK", "EDEADLK", "EBUSY", "EFAULT", "ESRCH"}

VARIABLES
  pst, pf,          \* state and flags of each process
  sendto, recvfrom, \* the partner of a blocked send or receive
  q_sending,        \* the processes blocked sending to a process, in order
  send_msg,         \* the message of a blocked sender
  deliver_msg,      \* the message handed to a process, not yet copied out
  notify_pending,   \* notifiers a process has not seen
  int_pending,      \* interrupts a process has not seen
  async_pending,    \* senders whose async table a process must look at
  async_table,      \* undone entries of a sender's async table, by receiver
  faults,           \* processes whose page fault MM has been told of
  retval            \* result of each process's last call

ipcVars == <<sendto, recvfrom, q_sending, send_msg, async_pending, async_table>>
vars == <<pst, pf, sendto, recvfrom, q_sending, send_msg, deliver_msg,
          notify_pending, int_pending, async_pending, async_table, faults,
          retval>>

Init ==
  /\ pst = [p \in Procs |-> {}]
  /\ pf = [p \in Procs |-> {}]
  /\ sendto = [p \in Procs |-> NO_TASK]
  /\ recvfrom = [p \in Procs |-> NO_TASK]
  /\ q_sending = [p \in Procs |-> <<>>]
  /\ send_msg = [p \in Procs |-> NoMsg]
  /\ deliver_msg = [p \in Procs |-> NoMsg]
  /\ notify_pending = [p \in Procs |-> {}]
  /\ int_pending = [p \in Procs |-> {}]
  /\ async_pending = [p \in Procs |-> {}]
  /\ async_table = [s \in Procs |-> [p \in Procs |-> <<>>]]
  /\ faults = {}
  /\ retval = [p \in Procs |-> "OK"]

InUser(p) == pst[p] = {} /\ "DELIVER_MSG" \notin pf[p]

Sending(p) == "SENDING" \in pst[p]

\* p is blocked in a receive that a message from s satisfies
Waiting(p, s) == /\ ~Sending(p)
                 /\ "RECEIVING" \in pst[p]
                 /\ recvfrom[p] \in {s, ANY}

\* mutant: the walk does not follow a sender that will also receive
ClosedUnderSending_Both(S) ==
  \A p \in S : Sending(p) /\ "RECEIVING" \notin pst[p] => sendto[p] \in S

\* S holds, with each blocked sender, the process it is sending to
ClosedUnderSending(S) == \A p \in S : Sending(p) => sendto[p] \in S

\* The walk of deadlock(): following sendto from dest through blocked senders
\* arrives at src.  The processes met are the least closed set with dest in it.
deadlock(src, dest) ==
  \A S \in SUBSET Procs : dest \in S /\ ClosedUnderSending(S) => src \in S

\* mutant: a state bit is set among the flags
Handed_Bit(flags) == (flags \ {"RECV_ASYNC"}) \cup {"DELIVER_MSG", "SENDING"}

\* flags of a process that has just been handed a message
Handed(flags) == (flags \ {"RECV_ASYNC"}) \cup {"DELIVER_MSG"}

\* mutant: the receiver is not taken out of its receive
HandOver_Blocked(d, m) ==
  /\ deliver_msg' = [deliver_msg EXCEPT ![d] = m]
  /\ pf' = [pf EXCEPT ![d] = Handed(@)]
  /\ UNCHANGED pst

\* Hand m to d, which is blocked in a receive, and unblock it.
HandOver(d, m) ==
  /\ deliver_msg' = [deliver_msg EXCEPT ![d] = m]
  /\ pf' = [pf EXCEPT ![d] = Handed(@)]
  /\ pst' = [pst EXCEPT ![d] = @ \ {"RECEIVING"}]

Return(p, e) == retval' = [retval EXCEPT ![p] = e]

-----------------------------------------------------------------------------
(* msg_send() *)

\* d is waiting for p: it gets the message at once.
SendDirect(p, d, m) ==
  /\ ~deadlock(p, d)
  /\ Waiting(d, p)
  /\ HandOver(d, m)
  /\ Return(p, "OK")
  /\ UNCHANGED <<ipcVars, notify_pending, int_pending, faults>>

\* mutant: p replaces the queue instead of joining its tail
SendBlock_Replace(p, d, m, S) ==
  /\ ~deadlock(p, d)
  /\ ~Waiting(d, p)
  /\ pst' = [pst EXCEPT ![p] = @ \cup {"SENDING"} \cup S]
  /\ sendto' = [sendto EXCEPT ![p] = d]
  /\ send_msg' = [send_msg EXCEPT ![p] = m]
  /\ q_sending' = [q_sending EXCEPT ![d] = <<p>>]
  /\ UNCHANGED <<pf, deliver_msg, notify_pending, int_pending, async_pending,
                 async_table, faults>>

\* mutant: deadlock() is not consulted before blocking
SendBlock_Unchecked(p, d, m, S) ==
  /\ ~Waiting(d, p)
  /\ pst' = [pst EXCEPT ![p] = @ \cup {"SENDING"} \cup S]
  /\ sendto' = [sendto EXCEPT ![p] = d]
  /\ send_msg' = [send_msg EXCEPT ![p] = m]
  /\ q_sending' = [q_sending EXCEPT ![d] = Append(@, p)]
  /\ UNCHANGED <<pf, deliver_msg, notify_pending, int_pending, async_pending,
                 async_table, faults>>

\* d is not waiting for p: p blocks at the tail of d's queue with state bits S.
SendBlock(p, d, m, S) ==
  /\ ~deadlock(p, d)
  /\ ~Waiting(d, p)
  /\ pst' = [pst EXCEPT ![p] = @ \cup {"SENDING"} \cup S]
  /\ sendto' = [sendto EXCEPT ![p] = d]
  /\ send_msg' = [send_msg EXCEPT ![p] = m]
  /\ q_sending' = [q_sending EXCEPT ![d] = Append(@, p)]
  /\ UNCHANGED <<pf, deliver_msg, notify_pending, int_pending, async_pending,
                 async_table, faults>>

\* The message cannot be read.  A direct send changes nothing; a blocking one
\* has already marked p as sending and leaves it so, outside of d's queue.
SendFault(p, d) ==
  /\ p \in BadSend
  /\ ~deadlock(p, d)
  /\ IF Waiting(d, p) THEN UNCHANGED <<pst, sendto>>
     ELSE /\ pst' = [pst EXCEPT ![p] = @ \cup {"SENDING"}]
          /\ sendto' = [sendto EXCEPT ![p] = d]
  /\ Return(p, "EFAULT")
  /\ UNCHANGED <<pf, recvfrom, q_sending, send_msg, deliver_msg, notify_pending,
                 int_pending, async_pending, async_table, faults>>

\* The call is refused: nothing changes but the result.
Refuse(p, e) ==
  /\ Return(p, e)
  /\ UNCHANGED <<pst, pf, ipcVars, deliver_msg, notify_pending, int_pending,
                 faults>>

Send(p, d, b) ==
  /\ InUser(p) /\ p # d
  /\ \/ deadlock(p, d) /\ Refuse(p, "EDEADLK")
     \/ SendDirect(p, d, Msg(p, b))
     \/ /\ SendBlock(p, d, Msg(p, b), {})
        /\ Return(p, "OK")
        /\ UNCHANGED recvfrom
     \/ SendFault(p, d)

SendNonblock(p, d, b) ==
  /\ InUser(p) /\ p # d
  /\ \/ deadlock(p, d) /\ Refuse(p, "EDEADLK")
     \/ SendDirect(p, d, Msg(p, b))
     \/ ~deadlock(p, d) /\ ~Waiting(d, p) /\ Refuse(p, "EBUSY")
     \/ Waiting(d, p) /\ SendFault(p, d)

\* mutant: the report is sent with SEND_NONBLOCK
PageFault_Nonblock(p) ==
  /\ InUser(p)
  /\ ~Waiting(MM, p)
  /\ pst' = [pst EXCEPT ![p] = @ \cup {"PAGEFAULT"}]
  /\ UNCHANGED <<pf, ipcVars, deliver_msg, notify_pending, int_pending, faults,
                 retval>>

\* The page-fault handler sends to MM on behalf of p and blocks p, whatever
\* msg_send() returned.
PageFault(p) ==
  /\ InUser(p)
  /\ \/ /\ deadlock(p, MM)
        /\ pst' = [pst EXCEPT ![p] = @ \cup {"PAGEFAULT"}]
        /\ UNCHANGED <<pf, ipcVars, deliver_msg, notify_pending, int_pending,
                       faults, retval>>
     \/ /\ ~deadlock(p, MM)
        /\ Waiting(MM, p)
        /\ deliver_msg' = [deliver_msg EXCEPT ![MM] = Msg(p, "FAULT")]
        /\ pf' = [pf EXCEPT ![MM] = Handed(@)]
        /\ pst' = [pst EXCEPT ![MM] = @ \ {"RECEIVING"},
                              ![p] = @ \cup {"PAGEFAULT"}]
        /\ UNCHANGED <<ipcVars, notify_pending, int_pending, faults, retval>>
     \/ /\ SendBlock(p, MM, Msg(p, "FAULT"), {"PAGEFAULT"})
        /\ UNCHANGED <<recvfrom, retval>>

-----------------------------------------------------------------------------
(* msg_receive() *)

\* has_pending_notify(): s is the pending notifier a receive from src takes
PendingNotify(p, src, s) ==
  /\ s \in notify_pending[p]
  /\ \/ src = s
     \/ src = ANY /\ \A t \in notify_pending[p] : s <= t

NoNotify(p, src) == \A s \in notify_pending[p] : src \notin {s, ANY}

\* mutant: int_pending is not reset when it is reported
TakeNotify_Keep(p, s) ==
  /\ deliver_msg' = [deliver_msg EXCEPT ![p] = NotifyMsg(s, int_pending[p])]
  /\ notify_pending' = [notify_pending EXCEPT ![p] = @ \ {s}]
  /\ UNCHANGED int_pending

\* mutant: one notification clears the bits of all
TakeNotify_All(p, s) ==
  /\ deliver_msg' = [deliver_msg EXCEPT ![p] = NotifyMsg(s, int_pending[p])]
  /\ int_pending' = IF s = INTERRUPT THEN [int_pending EXCEPT ![p] = {}]
                    ELSE int_pending
  /\ notify_pending' = [notify_pending EXCEPT ![p] = {}]

\* a notification, the first thing msg_receive() looks for
TakeNotify(p, s) ==
  /\ deliver_msg' = [deliver_msg EXCEPT ![p] = NotifyMsg(s, int_pending[p])]
  /\ int_pending' = IF s = INTERRUPT THEN [int_pending EXCEPT ![p] = {}]
                    ELSE int_pending
  /\ notify_pending' = [notify_pending EXCEPT ![p] = @ \ {s}]

ReceiveNotify(p, src) ==
  /\ \E s \in Sources : PendingNotify(p, src, s) /\ TakeNotify(p, s)
  /\ pf' = [pf EXCEPT ![p] = Handed(@)]
  /\ Return(p, "OK")
  /\ UNCHANGED <<pst, ipcVars, faults>>

\* mutant: async tables are looked at only in a receive from ANY
AsyncCandidates_Any(p, src, async) ==
  IF async /\ src = ANY THEN async_pending[p] ELSE {}

\* has_pending_async(): the senders receive_async() goes through, in id order
AsyncCandidates(p, src, async) ==
  IF async THEN {s \in async_pending[p] : src \in {s, ANY}} ELSE {}

\* those of S that have nothing left for anyone: receive_async_from() forgets
Finished(S) == {s \in S : \A r \in Procs : async_table[s][r] = <<>>}

\* the first candidate with an entry for p: its oldest entry is delivered
ReceiveAsyncMsg(p, src) ==
  LET C == AsyncCandidates(p, src, TRUE)
      hits == {s \in C : async_table[s][p] # <<>>}
  IN \E s \in hits :
       /\ \A t \in hits : s <= t
       /\ deliver_msg' = [deliver_msg EXCEPT ![p] = Head(async_table[s][p])]
       /\ async_table' = [async_table EXCEPT ![s][p] = Tail(@)]
       /\ async_pending' = [async_pending EXCEPT
                              ![p] = @ \ Finished({t \in C : t < s})]
       /\ pf' = [pf EXCEPT ![p] = Handed(@)]
       /\ Return(p, "OK")
       /\ UNCHANGED <<pst, sendto, recvfrom, q_sending, send_msg,
                      notify_pending, int_pending, faults>>

\* The result of msg_receive() once the async tables gave nothing: the failure
\* of the scan is kept, whatever the rest of the call does.
ScanResult(C) == IF C = {} THEN "OK" ELSE "ESRCH"

\* mutant: nothing is taken out
Unqueue_Nothing(q, f) == q

\* take f out of a queue
Unqueue(q, f) ==
  IF \E i \in 1 .. Len(q) : q[i] = f
  THEN LET k == CHOOSE i \in 1 .. Len(q) : q[i] = f
       IN [i \in 1 .. Len(q) - 1 |-> IF i < k THEN q[i] ELSE q[i + 1]]
  ELSE q

\* f is the blocked sender a receive from src takes
Chosen(p, src, f) ==
  \/ src = ANY /\ q_sending[p] # <<>> /\ f = Head(q_sending[p])
  \/ src = f /\ Sending(f) /\ sendto[f] = p

ReceiveQueued(p, f) ==
  /\ q_sending[p] # <<>>   \* assert(p): the kernel stops otherwise
  /\ q_sending' = [q_sending EXCEPT ![p] = Unqueue(@, f)]
  /\ deliver_msg' = [deliver_msg EXCEPT ![p] = send_msg[f]]
  /\ send_msg' = [send_msg EXCEPT ![f] = NoMsg]
  /\ sendto' = [sendto EXCEPT ![f] = NO_TASK]
  /\ pst' = [pst EXCEPT ![f] = @ \ {"SENDING"}]
  /\ pf' = [pf EXCEPT ![p] = @ \cup {"DELIVER_MSG"}]
  /\ UNCHANGED recvfrom

\* nothing to receive: p blocks
ReceiveBlock(p, src, async) ==
  /\ pst' = [pst EXCEPT ![p] = @ \cup {"RECEIVING"}]
  /\ pf' = [pf EXCEPT ![p] = IF async THEN @ \cup {"RECV_ASYNC"} ELSE @]
  /\ recvfrom' = [recvfrom EXCEPT ![p] = src]
  /\ UNCHANGED <<sendto, q_sending, send_msg, deliver_msg>>

\* nothing from a notifier or an async table: forget the finished senders and
\* look at the blocked senders
ReceiveSync(p, src, async) ==
  LET C == AsyncCandidates(p, src, async)
  IN /\ \A s \in C : async_table[s][p] = <<>>
     /\ async_pending' = [async_pending EXCEPT ![p] = @ \ Finished(C)]
     /\ \/ \E f \in Procs : Chosen(p, src, f) /\ ReceiveQueued(p, f)
        \/ (\A f \in Procs : ~Chosen(p, src, f)) /\ ReceiveBlock(p, src, async)
     /\ Return(p, ScanResult(C))
     /\ UNCHANGED <<async_table, notify_pending, int_pending, faults>>

Receive(p, src, async) ==
  /\ InUser(p) /\ p # src
  /\ \/ ReceiveNotify(p, src)
     \/ NoNotify(p, src) /\ async /\ ReceiveAsyncMsg(p, src)
     \/ NoNotify(p, src) /\ ReceiveSync(p, src, async)

\* sendrec(BOTH): msg_send() and, when it returned zero, msg_receive().  After
\* a send that blocked, msg_receive() only adds RECEIVING.  After a direct send
\* d has nothing queued for p (it was waiting), but may have notified it.
SendRec(p, d, b) ==
  /\ InUser(p) /\ p # d
  /\ \/ deadlock(p, d) /\ Refuse(p, "EDEADLK")
     \/ /\ SendBlock(p, d, Msg(p, b), {"RECEIVING"})
        /\ recvfrom' = [recvfrom EXCEPT ![p] = d]
        /\ Return(p, "OK")
     \/ /\ ~deadlock(p, d)
        /\ Waiting(d, p)
        /\ d \in notify_pending[p]
        /\ deliver_msg' = [deliver_msg EXCEPT ![d] = Msg(p, b),
                                              ![p] = NotifyMsg(d, {})]
        /\ notify_pending' = [notify_pending EXCEPT ![p] = @ \ {d}]
        /\ pf' = [pf EXCEPT ![d] = Handed(@), ![p] = Handed(@)]
        /\ pst' = [pst EXCEPT ![d] = @ \ {"RECEIVING"}]
        /\ Return(p, "OK")
        /\ UNCHANGED <<ipcVars, int_pending, faults>>
     \/ /\ ~deadlock(p, d)
        /\ Waiting(d, p)
        /\ d \notin notify_pending[p]
        /\ deliver_msg' = [deliver_msg EXCEPT ![d] = Msg(p, b)]
        /\ pf' = [pf EXCEPT ![d] = Handed(@)]
        /\ pst' = [pst EXCEPT ![d] = @ \ {"RECEIVING"},
                              ![p] = @ \cup {"RECEIVING"}]
        /\ recvfrom' = [recvfrom EXCEPT ![p] = d]
        /\ Return(p, "OK")
        /\ UNCHANGED <<sendto, q_sending, send_msg, async_pending, async_table,
                       notify_pending, int_pending, faults>>
     \/ SendFault(p, d)

-----------------------------------------------------------------------------
(* msg_notify(), msg_senda() and deliver_msg() *)

\* s notifies d; ints is what is pending at d when the notification is made
NotifyFrom(s, d, ints) ==
  IF Waiting(d, s)
  THEN /\ HandOver(d, NotifyMsg(s, ints))
       /\ int_pending' = [int_pending EXCEPT
                            ![d] = IF s = INTERRUPT THEN {} ELSE ints]
       /\ UNCHANGED notify_pending
  ELSE /\ notify_pending' = [notify_pending EXCEPT ![d] = @ \cup {s}]
       /\ int_pending' = [int_pending EXCEPT ![d] = ints]
       /\ UNCHANGED <<pst, pf, deliver_msg>>

Notify(p, d) ==
  /\ InUser(p) /\ p # d
  /\ NotifyFrom(p, d, int_pending[d])
  /\ Return(p, "OK")
  /\ UNCHANGED <<ipcVars, faults>>

\* generic_irq_handler(): interrupt i for the driver d
Interrupt(d, i) ==
  /\ NotifyFrom(INTERRUPT, d, int_pending[d] \cup {i})
  /\ UNCHANGED <<ipcVars, faults, retval>>

\* mutant: a receiver blocked in a receive without async is not marked
Marked_Idle(p, left) ==
  [r \in Procs |-> IF left[r] # <<>> /\ "RECEIVING" \notin pst[r]
                   THEN async_pending[r] \cup {p} ELSE async_pending[r]]

\* receivers that p has entries left for have p marked
Marked(p, left) == [r \in Procs |-> IF left[r] # <<>>
                                    THEN async_pending[r] \cup {p}
                                    ELSE async_pending[r]]

\* The sender adds an entry for d and has the kernel go through its table: each
\* receiver waiting for async messages gets the oldest entry for it, the other
\* receivers with entries are marked.
SendAsync(p, d, b) ==
  LET table == [async_table[p] EXCEPT ![d] = Append(@, Msg(p, b))]
      ready == {r \in Procs \ {p} : /\ table[r] # <<>>
                                    /\ Waiting(r, p)
                                    /\ "RECV_ASYNC" \in pf[r]}
      left == [r \in Procs |-> IF r \in ready THEN Tail(table[r]) ELSE table[r]]
  IN /\ InUser(p) /\ p # d
     /\ Len(async_table[p][d]) < MaxAsync
     /\ deliver_msg' = [r \in Procs |-> IF r \in ready THEN Head(table[r])
                                        ELSE deliver_msg[r]]
     /\ pf' = [r \in Procs |-> IF r \in ready THEN Handed(pf[r]) ELSE pf[r]]
     /\ pst' = [r \in Procs |-> IF r \in ready THEN pst[r] \ {"RECEIVING"}
                                ELSE pst[r]]
     /\ async_table' = [async_table EXCEPT ![p] = left]
     /\ async_pending' = Marked(p, left)
     /\ Return(p, "OK")
     /\ UNCHANGED <<sendto, recvfrom, q_sending, send_msg, notify_pending,
                    int_pending, faults>>

\* deliver_msg(), on the way back to user mode: copy the message out
DeliverMsg(p) ==
  /\ pst[p] = {} /\ "DELIVER_MSG" \in pf[p]
  /\ deliver_msg' = [deliver_msg EXCEPT ![p] = NoMsg]
  /\ pf' = [pf EXCEPT ![p] = @ \ {"DELIVER_MSG", "MSG_FAILED"}]
  /\ recvfrom' = [recvfrom EXCEPT ![p] = NO_TASK]
  /\ faults' = IF p = MM /\ deliver_msg[p].body = "FAULT"
               THEN faults \cup {deliver_msg[p].source} ELSE faults
  /\ UNCHANGED <<pst, sendto, q_sending, send_msg, notify_pending, int_pending,
                 async_pending, async_table, retval>>

\* deliver_msg() cannot write the buffer: p waits for MM to map it, or, the
\* second time, for PM to deal with SIGSEGV.  The message stays.
DeliverFault(p) ==
  /\ p \in BadRecv
  /\ pst[p] = {} /\ "DELIVER_MSG" \in pf[p]
  /\ pf' = [pf EXCEPT ![p] = @ \cup {"MSG_FAILED"}]
  /\ pst' = [pst EXCEPT ![p] = @ \cup {"INHIBIT"}]
  /\ UNCHANGED <<ipcVars, deliver_msg, notify_pending, int_pending, faults,
                 retval>>

-----------------------------------------------------------------------------
(* the state bits other parts of the kernel set and clear *)

PstSet(p) ==
  /\ "INHIBIT" \notin pst[p]
  /\ pst' = [pst EXCEPT ![p] = @ \cup {"INHIBIT"}]
  /\ UNCHANGED <<pf, ipcVars, deliver_msg, notify_pending, int_pending, faults,
                 retval>>

PstUnset(p) ==
  /\ "INHIBIT" \in pst[p]
  /\ pst' = [pst EXCEPT ![p] = @ \ {"INHIBIT"}]
  /\ UNCHANGED <<pf, ipcVars, deliver_msg, notify_pending, int_pending, faults,
                 retval>>

\* MM has handled p's page fault (sys_vmctl, VMCTL_PAGEFAULT_CLEAR)
FaultHandled(p) ==
  /\ InUser(MM)
  /\ p \in faults
  /\ faults' = faults \ {p}
  /\ pst' = [pst EXCEPT ![p] = @ \ {"PAGEFAULT"}]
  /\ UNCHANGED <<pf, ipcVars, deliver_msg, notify_pending, int_pending, retval>>

Next ==
  \/ \E p \in BlockSenders, d \in Procs, b \in Bodies : Send(p, d, b)
  \/ \E p \in BlockSenders, d \in Procs, b \in Bodies : SendRec(p, d, b)
  \/ \E p \in NbSenders, d \in Procs, b \in Bodies : SendNonblock(p, d, b)
  \/ \E p \in AsyncSenders, d \in Procs, b \in Bodies : SendAsync(p, d, b)
  \/ \E p \in Notifiers, d \in Procs : Notify(p, d)
  \/ \E d \in Procs, i \in Ints : Interrupt(d, i)
  \/ \E p \in Procs, async \in BOOLEAN : Receive(p, ANY, async)
  \/ \E p \in Procs \ Servers, src \in Sources, async \in BOOLEAN :
       Receive(p, src, async)
  \/ \E p \in Procs : DeliverMsg(p)
  \/ \E p \in Procs : DeliverFault(p)
  \/ \E p \in Faulters : PageFault(p)
  \/ \E p \in Faulters : FaultHandled(p)
  \/ \E p \in Inhibited : PstSet(p)
  \/ \E p \in Inhibited \cup BadRecv : PstUnset(p)

Spec == Init /\ [][Next]_vars

-----------------------------------------------------------------------------
(* Safety *)

\* Every field holds what struct proc and struct priv can hold.
TypeOK ==
  /\ pst \in [Procs -> SUBSET PST]
  /\ pf \in [Procs -> SUBSET PF]
  /\ sendto \in [Procs -> Procs \cup {NO_TASK}]
  /\ recvfrom \in [Procs -> Sources \cup {ANY, NO_TASK}]
  /\ q_sending \in [Procs -> Seq(Procs)]
  /\ send_msg \in [Procs -> Message]
  /\ deliver_msg \in [Procs -> Message]
  /\ notify_pending \in [Procs -> SUBSET Sources]
  /\ int_pending \in [Procs -> SUBSET Ints]
  /\ async_pending \in [Procs -> SUBSET Procs]
  /\ async_table \in [Procs -> [Procs -> Seq(Message)]]
  /\ faults \subseteq Sources \cup {NO_TASK}
  /\ retval \in [Procs -> Errors]

\* The processes linked in d's q_sending are blocked sending to d, and none is
\* linked twice: next_sending never joins two queues or closes a loop.
QueueSound ==
  \A d \in Procs :
    /\ \A i \in 1 .. Len(q_sending[d]) :
         Sending(q_sending[d][i]) /\ sendto[q_sending[d][i]] = d
    /\ \A i, j \in 1 .. Len(q_sending[d]) :
         q_sending[d][i] = q_sending[d][j] => i = j

Queued(p) == \E i \in 1 .. Len(q_sending[sendto[p]]) :
               q_sending[sendto[p]][i] = p

\* A process marked as sending is in the queue of its receiver, if msg_send()
\* can always read its message.
GoodSenderIsQueued ==
  \A p \in Procs \ BadSend : Sending(p) => sendto[p] \in Procs /\ Queued(p)

\* Each q_sending holds exactly the senders that are blocked on its owner, once
\* each, so that msg_receive() finds the one it looks for; except those whose
\* message msg_send() could not read.
QueueExact == QueueSound /\ GoodSenderIsQueued

\* deadlock() keeps the graph of blocked senders free of cycles: no set of
\* processes is blocked sending only to each other.
NoSendCycle ==
  \A S \in SUBSET Procs :
    S # {} => \E p \in S : Sending(p) => sendto[p] \notin S

\* assert(!(p_dest->flags & PF_DELIVER_MSG)) in msg_send(): a process blocked
\* in a receive holds no message, so none is ever overwritten before it is
\* copied out, by a sender, a notifier or an async sender.
NoOverwrite ==
  \A p \in Procs : "RECEIVING" \in pst[p] => /\ "DELIVER_MSG" \notin pf[p]
                                             /\ deliver_msg[p] = NoMsg

\* A process blocked in a receive is not passed over: nothing it would accept
\* is queued, pending or in an async table.  (A receive that follows a blocked
\* send in BOTH does not look at notifications, so only ANY counts for them.)
NoMissedWakeup ==
  \A p \in Procs, s \in Procs :
    Waiting(p, s) =>
      /\ \A i \in 1 .. Len(q_sending[p]) : q_sending[p][i] # s
      /\ recvfrom[p] = ANY => notify_pending[p] = {}
      /\ "RECV_ASYNC" \in pf[p] => async_table[s][p] = <<>>

\* An interrupt recorded in int_pending always has its notification pending,
\* so set_notify_msg() will hand it to the driver.
InterruptAnnounced ==
  \A p \in Procs : int_pending[p] # {} => INTERRUPT \in notify_pending[p]

\* An undone async entry always has its sender's bit set at the receiver, over
\* every clearing and re-setting of the bit in receive_async_from().
AsyncMarked ==
  \A s, r \in Procs : async_table[s][r] # <<>> => s \in async_pending[r]

\* A process stopped by a page fault is known to MM or its report is on the
\* way: in MM's queue or handed to MM.  (If MM could block sending to a process
\* that faults, the report would be refused with EDEADLK and lost.)
FaultReported ==
  \A p \in Procs :
    MM \notin BlockSenders /\ "PAGEFAULT" \in pst[p] =>
      \/ p \in faults
      \/ deliver_msg[MM] = Msg(p, "FAULT") /\ "DELIVER_MSG" \in pf[MM]
      \/ Sending(p) /\ sendto[p] = MM /\ send_msg[p] = Msg(p, "FAULT")

-----------------------------------------------------------------------------
(* Liveness *)

\* Nothing that msg_receive() prefers to a queued sender is there for v.
Quiet(v) == /\ notify_pending[v] = {}
            /\ deliver_msg[v].body # "NOTIFY_MSG"
            /\ \A s \in Procs : async_table[s][v] = <<>>

\* p is blocked sending to a server that nothing else keeps busy.
Unserved(p) == Sending(p) /\ sendto[p] \in Servers /\ Quiet(sendto[p])

\* p is stopped by a page fault, and nothing else keeps MM busy.
FaultUnserved(p) == "PAGEFAULT" \in pst[p] /\ Quiet(MM)
=============================================================================
