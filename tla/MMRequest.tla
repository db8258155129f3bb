------------------------------- MODULE MMRequest -------------------------------
(***************************************************************************)
(* Memory that is missing when the kernel copies for a process.  The       *)
(* kernel stops the caller (PST_MMREQUEST), links it into the list         *)
(* mmrequest and tells MM when the list was empty; MM drains the list,     *)
(* brings the pages in, through VFS when they belong to a file, and its    *)
(* reply lets the caller repeat the system call or the delivery of its     *)
(* message.  Page faults of user code share MM's queue of requests to VFS. *)
(* Pages are data here: one that MM looks for is present, bad, or in a     *)
(* file and not yet in the page cache.                                     *)
(***************************************************************************)
EXTENDS Naturals, Sequences, FiniteSets, TLC

CONSTANTS Procs,       \* the callers: servers, drivers and user processes
          NULL,
          MaxPages,    \* the pages of a request that VFS may have to read, less one
          MaxQueue,    \* the requests to VFS that MM has memory for
          VfsFails,    \* VFS may fail to read a page
          Kills,       \* PM may destroy a process that waits for MM
          Traced       \* the processes whose system calls are traced

VARIABLES
  state,        \* PST_ flags
  flags,        \* PF_ flags
  mmrequest, next_request,     \* the list, by pointers
  type, target, result,        \* of struct proc's mm_request
  call,         \* "none", "call" or, before it ran at all, "traced"
  fresh,        \* result belongs to the system call in progress
  kmem,         \* MM has a notification with SIGKMEM pending
  faults,       \* processes whose FAULT message waits for MM
  pc,           \* where MM is
  replies,      \* VMCTL_REPLY_MMREQ calls that MM is about to make
  requestor,    \* of the request MM took from the list
  queue, active \* MM's requests to VFS, the last one first

kernelVars == <<state, flags, mmrequest, next_request, type, target, result, call, fresh>>
mmVars == <<pc, replies, requestor, queue, active>>
vars == <<kernelVars, kmem, faults, mmVars>>

FREE == {"FREE_SLOT"}
Request == [kind : {"mem", "pf"}, who : Procs, left : 0 .. MaxPages]

Init ==
  /\ state = [p \in Procs |-> {}]
  /\ flags = [p \in Procs |-> {}]
  /\ mmrequest = NULL /\ next_request = [p \in Procs |-> NULL]
  /\ type = [p \in Procs |-> "none"] /\ target = [p \in Procs |-> p]
  /\ result = [p \in Procs |-> "OK"]
  /\ call = [p \in Procs |-> "none"] /\ fresh = [p \in Procs |-> FALSE]
  /\ kmem = FALSE /\ faults = {}
  /\ pc = "receive" /\ replies = <<>> /\ requestor = NULL
  /\ queue = <<>> /\ active = NULL

-----------------------------------------------------------------------------
(* The kernel *)

\* mm_suspend() tells MM only of the request that starts a list
Announce == mmrequest = NULL

\* send_sig(TASK_MM, SIGKMEM): handed over when MM is in its receive
TellMM ==
  IF pc = "receive" THEN pc' = "drain" /\ UNCHANGED kmem
                    ELSE kmem' = TRUE /\ UNCHANGED pc

\* mm_suspend(), with the flags f that the caller leaves in p; the memory may be
\* another process's, which matters only when that process may die
mm_suspend(p, t, f) ==
  /\ state' = [state EXCEPT ![p] = @ \cup {"MMREQUEST"}]
  /\ flags' = [flags EXCEPT ![p] = f]
  /\ type' = [type EXCEPT ![p] = t]
  /\ \E q \in IF Kills /\ t = "SYSCALL" THEN Procs ELSE {p} :
       target' = [target EXCEPT ![p] = q]
  /\ next_request' = [next_request EXCEPT ![p] = mmrequest]
  /\ mmrequest' = p
  /\ IF Announce THEN TellMM ELSE UNCHANGED <<pc, kmem>>
  /\ UNCHANGED <<result, faults, replies, requestor, queue, active>>

InUser(p) == state[p] = {} /\ flags[p] = {}

\* a system call whose copy finds a page missing; finish_sys_call() saves it
Syscall(p) ==
  /\ InUser(p)
  /\ call' = [call EXCEPT ![p] = "call"]
  /\ fresh' = [fresh EXCEPT ![p] = FALSE]
  /\ mm_suspend(p, "SYSCALL", {"RESUME_SYSCALL"})

\* handle_sys_call() of a traced process: the call is saved before it is
\* and p stops until its tracer lets it go on
TracedCall(p) ==
  /\ InUser(p) /\ p \in Traced
  /\ call' = [call EXCEPT ![p] = "traced"]
  /\ fresh' = [fresh EXCEPT ![p] = FALSE]
  /\ flags' = [flags EXCEPT ![p] = {"RESUME_SYSCALL"}]
  /\ UNCHANGED <<state, mmrequest, next_request, type, target, result, kmem, faults, mmVars>>

\* resume_sys_call() in switch_to_user(): check_mm_result() comes first, and the
\* copy may find another page missing
resume_sys_call(p) ==
  /\ state[p] = {} /\ "RESUME_SYSCALL" \in flags[p]
  /\ \/ /\ flags' = [flags EXCEPT ![p] = @ \ {"RESUME_SYSCALL"}]
        /\ call' = [call EXCEPT ![p] = "none"]
        /\ UNCHANGED <<state, mmrequest, next_request, type, target, result, fresh,
                       kmem, faults, mmVars>>
     \/ /\ result[p] = "OK"
        /\ call' = [call EXCEPT ![p] = "call"]
        /\ UNCHANGED fresh
        /\ mm_suspend(p, "SYSCALL", flags[p])

\* p, in its receive, is handed a message (see KernelIPC)
Handed(p) ==
  /\ InUser(p)
  /\ flags' = [flags EXCEPT ![p] = {"DELIVER_MSG"}]
  /\ UNCHANGED <<state, mmrequest, next_request, type, target, result, call, fresh,
                 kmem, faults, mmVars>>

\* deliver_msg() in switch_to_user(): the copy succeeds, or asks MM once; when
\* it fails again the process gets SIGSEGV and stops
deliver_msg(p) ==
  /\ state[p] = {} /\ "DELIVER_MSG" \in flags[p]
  /\ "RESUME_SYSCALL" \notin flags[p]
  /\ \/ /\ flags' = [flags EXCEPT ![p] = {}]
        /\ UNCHANGED <<state, mmrequest, next_request, type, target, result, kmem,
                       faults, mmVars>>
     \/ /\ "MSG_FAILED" \in flags[p]
        /\ state' = [state EXCEPT ![p] = @ \cup {"SIGNALED"}]
        /\ UNCHANGED <<flags, mmrequest, next_request, type, target, result, kmem,
                       faults, mmVars>>
     \/ /\ "MSG_FAILED" \notin flags[p]
        /\ mm_suspend(p, "DELIVERMSG", flags[p] \cup {"MSG_FAILED"})
  /\ UNCHANGED <<call, fresh>>

\* page_fault_handler(): a FAULT message to MM, in the name of p
PageFault(p) ==
  /\ InUser(p)
  /\ state' = [state EXCEPT ![p] = {"PAGEFAULT"}]
  /\ faults' = faults \cup {p}
  /\ UNCHANGED <<flags, mmrequest, next_request, type, target, result, call, fresh,
                 kmem, mmVars>>

\* a signal handler returns, or PM lets the process go on
Continue(p) ==
  /\ "SIGNALED" \in state[p]
  /\ state' = [state EXCEPT ![p] = @ \ {"SIGNALED"}]
  /\ UNCHANGED <<flags, mmrequest, next_request, type, target, result, call, fresh,
                 kmem, faults, mmVars>>

\* kernel_clear() by PM: the slot becomes free whatever the process waits for
sys_clear(p) ==
  /\ Kills /\ state[p] # FREE
  /\ state' = [state EXCEPT ![p] = FREE]
  /\ UNCHANGED <<flags, mmrequest, next_request, type, target, result, call, fresh,
                 kmem, faults, mmVars>>

-----------------------------------------------------------------------------
(* The memory manager *)

\* MM is back in its receive: a pending notification comes first
Receive == IF kmem THEN pc' = "drain" /\ kmem' = FALSE
                   ELSE pc' = "receive" /\ UNCHANGED kmem

\* mutant: the request stays in the list
TakeRequest_Stay ==
  /\ mmrequest' = mmrequest
  /\ requestor' = mmrequest
  /\ result' = [result EXCEPT ![mmrequest] = "MMSUSPEND"]

\* VMCTL_GET_MMREQ
TakeRequest ==
  /\ mmrequest' = next_request[mmrequest]
  /\ requestor' = mmrequest
  /\ result' = [result EXCEPT ![mmrequest] = "MMSUSPEND"]

\* do_mmrequest(): take requests until there is none
do_mmrequest ==
  /\ pc = "drain"
  /\ \/ mmrequest = NULL /\ Receive /\ UNCHANGED <<mmrequest, requestor, result>>
     \/ mmrequest # NULL /\ TakeRequest /\ pc' = "handle" /\ UNCHANGED kmem
  /\ UNCHANGED <<state, flags, next_request, type, target, call, fresh, faults,
                 replies, queue, active>>

\* ... and when the process whose memory it is has gone, do_mmrequest() returns
\* with the request unanswered and the rest of the list untouched
TargetGone ==
  /\ pc = "handle" /\ state[target[requestor]] = FREE
  /\ requestor' = NULL /\ Receive
  /\ UNCHANGED <<kernelVars, faults, replies, queue, active>>

\* enqueue_vfs_request(): at the head of the queue, and sent when none is under
\* way; the result is the queue and the request under way
Enqueued(r, q, a) == IF a = NULL THEN <<q, r>> ELSE <<<<r>> \o q, a>>

Queued(qa) == queue' = qa[1] /\ active' = qa[2]

\* handle_memory(): every page is brought in, one is bad, or one is read by VFS
handle_memory ==
  /\ pc = "handle" /\ state[target[requestor]] # FREE
  /\ \/ \E res \in {"OK", "EFAULT"} :
          /\ replies' = <<[who |-> requestor, result |-> res]>>
          /\ UNCHANGED <<queue, active>>
     \/ /\ Len(queue) < MaxQueue
        /\ Queued(Enqueued([kind |-> "mem", who |-> requestor, left |-> MaxPages],
                        queue, active))
        /\ UNCHANGED replies
  /\ pc' = "reply"
  /\ UNCHANGED <<kernelVars, kmem, faults, requestor>>

\* the flags of a process whose request is answered
Resumed(p) == IF type[p] = "SYSCALL" THEN flags[p] \cup {"RESUME_SYSCALL"}
                                     ELSE flags[p]

\* mutant: the answer is not stored
Answered_Keep(p, res) == result

\* the answer that a resumed system call starts from
Answered(p, res) == [result EXCEPT ![p] = res]

\* handle_memory_reply() with VMCTL_REPLY_MMREQ; it panics when the kernel does
\* not know the process any more
handle_memory_reply ==
  /\ pc = "reply" /\ replies # <<>>
  /\ LET p == Head(replies).who IN
     IF state[p] = FREE
     THEN pc' = "panic" /\ UNCHANGED <<state, flags, result, fresh, replies>>
     ELSE /\ result' = Answered(p, Head(replies).result)
          /\ fresh' = [fresh EXCEPT ![p] = TRUE]
          /\ flags' = [flags EXCEPT ![p] = Resumed(p)]
          /\ state' = [state EXCEPT ![p] = @ \ {"MMREQUEST"}]
          /\ replies' = Tail(replies)
          /\ UNCHANGED pc
  /\ UNCHANGED <<mmrequest, next_request, type, target, call, kmem, faults,
                 requestor, queue, active>>

\* all answers given: on with the list, or back to the receive
Replied ==
  /\ pc = "reply" /\ replies = <<>>
  /\ requestor' = NULL
  /\ \/ requestor # NULL /\ pc' = "drain" /\ UNCHANGED kmem
     \/ requestor = NULL /\ Receive
  /\ UNCHANGED <<kernelVars, faults, replies, queue, active>>

\* handle_page_fault() is done with p: the page is there, or p got SIGSEGV
Cleared(p) ==
  \E sig \in {{}, {"SIGNALED"}} :
    state' = [state EXCEPT ![p] = IF @ = FREE THEN FREE
                                  ELSE (@ \ {"PAGEFAULT"}) \cup sig]

\* do_handle_fault(): done with, or the page is read by VFS.  MM does not
\* survive the fault of a process that is gone.
do_handle_fault(p) ==
  /\ pc = "receive" /\ p \in faults
  /\ faults' = faults \ {p}
  /\ \/ /\ Cleared(p) /\ UNCHANGED <<queue, active>>
        /\ pc' = IF state[p] = FREE THEN "crash" ELSE pc
     \/ /\ Len(queue) < MaxQueue
        /\ Queued(Enqueued([kind |-> "pf", who |-> p, left |-> 0], queue, active))
        /\ UNCHANGED <<state, pc>>
  /\ UNCHANGED <<flags, mmrequest, next_request, type, target, result, call,
                 fresh, kmem, replies, requestor>>

\* process_queue(), at the end of do_vfs_reply()
Started(q, a) == IF q # <<>> /\ a = NULL THEN <<Tail(q), Head(q)>> ELSE <<q, a>>

\* the request r, with one page less to look at, goes to VFS again
Again(r) == Enqueued([r EXCEPT !.left = @ - 1], queue, NULL)

\* handle_memory_callback(): the pages that follow may need VFS again.  When
\* the read failed MM replies, goes on as if it had not, and replies again.
MemCallback(r, failed) ==
  LET first == IF failed THEN <<[who |-> r.who, result |-> "EFAULT"]>> ELSE <<>>
      last == <<[who |-> r.who, result |-> IF failed THEN "EFAULT" ELSE "OK"]>>
  IN /\ \/ replies' = first \o last /\ Queued(Started(queue, NULL))
        \/ /\ r.left > 0
           /\ replies' = first
           /\ Queued(Started(Again(r)[1], Again(r)[2]))
     /\ pc' = "reply" /\ UNCHANGED state

\* handle_page_fault_callback(): the page is in the cache now, or the region is
\* gone, or the process is, which MM may know already or not.  When the read
\* failed region_handle_pf() may ask VFS again, which handle_page_fault() asserts
\* not to happen.
FaultCallback(r, failed) ==
  \/ /\ Cleared(r.who)
     /\ Queued(Started(queue, NULL))
     /\ pc' \in IF state[r.who] = FREE THEN {"reply", "crash"} ELSE {"reply"}
     /\ UNCHANGED replies
  \/ /\ failed /\ state[r.who] # FREE
     /\ Queued(Enqueued(r, queue, NULL))
     /\ pc' = "assert" /\ UNCHANGED <<replies, state>>

\* VFS has read the page, or not
do_vfs_reply ==
  /\ pc = "receive" /\ active # NULL
  /\ \E failed \in IF VfsFails THEN BOOLEAN ELSE {FALSE} :
       \/ active.kind = "mem" /\ MemCallback(active, failed)
       \/ active.kind = "pf" /\ FaultCallback(active, failed)
  /\ UNCHANGED <<flags, mmrequest, next_request, type, target, result, call, fresh,
                 kmem, faults, requestor>>

Next ==
  \/ \E p \in Procs : \/ Syscall(p) \/ TracedCall(p) \/ resume_sys_call(p)
                      \/ Handed(p) \/ deliver_msg(p) \/ PageFault(p)
                      \/ Continue(p) \/ sys_clear(p) \/ do_handle_fault(p)
  \/ do_mmrequest
  \/ TargetGone
  \/ handle_memory
  \/ handle_memory_reply
  \/ Replied
  \/ do_vfs_reply

Spec == Init /\ [][Next]_vars

\* What MM does without being sent anything more
MMRuns == do_mmrequest \/ TargetGone \/ handle_memory \/ handle_memory_reply \/ Replied

-----------------------------------------------------------------------------
(* Properties *)

\* Every variable holds what the C variables can hold.
TypeOK ==
  /\ state \in [Procs -> SUBSET {"MMREQUEST", "PAGEFAULT", "SIGNALED", "FREE_SLOT"}]
  /\ flags \in [Procs -> SUBSET {"RESUME_SYSCALL", "DELIVER_MSG", "MSG_FAILED"}]
  /\ mmrequest \in Procs \cup {NULL}
  /\ next_request \in [Procs -> Procs \cup {NULL}]
  /\ type \in [Procs -> {"none", "SYSCALL", "DELIVERMSG"}]
  /\ target \in [Procs -> Procs]
  /\ result \in [Procs -> {"OK", "EFAULT", "MMSUSPEND"}]
  /\ call \in [Procs -> {"none", "call", "traced"}]
  /\ fresh \in [Procs -> BOOLEAN]
  /\ kmem \in BOOLEAN /\ faults \subseteq Procs
  /\ pc \in {"receive", "drain", "handle", "reply", "panic", "crash", "assert"}
  /\ replies \in Seq([who : Procs, result : {"OK", "EFAULT"}])
  /\ requestor \in IF pc = "handle" THEN Procs ELSE Procs \cup {NULL}
  /\ queue \in Seq(Request) /\ active \in Request \cup {NULL}

\* mm_suspend() tells MM of the first request only: as long as one is in the
\* list, MM is draining it or has the notification pending.
ListIsAnnounced ==
  mmrequest # NULL
    => kmem \/ pc \in {"drain", "handle"} \/ (pc = "reply" /\ requestor # NULL)

\* the processes in the list, as VMCTL_GET_MMREQ would walk it
Nth[n \in 0 .. Cardinality(Procs)] ==
  IF n = 0 THEN mmrequest
  ELSE IF Nth[n - 1] = NULL THEN NULL ELSE next_request[Nth[n - 1]]

Places(p, kind) ==
  Cardinality({i \in 1 .. Len(queue) : queue[i].who = p /\ queue[i].kind = kind})
  + IF active # NULL /\ active.who = p /\ active.kind = kind THEN 1 ELSE 0

\* how often p is in the list, with MM, in a request to VFS, or about to be answered
Requests(p) ==
  Cardinality({n \in 0 .. Cardinality(Procs) : Nth[n] = p})
  + (IF pc = "handle" /\ requestor = p THEN 1 ELSE 0)
  + Cardinality({i \in 1 .. Len(replies) : replies[i].who = p})
  + Places(p, "mem")

Faults(p) == (IF p \in faults THEN 1 ELSE 0) + Places(p, "pf")

\* A process is answered once for every time it was stopped for memory: its
\* request, and its page fault, is in the hands of one party at most, and of
\* none when it is not stopped for it.
HeldOnce ==
  \A p \in Procs : state[p] # FREE =>
    /\ Requests(p) <= IF "MMREQUEST" \in state[p] THEN 1 ELSE 0
    /\ Faults(p) <= IF "PAGEFAULT" \in state[p] THEN 1 ELSE 0

\* A process stopped for memory is known to someone who will let it go on.
NotForgotten ==
  \A p \in Procs :
    /\ "MMREQUEST" \in state[p] => Requests(p) > 0
    /\ "PAGEFAULT" \in state[p] => Faults(p) > 0

\* "set when we have to resume syscall execution": PF_RESUME_SYSCALL is set
\* exactly while a system call is unfinished.
ResumeIsReal ==
  \A p \in Procs : "RESUME_SYSCALL" \in flags[p] <=> call[p] # "none"

\* A system call that is repeated is judged by the answer to its own request.
ResultIsFresh ==
  \A p \in Procs :
    state[p] = {} /\ "RESUME_SYSCALL" \in flags[p]
      => result[p] = "OK" \/ (fresh[p] /\ result[p] = "EFAULT")

\* VFS has a request of MM as long as the queue is not empty.
VfsBusy == queue # <<>> => active # NULL

\* The assertion of handle_page_fault(): once VFS has answered, the page is not
\* asked for a second time.
RetryNotSuspended == pc # "assert"

Stopped(p) == {"MMREQUEST", "PAGEFAULT"} \cap state[p] # {}

\* The two lists, which serve the last to come first, have run empty.
CaughtUp == pc = "receive" /\ queue = <<>>
=============================================================================
