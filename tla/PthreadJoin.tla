---------------------------- MODULE PthreadJoin ----------------------------
(***************************************************************************)
(* pthread_create(), pthread_exit(), pthread_join() and pthread_detach()   *)
(* of one thread, with what PM does for them: do_fork() stores the tid     *)
(* before the thread is born, exit_proc() clears it and wakes one waiter.  *)
(* Two threads may try to join or detach the same thread.                  *)
(***************************************************************************)
EXTENDS Futex

CONSTANTS
  Target,   \* the thread that is created
  Creator   \* the thread that creates it

VARIABLES
  pc,           \* where each thread is
  op,           \* what the thread is doing: "join" or "detach"
  old_state,    \* the local variable of the three functions
  join_state,   \* of the target
  retval,       \* of the target: 0 until pthread_exit() has set it
  result,       \* what join or detach has returned to each thread
  got           \* the thread result that join has stored for its caller

vars == <<word, queue, pc, op, old_state, join_state, retval, result, got>>

Tid == "tid"
Others == Threads \ {Target}

Init ==
  /\ word = [k \in {Tid} |-> 0]
  /\ queue = <<>>
  /\ pc = [t \in Threads |-> IF t = Creator THEN "create" ELSE "unborn"]
  /\ op = [t \in Threads |-> "join"]
  /\ old_state = [t \in Threads |-> "NOT_JOINED"]
  /\ join_state = "NOT_JOINED"
  /\ retval = 0
  /\ result = [t \in Threads |-> "none"]
  /\ got = [t \in Threads |-> 0]

Goto(t, label) == pc' = [pc EXCEPT ![t] = label]

\* PM handles no other request while it is in exit_proc().
PMFree == pc[Target] # "clear"

\* pthread_create() and do_fork(): the tid is stored, then the child is born;
\* the handle is known to the other threads when clone() has returned.
pthread_create ==
  /\ pc[Creator] = "create"
  /\ word' = [word EXCEPT ![Tid] = 1]
  /\ pc' = [t \in Threads |-> IF t = Target THEN "runs" ELSE "idle"]
  /\ UNCHANGED <<queue, op, old_state, join_state, retval, result, got>>

\* pthread_exit(): the result, the compare and swap loop, and _exit().
pthread_exit ==
  /\ pc[Target] = "runs"
  /\ retval' = 1
  /\ Goto(Target, "exit_swap")
  /\ UNCHANGED <<word, queue, op, old_state, join_state, result, got>>

ExitSwap ==
  /\ pc[Target] = "exit_swap"
  /\ IF join_state = old_state[Target]
       THEN join_state' = "EXITED_NOT_JOINED" /\ Goto(Target, "exit") /\ UNCHANGED old_state
       ELSE /\ old_state' = [old_state EXCEPT ![Target] = join_state]
            /\ Goto(Target, "exit")
            /\ UNCHANGED join_state
  /\ UNCHANGED <<word, queue, op, retval, result, got>>

\* exit_proc(): the word is cleared in the memory that the threads share, and
\* then the waiter is answered.
ExitClear ==
  /\ pc[Target] = "exit"
  /\ word' = [word EXCEPT ![Tid] = 0]
  /\ Goto(Target, "clear")
  /\ UNCHANGED <<queue, op, old_state, join_state, retval, result, got>>

\* The variant that only clears the word.
ExitWake_Silent ==
  /\ pc[Target] = "clear"
  /\ Goto(Target, "dead")
  /\ UNCHANGED <<word, queue, op, old_state, join_state, retval, result, got>>

ExitWake ==
  /\ pc[Target] = "clear"
  /\ futex_wake(Tid, 1)
  /\ Goto(Target, "dead")
  /\ UNCHANGED <<word, op, old_state, join_state, retval, result, got>>

\* A thread calls pthread_join() or pthread_detach().
Calls(t) ==
  /\ t \in Others /\ pc[t] = "idle" /\ result[t] = "none"
  /\ \/ op' = [op EXCEPT ![t] = "join"] /\ Goto(t, "join_swap")
     \/ op' = [op EXCEPT ![t] = "detach"] /\ Goto(t, "detach_swap")
  /\ old_state' = [old_state EXCEPT ![t] = "NOT_JOINED"]
  /\ UNCHANGED <<word, queue, join_state, retval, result, got>>

Returns(t, r) ==
  /\ Goto(t, "idle")
  /\ result' = [result EXCEPT ![t] = r]

\* The variant that joins a thread that is joined or detached already.
JoinSwap_Any(t) ==
  /\ pc[t] = "join_swap"
  /\ join_state' = "JOINED" /\ Goto(t, "test")
  /\ UNCHANGED <<word, queue, op, retval, old_state, result, got>>

\* The compare and swap loop of pthread_join().
JoinSwap(t) ==
  /\ pc[t] = "join_swap"
  /\ CASE join_state = old_state[t] ->
            join_state' = "JOINED" /\ Goto(t, "test") /\ UNCHANGED <<old_state, result>>
       [] join_state # old_state[t] /\ join_state \in {"NOT_JOINED", "EXITED_NOT_JOINED"} ->
            /\ old_state' = [old_state EXCEPT ![t] = join_state]
            /\ UNCHANGED <<join_state, pc, result>>
       [] OTHER ->
            /\ old_state' = [old_state EXCEPT ![t] = join_state]
            /\ Returns(t, "EINVAL")
            /\ UNCHANGED join_state
  /\ UNCHANGED <<word, queue, op, retval, got>>

\* pthread_detach(); of a thread that has exited, it joins it and then
\* returns EINVAL all the same.
DetachSwap(t) ==
  /\ pc[t] = "detach_swap"
  /\ CASE join_state = "NOT_JOINED" ->
            join_state' = "DETACHED" /\ Returns(t, "ok") /\ UNCHANGED old_state
       [] join_state = "EXITED_NOT_JOINED" ->
            /\ old_state' = [old_state EXCEPT ![t] = "NOT_JOINED"]
            /\ Goto(t, "join_swap")
            /\ UNCHANGED <<join_state, result>>
       [] OTHER -> Returns(t, "EINVAL") /\ UNCHANGED <<join_state, old_state>>
  /\ UNCHANGED <<word, queue, op, retval, got>>

\* The loop that waits for the tid to be cleared.
JoinTest(t) ==
  /\ pc[t] = "test" \/ (pc[t] = "sleep" /\ ~Queued(t))
  /\ IF word[Tid] # 0
       THEN Goto(t, "wait") /\ UNCHANGED <<result, got>>
       ELSE /\ Returns(t, IF op[t] = "join" THEN "ok" ELSE "EINVAL")
            /\ got' = [got EXCEPT ![t] = retval]
  /\ UNCHANGED <<word, queue, op, old_state, join_state, retval>>

JoinWait(t) ==
  /\ pc[t] = "wait" /\ PMFree
  /\ futex_wait(t, Tid, 1)
  /\ Goto(t, "sleep")
  /\ UNCHANGED <<word, op, old_state, join_state, retval, result, got>>

TargetStep == pthread_exit \/ ExitSwap \/ ExitClear \/ ExitWake
Joining(t) == JoinSwap(t) \/ DetachSwap(t) \/ JoinTest(t) \/ JoinWait(t)

Next == pthread_create \/ TargetStep \/ \E t \in Others : Calls(t) \/ Joining(t)

Spec == Init /\ [][Next]_vars

\* pthread_join() returns the thread's result, and only when PM has let the
\* thread's memory go: its stack may be freed.
JoinAfterExit ==
  \A t \in Others :
    op[t] = "join" /\ result[t] = "ok" => got[t] = 1 /\ pc[Target] \in {"clear", "dead"}

\* One thread at most joins or detaches the target with success.
OneJoiner ==
  \A t, u \in Others : result[t] = "ok" /\ result[u] = "ok" => t = u
=============================================================================
