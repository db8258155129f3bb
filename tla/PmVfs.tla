-------------------------------- MODULE PmVfs --------------------------------
(***************************************************************************)
(* The messages between the process manager and the file server: fork,     *)
(* exit and exec, which PM announces with BOTH, the identifiers that       *)
(* setuid() changes, which PM announces with SEND and VFS confirms with a  *)
(* SEND of its own, and the signalfd requests of VFS, which are            *)
(* asynchronous and which PM answers with SEND.  The kernel refuses a send *)
(* to a process that is itself blocked sending to the sender (deadlock()); *)
(* neither server looks at the result.  Workers of VFS run one after the   *)
(* other, and a blocking send of one of them stops them all.               *)
(***************************************************************************)
EXTENDS Naturals, Sequences, FiniteSets

CONSTANTS Procs, Born,   \* the processes, and those that exist at the start
          Calls,         \* the calls that they make
          PM, FS, MM,    \* TASK_PM, TASK_FS, TASK_MM
          ANY, NONE,
          MaxCalls       \* bound on the calls of all processes together

Servers == {PM, FS}

Msg(t, p) == [type |-> t, who |-> p]

NoMsg == Msg("none", NONE)

VARIABLES
  recvfrom,   \* of a server: from whom it waits for a message, or NONE
  queue,      \* of a server: the blocked senders, with their messages
  msg,        \* of a server: the message it has received
  async,      \* the asynchronous messages to PM
  todo,       \* what PM still does for the request it handles
  work,       \* the requests of VFS whose worker can run
  asleep,     \* the requests of VFS whose worker waits for an answer
  in_pm, in_fs,  \* the processes that PM and VFS know
  call,       \* the call a process waits in, or "none"
  made        \* the calls made so far

vars == <<recvfrom, queue, msg, async, todo, work, asleep, in_pm, in_fs, call,
          made>>

Init ==
  /\ recvfrom = [s \in Servers |-> ANY]
  /\ queue = [s \in Servers |-> <<>>] /\ msg = [s \in Servers |-> NoMsg]
  /\ async = {} /\ todo = <<>> /\ work = <<>> /\ asleep = {}
  /\ in_pm = Born /\ in_fs = Born /\ call = [p \in Procs |-> "none"]
  /\ made = 0

-----------------------------------------------------------------------------
(* The kernel                                                              *)

Sending(x) == \E s \in Servers : \E k \in DOMAIN queue[s] : queue[s][k].from = x

Runs(s) == recvfrom[s] = NONE /\ ~Sending(s)

\* deadlock(): the receiver is blocked sending to the sender
deadlock(x, s) == \E k \in DOMAIN queue[x] : queue[x][k].from = s

\* the receiver waits for a message of this sender
Waits(s, x) == recvfrom[s] \in {x, ANY} /\ ~Sending(s)

\* the queues after a send that is not refused and finds nobody waiting
Delivered(x, s, m, q) == [q EXCEPT ![s] = Append(@, [from |-> x, m |-> m])]

\* msg_send() of server x to server s; r is what x receives from afterwards.
msg_send(x, s, m, r) ==
  IF deadlock(x, s) THEN UNCHANGED <<recvfrom, queue, msg>>
  ELSE IF Waits(s, x)
  THEN /\ msg' = [msg EXCEPT ![s] = m]
       /\ recvfrom' = [recvfrom EXCEPT ![s] = NONE, ![x] = r]
       /\ UNCHANGED queue
  ELSE /\ queue' = Delivered(x, s, m, queue)
       /\ recvfrom' = [recvfrom EXCEPT ![x] = r]
       /\ UNCHANGED msg

\* SEND_NONBLOCK: a message that nobody waits for is dropped
reply_server(x, s, m) ==
  /\ IF Waits(s, x)
     THEN msg' = [msg EXCEPT ![s] = m] /\ recvfrom' = [recvfrom EXCEPT ![s] = NONE]
     ELSE UNCHANGED <<msg, recvfrom>>
  /\ UNCHANGED queue

\* asyncsend3() to PM: only the receive of its main loop takes the message
asyncsend3(m) ==
  IF recvfrom[PM] = ANY
  THEN /\ msg' = [msg EXCEPT ![PM] = m] /\ recvfrom' = [recvfrom EXCEPT ![PM] = NONE]
       /\ UNCHANGED async
  ELSE async' = async \cup {m} /\ UNCHANGED <<msg, recvfrom>>

\* RECEIVE_ASYNC from ANY, in the main loop of both
msg_receive(s) ==
  /\ Runs(s) /\ msg[s] = NoMsg
  /\ \/ /\ s = PM /\ async # {}
        /\ \E m \in async : msg' = [msg EXCEPT ![s] = m] /\ async' = async \ {m}
        /\ UNCHANGED <<recvfrom, queue>>
     \/ /\ s # PM \/ async = {}
        /\ queue[s] # <<>>
        /\ msg' = [msg EXCEPT ![s] = Head(queue[s]).m]
        /\ queue' = [queue EXCEPT ![s] = Tail(@)]
        /\ UNCHANGED <<recvfrom, async>>
     \/ /\ s # PM \/ async = {}
        /\ queue[s] = <<>>
        /\ recvfrom' = [recvfrom EXCEPT ![s] = ANY]
        /\ UNCHANGED <<queue, msg, async>>

-----------------------------------------------------------------------------
(* The processes: a call is BOTH, so the process waits for the answer.     *)

\* the server that gets the call
ServerOf(c) == IF c = "signalfd" THEN FS ELSE PM

Call(p, c) ==
  LET s == ServerOf(c) IN
  /\ p \in in_pm /\ call[p] = "none"
  /\ made < MaxCalls /\ made' = made + 1
  /\ call' = [call EXCEPT ![p] = c]
  /\ IF Waits(s, p)
     THEN /\ msg' = [msg EXCEPT ![s] = Msg(c, p)]
          /\ recvfrom' = [recvfrom EXCEPT ![s] = NONE] /\ UNCHANGED queue
     ELSE /\ queue' = [queue EXCEPT ![s] = Append(@, [from |-> p, m |-> Msg(c, p)])]
          /\ UNCHANGED <<msg, recvfrom>>
  /\ UNCHANGED <<async, todo, work, asleep, in_pm, in_fs>>

Answered(p) == [call EXCEPT ![p] = "none"]

-----------------------------------------------------------------------------
(* PM                                                                      *)

Op(o, t, p) == [op |-> o, type |-> t, who |-> p]

\* do_getsetid(), do_fork(), do_exit(), do_exec(), do_signalfd_dequeue() and
\* do_kill() of a blocked signal that a signalfd asks for: what they send, in order.  A message of another type is answered with ENOSYS.
Program(m) ==
  CASE m.type = "setid" -> <<Op("send", "GETSETID", m.who)>>
    [] m.type = "fork" ->
         <<Op("mm", "fork", m.who)>> \o
         (IF Procs \ in_pm = {} THEN <<>>
          ELSE LET c == CHOOSE c \in Procs \ in_pm : TRUE IN
               <<Op("both", "FORK", c), Op("birth", "", c)>>)
         \o <<Op("reply", "", m.who)>>
    [] m.type = "exit" ->
         <<Op("both", "EXIT", m.who), Op("mm", "clear", m.who), Op("gone", "", m.who)>>
    [] m.type = "exec" -> <<Op("both", "EXEC", m.who), Op("reply", "", m.who)>>
    [] m.type = "SFD_DEQUEUE" -> <<Op("send", "SFD_REPLY", m.who)>>
    [] m.type = "kill" -> <<Op("send", "SFD_NOTIFY", m.who), Op("reply", "", m.who)>>
    [] m.type = "GETSETID_REPLY" -> <<Op("reply", "", m.who)>>
    [] OTHER -> <<>>

PMReceive == todo = <<>> /\ msg_receive(PM)
             /\ UNCHANGED <<todo, work, asleep, in_pm, in_fs, call, made>>

PMHandle ==
  /\ Runs(PM) /\ todo = <<>> /\ msg[PM] # NoMsg
  /\ todo' = Program(msg[PM]) /\ msg' = [msg EXCEPT ![PM] = NoMsg]
  /\ UNCHANGED <<recvfrom, queue, async, work, asleep, in_pm, in_fs, call, made>>

Doing(o) == Runs(PM) /\ todo # <<>> /\ Head(todo).op = o

\* send_recv(SEND, TASK_FS)
PMSend ==
  /\ Doing("send")
  /\ msg_send(PM, FS, Msg(Head(todo).type, Head(todo).who), NONE)
  /\ todo' = Tail(todo)
  /\ UNCHANGED <<async, work, asleep, in_pm, in_fs, call, made>>

\* send_recv(BOTH, TASK_FS); a refused send ends it
PMBoth ==
  /\ Doing("both")
  /\ msg_send(PM, FS, Msg(Head(todo).type, Head(todo).who), FS)
  /\ todo' = IF deadlock(PM, FS) THEN Tail(todo)
             ELSE <<Op("answer", "", NONE)>> \o Tail(todo)
  /\ UNCHANGED <<async, work, asleep, in_pm, in_fs, call, made>>

\* what VFS sent is the answer, whatever it is
PMAnswer ==
  /\ Doing("answer")
  /\ msg' = [msg EXCEPT ![PM] = NoMsg] /\ todo' = Tail(todo)
  /\ UNCHANGED <<recvfrom, queue, async, work, asleep, in_pm, in_fs, call, made>>

\* mm_fork() and procctl(): BOTH with MM, which answers (external)
PMAsksMM ==
  /\ Doing("mm")
  /\ recvfrom' = [recvfrom EXCEPT ![PM] = MM] /\ todo' = Tail(todo)
  /\ UNCHANGED <<queue, msg, async, work, asleep, in_pm, in_fs, call, made>>

MMAnswers ==
  /\ recvfrom[PM] = MM
  /\ recvfrom' = [recvfrom EXCEPT ![PM] = NONE]
  /\ UNCHANGED <<queue, msg, async, todo, work, asleep, in_pm, in_fs, call, made>>

\* the child, or the caller, gets its answer
PMReplies ==
  /\ Doing("reply")
  /\ call' = Answered(Head(todo).who) /\ todo' = Tail(todo)
  /\ UNCHANGED <<recvfrom, queue, msg, async, work, asleep, in_pm, in_fs, made>>

PMBirth ==
  /\ Doing("birth")
  /\ in_pm' = in_pm \cup {Head(todo).who} /\ todo' = Tail(todo)
  /\ UNCHANGED <<recvfrom, queue, msg, async, work, asleep, in_fs, call, made>>

PMGone ==
  /\ Doing("gone")
  /\ in_pm' = in_pm \ {Head(todo).who} /\ call' = Answered(Head(todo).who)
  /\ todo' = Tail(todo)
  /\ UNCHANGED <<recvfrom, queue, msg, async, work, asleep, in_fs, made>>

-----------------------------------------------------------------------------
(* VFS                                                                     *)

FSReceive == work = <<>> /\ msg_receive(FS)
             /\ UNCHANGED <<todo, work, asleep, in_pm, in_fs, call, made>>

\* signalfd_reply_generic(): the worker of the process that reads
Woken(m) == {r \in asleep : m.type = "SFD_REPLY" /\ r = Msg("signalfd", m.who)}

\* main(): a worker gets the request, or the one that waits is woken
FSHandle ==
  /\ Runs(FS) /\ work = <<>> /\ msg[FS] # NoMsg
  /\ LET m == msg[FS] IN
     IF m.type \in {"SFD_REPLY", "SFD_NOTIFY"}
     THEN /\ asleep' = asleep \ Woken(m)
          /\ work' = IF Woken(m) = {} THEN <<>> ELSE <<Msg("signalfd_done", m.who)>>
     ELSE work' = <<m>> /\ UNCHANGED asleep
  /\ msg' = [msg EXCEPT ![FS] = NoMsg]
  /\ UNCHANGED <<recvfrom, queue, async, todo, in_pm, in_fs, call, made>>

Working(t) == Runs(FS) /\ work # <<>> /\ Head(work).type = t

\* fs_getsetid()
FSGetsetid ==
  /\ Working("GETSETID")
  /\ msg_send(FS, PM, Msg("GETSETID_REPLY", Head(work).who), NONE)
  /\ work' = Tail(work)
  /\ UNCHANGED <<async, todo, asleep, in_pm, in_fs, call, made>>

\* mutant: the process stays known
fs_exit_Keeps ==
  /\ Working("EXIT")
  /\ UNCHANGED in_fs
  /\ reply_server(FS, PM, Msg("ok", NONE))
  /\ work' = Tail(work)
  /\ UNCHANGED <<async, todo, asleep, in_pm, call, made>>

fs_exit ==
  /\ Working("EXIT")
  /\ in_fs' = in_fs \ {Head(work).who}
  /\ reply_server(FS, PM, Msg("ok", NONE))
  /\ work' = Tail(work)
  /\ UNCHANGED <<async, todo, asleep, in_pm, call, made>>

fs_fork ==
  /\ Working("FORK")
  /\ in_fs' = in_fs \cup {Head(work).who}
  /\ reply_server(FS, PM, Msg("ok", NONE))
  /\ work' = Tail(work)
  /\ UNCHANGED <<async, todo, asleep, in_pm, call, made>>

\* fs_exec() waits for a file server, a read of a signalfd for PM
FSSleeps ==
  /\ \/ Working("EXEC") /\ UNCHANGED <<recvfrom, msg, async>>
     \/ Working("signalfd") /\ asyncsend3(Msg("SFD_DEQUEUE", Head(work).who))
  /\ asleep' = asleep \cup {Head(work)} /\ work' = Tail(work)
  /\ UNCHANGED <<queue, todo, in_pm, in_fs, call, made>>

\* The file server has answered fs_exec() (external): main() receives it and
\* wakes the worker, which goes on to the end.
FSExec(r) ==
  /\ work = <<>> /\ msg[FS] = NoMsg /\ ~Sending(FS)
  /\ r \in asleep /\ r.type = "EXEC"
  /\ asleep' = asleep \ {r}
  /\ reply_server(FS, PM, Msg("ok", NONE))
  /\ UNCHANGED <<async, todo, work, in_pm, in_fs, call, made>>

FSReplies ==
  /\ Working("signalfd_done")
  /\ call' = Answered(Head(work).who) /\ work' = Tail(work)
  /\ UNCHANGED <<recvfrom, queue, msg, async, todo, asleep, in_pm, in_fs, made>>

PMNext ==
  \/ PMReceive \/ PMHandle \/ PMSend \/ PMBoth \/ PMAnswer \/ PMAsksMM
  \/ PMReplies \/ PMBirth \/ PMGone

FSNext ==
  \/ FSReceive \/ FSHandle \/ FSGetsetid \/ fs_exit \/ fs_fork \/ FSSleeps
  \/ FSReplies

Next ==
  \/ \E p \in Procs, c \in Calls : Call(p, c)
  \/ PMNext \/ FSNext \/ MMAnswers
  \/ \E r \in asleep : FSExec(r)

Spec == Init /\ [][Next]_vars

-----------------------------------------------------------------------------
\* The queues hold blocked senders, and a server that has a message does not wait
\* for one (msg_send(), msg_receive()).
TypeOK ==
  /\ recvfrom \in [Servers -> {PM, FS, MM, ANY, NONE}]
  /\ \A s \in Servers : \A k \in DOMAIN queue[s] :
       queue[s][k].from \in (Procs \cup Servers) \ {s}
  /\ in_pm \subseteq Procs /\ in_fs \subseteq Procs
  /\ call \in [Procs -> Calls \cup {"none"}] /\ made \in 0 .. MaxCalls
  /\ \A s \in Servers : msg[s] # NoMsg => recvfrom[s] = NONE

\* A process that PM has finished with has no entry in VFS any more, so its
\* files are closed (exit_proc(), fs_exit()).
FilesCleanedUp == todo = <<>> => in_fs \subseteq in_pm

\* A child that runs is known to VFS, with the files of its parent (do_fork(),
\* fs_fork()).
ChildKnown == \A p \in in_pm : call[p] # "exit" => p \in in_fs

\* PM takes as the answer of VFS nothing but the answer (send_recv(BOTH)).
AnswerIsAnswer ==
  todo # <<>> /\ Head(todo).op = "answer" /\ msg[PM] # NoMsg => msg[PM].type = "ok"
=============================================================================
