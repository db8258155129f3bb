------------------------------ MODULE IPCService ------------------------------
(***************************************************************************)
(* What the kernel promises about messages, without process states, queues *)
(* or flags: a message posted is parked, handed to its receiver once, and  *)
(* read by it; async messages between two processes keep their order;      *)
(* notifications from one source merge and interrupts add up until seen.   *)
(***************************************************************************)
EXTENDS IPCTypes

None == [to |-> NO_TASK, msg |-> NoMsg]

VARIABLES
  parked,  \* the synchronous message of each process not handed over yet
  log,     \* log[s][d]: async messages from s to d not handed over yet
  bell,    \* notifiers each process has not seen
  raised,  \* interrupts each process has not seen
  inbox    \* the message each process was handed and has not read

svars == <<parked, log, bell, raised, inbox>>

Init ==
  /\ parked = [p \in Procs |-> None]
  /\ log = [s \in Procs |-> [d \in Procs |-> <<>>]]
  /\ bell = [p \in Procs |-> {}]
  /\ raised = [p \in Procs |-> {}]
  /\ inbox = [p \in Procs |-> NoMsg]

\* d is handed m; whatever it was handed before has been read
Fill(d, m) == inbox[d] = NoMsg /\ inbox' = [inbox EXCEPT ![d] = m]

-----------------------------------------------------------------------------
(* Messages of msg_send(): nothing asynchronous or notified changes *)

Park(s, d, b) ==
  /\ parked[s] = None
  /\ parked' = [parked EXCEPT ![s] = [to |-> d, msg |-> Msg(s, b)]]
  /\ UNCHANGED inbox

\* posted and handed over in one step
Pass(s, d, b) == Fill(d, Msg(s, b)) /\ UNCHANGED parked

Collect(s, d) ==
  /\ parked[s].to = d
  /\ Fill(d, parked[s].msg)
  /\ parked' = [parked EXCEPT ![s] = None]

Read(d) ==
  /\ inbox[d] # NoMsg
  /\ inbox' = [inbox EXCEPT ![d] = NoMsg]
  /\ UNCHANGED parked

Synchronous ==
  /\ UNCHANGED <<log, bell, raised>>
  /\ \/ \E d \in Procs : Read(d)
     \/ \E s, d \in Procs : \/ Collect(s, d)
                            \/ \E b \in Bodies \cup {"FAULT"} : Park(s, d, b) \/ Pass(s, d, b)

-----------------------------------------------------------------------------
(* Notifications: nothing parked or asynchronous changes *)

\* what is left of the interrupts of d when it is told of s
Told(s, d) == IF s = INTERRUPT THEN [raised EXCEPT ![d] = {}] ELSE raised

Ring(s, d, i) ==
  /\ i # {} => s = INTERRUPT
  /\ \/ /\ bell' = [bell EXCEPT ![d] = @ \cup {s}]
        /\ raised' = [raised EXCEPT ![d] = @ \cup i]
        /\ UNCHANGED inbox
     \/ /\ Fill(d, NotifyMsg(s, raised[d] \cup i))
        /\ raised' = Told(s, d)
        /\ UNCHANGED bell

Answer(s, d) ==
  /\ s \in bell[d]
  /\ Fill(d, NotifyMsg(s, raised[d]))
  /\ bell' = [bell EXCEPT ![d] = @ \ {s}]
  /\ raised' = Told(s, d)

\* a send-and-receive whose first half is handed over at once and whose second
\* half finds a notification from the same partner
Exchange(s, d, b) ==
  /\ inbox[d] = NoMsg /\ inbox[s] = NoMsg
  /\ d \in bell[s]
  /\ inbox' = [inbox EXCEPT ![d] = Msg(s, b), ![s] = NotifyMsg(d, {})]
  /\ bell' = [bell EXCEPT ![s] = @ \ {d}]
  /\ UNCHANGED raised

Notification ==
  /\ UNCHANGED <<parked, log>>
  /\ \/ \E s \in Sources, d \in Procs : \/ \E i \in SUBSET Ints : Ring(s, d, i)
                                        \/ Answer(s, d)
     \/ \E s, d \in Procs, b \in Bodies : Exchange(s, d, b)

-----------------------------------------------------------------------------
(* Messages of msg_senda(): nothing parked or notified changes *)

AsyncPost(s, d, b) ==
  \/ /\ log' = [log EXCEPT ![s][d] = Append(@, Msg(s, b))]
     /\ UNCHANGED inbox
  \/ log[s][d] = <<>> /\ Fill(d, Msg(s, b)) /\ UNCHANGED log

AsyncCollect(s, d) ==
  /\ log[s][d] # <<>>
  /\ Fill(d, Head(log[s][d]))
  /\ log' = [log EXCEPT ![s][d] = Tail(@)]

Asynchronous ==
  /\ UNCHANGED <<parked, bell, raised>>
  /\ \E s, d \in Procs : AsyncCollect(s, d) \/ \E b \in Bodies : AsyncPost(s, d, b)

Next == Synchronous \/ Notification \/ Asynchronous

Spec == Init /\ [][Next]_svars
=============================================================================
