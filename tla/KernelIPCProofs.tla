--------------------------- MODULE KernelIPCProofs ---------------------------
(***************************************************************************)
(* Theorems about KernelIPC, for any number of processes and any choice of *)
(* the sets of senders, notifiers and unreliable buffers.                  *)
(***************************************************************************)
EXTENDS KernelIPC, SequenceTheorems, TLAPS

-----------------------------------------------------------------------------
(* Taking a process out of a sending queue *)

\* Unqueue(), the unlinking in msg_receive(), gives a queue of the same kind.
LEMMA UnqueueType ==
  ASSUME NEW S, NEW q \in Seq(S), NEW f
  PROVE  Unqueue(q, f) \in Seq(S)
<1>1. CASE ~ \E i \in 1 .. Len(q) : q[i] = f
  BY <1>1 DEF Unqueue
<1>2. CASE \E i \in 1 .. Len(q) : q[i] = f
  <2> DEFINE k == CHOOSE i \in 1 .. Len(q) : q[i] = f
             r == [i \in 1 .. Len(q) - 1 |-> IF i < k THEN q[i] ELSE q[i + 1]]
  <2>1. k \in 1 .. Len(q)
    BY <1>2
  <2>2. Unqueue(q, f) = r
    BY <1>2 DEF Unqueue
  <2> HIDE DEF k
  <2>3. Len(q) \in Nat /\ \A i \in 1 .. Len(q) : q[i] \in S
    BY LenProperties, ElementOfSeq
  <2>4. Len(q) - 1 \in Nat /\ r \in [1 .. Len(q) - 1 -> S]
    BY <2>1, <2>3
  <2>5. r \in Seq(S)
    BY <2>4, IsASeq
  <2> QED
    BY <2>2, <2>5
<1> QED
  BY <1>1, <1>2

\* In a queue without repetitions Unqueue() removes f and nothing else, and
\* the queue stays without repetitions.
LEMMA UnqueueElements ==
  ASSUME NEW S, NEW q \in Seq(S), NEW f,
         \A i, j \in 1 .. Len(q) : q[i] = q[j] => i = j
  PROVE  LET r == Unqueue(q, f) IN
         /\ \A i \in 1 .. Len(r) : \E j \in 1 .. Len(q) : r[i] = q[j]
         /\ \A i \in 1 .. Len(r) : r[i] # f
         /\ \A i, j \in 1 .. Len(r) : r[i] = r[j] => i = j
         /\ \A j \in 1 .. Len(q) : q[j] # f => \E i \in 1 .. Len(r) : r[i] = q[j]
<1> DEFINE r == Unqueue(q, f)
<1>1. CASE ~ \E i \in 1 .. Len(q) : q[i] = f
  BY <1>1 DEF Unqueue
<1>2. CASE \E i \in 1 .. Len(q) : q[i] = f
  <2> DEFINE k == CHOOSE i \in 1 .. Len(q) : q[i] = f
             m == Len(q) - 1
             g == [i \in 1 .. m |-> IF i < k THEN q[i] ELSE q[i + 1]]
  <2>1. k \in 1 .. Len(q) /\ q[k] = f
    BY <1>2
  <2>2. r = g
    BY <1>2 DEF Unqueue
  <2> HIDE DEF k
  <2>3. Len(q) \in Nat
    BY LenProperties
  <2>4. m \in Nat
    BY <2>1, <2>3
  <2> HIDE DEF m
  <2>5. r \in Seq(S)
    BY UnqueueType
  <2>6. DOMAIN r = 1 .. m /\ Len(r) \in Nat /\ DOMAIN r = 1 .. Len(r)
    BY <2>2, <2>5, LenProperties
  <2>7. Len(r) = m
    BY <2>4, <2>6
  <2>8. \A i \in 1 .. m : r[i] = IF i < k THEN q[i] ELSE q[i + 1]
    BY <2>2
  <2> HIDE DEF r
  <2>9. Len(q) = m + 1
    BY <2>3 DEF m
  <2>10. \A i \in 1 .. m : r[i] # f
    BY <2>1, <2>4, <2>8, <2>9
  <2>11. \A i \in 1 .. m : \E j \in 1 .. Len(q) : r[i] = q[j]
    BY <2>1, <2>4, <2>8, <2>9
  <2>12. \A i, j \in 1 .. m : r[i] = r[j] => i = j
    BY <2>1, <2>4, <2>8, <2>9
  <2>13. ASSUME NEW j \in 1 .. Len(q), q[j] # f
         PROVE  \E i \in 1 .. m : r[i] = q[j]
    <3>1. CASE j < k
      <4>1. j \in 1 .. m /\ r[j] = q[j]
        BY <2>1, <2>4, <2>8, <2>9, <3>1
      <4> QED
        BY <4>1
    <3>2. CASE j > k
      <4>1. j - 1 \in 1 .. m /\ r[j - 1] = q[j]
        BY <2>1, <2>4, <2>8, <2>9, <3>2
      <4> QED
        BY <4>1
    <3>3. j # k
      BY <2>1, <2>13
    <3> QED
      BY <2>1, <2>3, <3>1, <3>2, <3>3
  <2> QED
    BY <2>7, <2>10, <2>11, <2>12, <2>13 DEF r
<1> QED
  BY <1>1, <1>2

-----------------------------------------------------------------------------
(* Types *)

\* The messages the kernel builds are messages.
LEMMA MessageTypes ==
  /\ \A s \in Procs, b \in Bodies \cup {"FAULT"} : Msg(s, b) \in Message
  /\ NoMsg \in Message
  /\ \A s \in Sources, I \in SUBSET Ints : NotifyMsg(s, I) \in Message
BY DEF Msg, NoMsg, NotifyMsg, Message, Procs, Sources, NO_TASK, INTERRUPT

\* The constants that the steps assign to the fields are of the fields' types.
LEMMA FieldValues ==
  /\ {"SENDING", "RECEIVING", "PAGEFAULT", "INHIBIT"} \subseteq PST
  /\ {"DELIVER_MSG", "RECV_ASYNC", "MSG_FAILED"} \subseteq PF
  /\ {"OK", "EDEADLK", "EBUSY", "EFAULT", "ESRCH"} \subseteq Errors
  /\ MM \in Procs /\ Procs \subseteq Sources /\ INTERRUPT \in Sources
BY ConstantsAssumption, TypesAssumption
   DEF PST, PF, Errors, Procs, Sources, INTERRUPT

\* Every step of the kernel keeps the fields of struct proc and struct priv in
\* their types.
LEMMA TypeStep == TypeOK /\ [Next]_vars => TypeOK'
<1> SUFFICES ASSUME TypeOK, [Next]_vars
             PROVE  TypeOK'
  OBVIOUS
<1> USE FieldValues, MessageTypes
<1> USE DEF TypeOK, ipcVars
<1>a. ASSUME NEW p \in Procs, NEW d \in Procs, NEW m \in Message,
             SendDirect(p, d, m)
      PROVE  TypeOK'
  BY <1>a DEF SendDirect, Return, HandOver, Handed
<1>b. ASSUME NEW p \in Procs, NEW d \in Procs, NEW m \in Message,
             NEW S \in SUBSET PST, SendBlock(p, d, m, S),
             recvfrom' \in [Procs -> Sources \cup {ANY, NO_TASK}],
             retval' \in [Procs -> Errors]
      PROVE  TypeOK'
  <2>1. q_sending' \in [Procs -> Seq(Procs)]
    <3>1. Append(q_sending[d], p) \in Seq(Procs)
      BY AppendProperties
    <3> QED
      BY <1>b, <3>1 DEF SendBlock
  <2>2. /\ pst' \in [Procs -> SUBSET PST]
        /\ sendto' \in [Procs -> Procs \cup {NO_TASK}]
        /\ send_msg' \in [Procs -> Message]
    BY <1>b DEF SendBlock
  <2> QED
    BY <1>b, <2>1, <2>2 DEF SendBlock
<1>c. ASSUME NEW p \in Procs, NEW d \in Procs, SendFault(p, d)
      PROVE  TypeOK'
  <2>1. CASE UNCHANGED <<pst, sendto>>
    BY <1>c, <2>1 DEF SendFault, Return
  <2>2. CASE /\ pst' = [pst EXCEPT ![p] = @ \cup {"SENDING"}]
             /\ sendto' = [sendto EXCEPT ![p] = d]
    BY <1>c, <2>2 DEF SendFault, Return
  <2> QED
    BY <1>c, <2>1, <2>2 DEF SendFault
<1>d. ASSUME NEW p \in Procs, NEW e \in Errors, Refuse(p, e)
      PROVE  TypeOK'
  BY <1>d DEF Refuse, Return
<1>e. \A p \in Procs, e \in Errors : Return(p, e) => retval' \in [Procs -> Errors]
  BY DEF Return
<1>g. ASSUME NEW p \in Procs, NEW d \in Procs, NEW b \in Bodies \cup {"FAULT"},
             NEW S \in SUBSET PST, SendBlock(p, d, Msg(p, b), S),
             retval' \in [Procs -> Errors],
             recvfrom' = recvfrom \/ recvfrom' = [recvfrom EXCEPT ![p] = d]
      PROVE  TypeOK'
  <2>1. recvfrom' \in [Procs -> Sources \cup {ANY, NO_TASK}]
    BY <1>g
  <2>2. Msg(p, b) \in Message
    OBVIOUS
  <2> QED
    BY <1>b, <1>g, <2>1, <2>2
<1> HIDE DEF TypeOK
<1>1. ASSUME NEW p \in Procs, NEW d \in Procs, NEW b \in Bodies, Send(p, d, b)
      PROVE  TypeOK'
  <2>1. CASE SendBlock(p, d, Msg(p, b), {}) /\ Return(p, "OK") /\ UNCHANGED recvfrom
    BY <1>e, <1>g, <2>1
  <2> QED
    BY <1>1, <1>a, <1>c, <1>d, <2>1 DEF Send
<1>2. ASSUME NEW p \in Procs, NEW d \in Procs, NEW b \in Bodies,
             SendRec(p, d, b)
      PROVE  TypeOK'
  <2>1. CASE /\ SendBlock(p, d, Msg(p, b), {"RECEIVING"})
             /\ recvfrom' = [recvfrom EXCEPT ![p] = d]
             /\ Return(p, "OK")
    BY <1>e, <1>g, <2>1
  <2>2. CASE /\ deliver_msg' = [deliver_msg EXCEPT ![d] = Msg(p, b),
                                                  ![p] = NotifyMsg(d, {})]
             /\ notify_pending' = [notify_pending EXCEPT ![p] = @ \ {d}]
             /\ pf' = [pf EXCEPT ![d] = Handed(@), ![p] = Handed(@)]
             /\ pst' = [pst EXCEPT ![d] = @ \ {"RECEIVING"}]
             /\ Return(p, "OK")
             /\ UNCHANGED <<ipcVars, int_pending, faults>>
    BY <1>e, <2>2 DEF Handed, TypeOK
  <2>3. CASE /\ deliver_msg' = [deliver_msg EXCEPT ![d] = Msg(p, b)]
             /\ pf' = [pf EXCEPT ![d] = Handed(@)]
             /\ pst' = [pst EXCEPT ![d] = @ \ {"RECEIVING"},
                                   ![p] = @ \cup {"RECEIVING"}]
             /\ recvfrom' = [recvfrom EXCEPT ![p] = d]
             /\ Return(p, "OK")
             /\ UNCHANGED <<sendto, q_sending, send_msg, async_pending,
                            async_table, notify_pending, int_pending, faults>>
    BY <1>e, <2>3 DEF Handed, TypeOK
  <2> QED
    BY <1>2, <1>c, <1>d, <2>1, <2>2, <2>3 DEF SendRec
<1>3. ASSUME NEW p \in Procs, NEW d \in Procs, NEW b \in Bodies,
             SendNonblock(p, d, b)
      PROVE  TypeOK'
  BY <1>3, <1>a, <1>c, <1>d DEF SendNonblock
<1>4. ASSUME NEW p \in Procs, NEW d \in Procs, NEW b \in Bodies,
             SendAsync(p, d, b)
      PROVE  TypeOK'
  <2> DEFINE table == [async_table[p] EXCEPT ![d] = Append(@, Msg(p, b))]
             ready == {r \in Procs \ {p} : /\ table[r] # <<>>
                                           /\ Waiting(r, p)
                                           /\ "RECV_ASYNC" \in pf[r]}
             left == [r \in Procs |-> IF r \in ready THEN Tail(table[r])
                                      ELSE table[r]]
  <2>1. table \in [Procs -> Seq(Message)]
    BY DEF TypeOK
  <2>2. \A r \in ready : r \in Procs /\ table[r] # <<>>
    OBVIOUS
  <2> HIDE DEF table, ready
  <2>3. left \in [Procs -> Seq(Message)]
    BY <2>1, <2>2, HeadTailProperties
  <2>4. \A r \in ready : Head(table[r]) \in Message
    BY <2>1, <2>2
  <2> HIDE DEF left
  <2>5. /\ deliver_msg' = [r \in Procs |-> IF r \in ready THEN Head(table[r])
                                           ELSE deliver_msg[r]]
        /\ pf' = [r \in Procs |-> IF r \in ready THEN Handed(pf[r]) ELSE pf[r]]
        /\ pst' = [r \in Procs |-> IF r \in ready THEN pst[r] \ {"RECEIVING"}
                                   ELSE pst[r]]
        /\ async_table' = [async_table EXCEPT ![p] = left]
        /\ async_pending' = [r \in Procs |-> IF left[r] # <<>>
                                             THEN async_pending[r] \cup {p}
                                             ELSE async_pending[r]]
        /\ Return(p, "OK")
        /\ UNCHANGED <<sendto, recvfrom, q_sending, send_msg, notify_pending,
                       int_pending, faults>>
    BY <1>4 DEF SendAsync, left, Marked, ready, table
  <2>6. /\ deliver_msg' \in [Procs -> Message]
        /\ async_table' \in [Procs -> [Procs -> Seq(Message)]]
    BY <2>3, <2>4, <2>5 DEF TypeOK
  <2>7. pf' \in [Procs -> SUBSET PF] /\ pst' \in [Procs -> SUBSET PST]
    BY <2>5 DEF Handed, TypeOK
  <2>8. async_pending' \in [Procs -> SUBSET Procs]
    BY <2>5 DEF TypeOK
  <2> QED
    BY <1>e, <2>5, <2>6, <2>7, <2>8 DEF TypeOK
<1>f. ASSUME NEW s \in Sources, NEW d \in Procs, NEW I \in SUBSET Ints,
             NotifyFrom(s, d, I), UNCHANGED <<ipcVars, faults>>,
             retval' \in [Procs -> Errors]
      PROVE  TypeOK'
  <2>1. UNCHANGED <<sendto, recvfrom, q_sending, send_msg, async_pending,
                    async_table, faults>>
    BY <1>f
  <2>2. CASE Waiting(d, s)
    <3>1. /\ HandOver(d, NotifyMsg(s, I))
          /\ \E J \in SUBSET Ints : int_pending' = [int_pending EXCEPT ![d] = J]
          /\ UNCHANGED notify_pending
      BY <1>f, <2>2 DEF NotifyFrom
    <3> QED
      BY <1>f, <2>1, <3>1 DEF HandOver, Handed, TypeOK
  <2>3. CASE ~Waiting(d, s)
    <3>1. /\ notify_pending' = [notify_pending EXCEPT ![d] = @ \cup {s}]
          /\ int_pending' = [int_pending EXCEPT ![d] = I]
          /\ UNCHANGED <<pst, pf, deliver_msg>>
      BY <1>f, <2>3 DEF NotifyFrom
    <3> QED
      BY <1>f, <2>1, <3>1 DEF TypeOK
  <2> QED
    BY <2>2, <2>3
<1>5. ASSUME NEW p \in Procs, NEW d \in Procs, Notify(p, d)
      PROVE  TypeOK'
  <2>1. int_pending[d] \in SUBSET Ints
    BY DEF TypeOK
  <2>2. retval' \in [Procs -> Errors]
    BY <1>5, <1>e DEF Notify
  <2> QED
    BY <1>5, <1>f, <2>1, <2>2 DEF Notify
<1>6. ASSUME NEW d \in Procs, NEW i \in Ints, Interrupt(d, i)
      PROVE  TypeOK'
  <2>1. int_pending[d] \cup {i} \in SUBSET Ints
    BY DEF TypeOK
  <2>2. retval' \in [Procs -> Errors]
    BY <1>6 DEF Interrupt, TypeOK
  <2> QED
    BY <1>6, <1>f, <2>1, <2>2 DEF Interrupt
<1>7. ASSUME NEW p \in Procs, NEW src \in Sources \cup {ANY},
             NEW async \in BOOLEAN, Receive(p, src, async)
      PROVE  TypeOK'
  <2>1. CASE ReceiveNotify(p, src)
    BY <2>1 DEF ReceiveNotify, TakeNotify, Return, Handed, TypeOK
  <2>2. CASE ReceiveAsyncMsg(p, src)
    <3>1. PICK s \in AsyncCandidates(p, src, TRUE) :
            /\ async_table[s][p] # <<>>
            /\ deliver_msg' = [deliver_msg EXCEPT ![p] = Head(async_table[s][p])]
            /\ async_table' = [async_table EXCEPT ![s][p] = Tail(@)]
            /\ \E S : async_pending' = [async_pending EXCEPT ![p] = @ \ S]
            /\ pf' = [pf EXCEPT ![p] = Handed(@)]
            /\ Return(p, "OK")
            /\ UNCHANGED <<pst, sendto, recvfrom, q_sending, send_msg,
                           notify_pending, int_pending, faults>>
      BY <2>2 DEF ReceiveAsyncMsg
    <3>2. s \in Procs
      BY DEF AsyncCandidates, TypeOK
    <3>3. /\ Head(async_table[s][p]) \in Message
          /\ Tail(async_table[s][p]) \in Seq(Message)
      BY <3>1, <3>2, HeadTailProperties DEF TypeOK
    <3>4. async_table' \in [Procs -> [Procs -> Seq(Message)]]
      BY <3>1, <3>2, <3>3 DEF TypeOK
    <3>5. deliver_msg' \in [Procs -> Message] /\ pf' \in [Procs -> SUBSET PF]
      BY <3>1, <3>3 DEF TypeOK, Handed
    <3>6. async_pending' \in [Procs -> SUBSET Procs]
      BY <3>1 DEF TypeOK
    <3> QED
      BY <1>e, <3>1, <3>4, <3>5, <3>6 DEF TypeOK
  <2>3. CASE ReceiveSync(p, src, async)
    <3>1. retval' \in [Procs -> Errors] /\ async_pending' \in [Procs -> SUBSET Procs]
      BY <2>3 DEF ReceiveSync, Return, ScanResult, TypeOK
    <3>2. ASSUME NEW f \in Procs, ReceiveQueued(p, f)
          PROVE  /\ pst' \in [Procs -> SUBSET PST]
                 /\ pf' \in [Procs -> SUBSET PF]
                 /\ sendto' \in [Procs -> Procs \cup {NO_TASK}]
                 /\ recvfrom' = recvfrom
                 /\ q_sending' \in [Procs -> Seq(Procs)]
                 /\ send_msg' \in [Procs -> Message]
                 /\ deliver_msg' \in [Procs -> Message]
      BY <3>2, UnqueueType DEF ReceiveQueued, TypeOK
    <3>3. CASE ReceiveBlock(p, src, async)
      BY <2>3, <3>1, <3>3 DEF ReceiveSync, ReceiveBlock, TypeOK
    <3> QED
      BY <2>3, <3>1, <3>2, <3>3 DEF ReceiveSync, TypeOK
  <2> QED
    BY <1>7, <2>1, <2>2, <2>3 DEF Receive
<1>8. ASSUME NEW p \in Procs, DeliverMsg(p)
      PROVE  TypeOK'
  <2>1. faults' \subseteq Sources \cup {NO_TASK}
    <3>1. CASE p = MM /\ deliver_msg[p].body = "FAULT"
      BY <1>8, <3>1 DEF DeliverMsg, TypeOK, Message
    <3>2. CASE ~(p = MM /\ deliver_msg[p].body = "FAULT")
      BY <1>8, <3>2 DEF DeliverMsg, TypeOK
    <3> QED
      BY <3>1, <3>2
  <2> QED
    BY <1>8, <2>1 DEF DeliverMsg, TypeOK
<1>9. ASSUME NEW p \in Procs, DeliverFault(p)
      PROVE  TypeOK'
  BY <1>9 DEF DeliverFault, TypeOK
<1>10. ASSUME NEW p \in Procs, PageFault(p)
       PROVE  TypeOK'
  <2>1. CASE /\ pst' = [pst EXCEPT ![p] = @ \cup {"PAGEFAULT"}]
             /\ UNCHANGED <<pf, ipcVars, deliver_msg, notify_pending,
                            int_pending, faults, retval>>
    BY <2>1 DEF TypeOK
  <2>2. CASE /\ deliver_msg' = [deliver_msg EXCEPT ![MM] = Msg(p, "FAULT")]
             /\ pf' = [pf EXCEPT ![MM] = Handed(@)]
             /\ pst' = [pst EXCEPT ![MM] = @ \ {"RECEIVING"},
                                   ![p] = @ \cup {"PAGEFAULT"}]
             /\ UNCHANGED <<ipcVars, notify_pending, int_pending, faults, retval>>
    BY <2>2 DEF Handed, TypeOK
  <2>3. CASE /\ SendBlock(p, MM, Msg(p, "FAULT"), {"PAGEFAULT"})
             /\ UNCHANGED <<recvfrom, retval>>
    <3>1. retval' \in [Procs -> Errors]
      BY <2>3 DEF TypeOK
    <3> QED
      BY <1>g, <2>3, <3>1
  <2> QED
    BY <1>10, <2>1, <2>2, <2>3 DEF PageFault
<1>11. ASSUME NEW p \in Procs, FaultHandled(p)
       PROVE  TypeOK'
  BY <1>11 DEF FaultHandled, TypeOK
<1>12. ASSUME NEW p \in Procs, PstSet(p)
       PROVE  TypeOK'
  BY <1>12 DEF PstSet, TypeOK
<1>13. ASSUME NEW p \in Procs, PstUnset(p)
       PROVE  TypeOK'
  BY <1>13 DEF PstUnset, TypeOK
<1>14. CASE UNCHANGED vars
  BY <1>14 DEF vars, TypeOK
<1> QED
  BY <1>1, <1>2, <1>3, <1>4, <1>5, <1>6, <1>7, <1>8, <1>9, <1>10, <1>11, <1>12,
     <1>13, <1>14, ConstantsAssumption DEF Next

\* Type correctness of the process and privilege tables.
THEOREM TypeCorrect == Spec => []TypeOK
<1>1. Init => TypeOK
  BY ConstantsAssumption, TypesAssumption, MessageTypes
     DEF Init, TypeOK, PST, PF, Errors
<1> QED
  BY <1>1, TypeStep, PTL DEF Spec

-----------------------------------------------------------------------------
(* What a step does to the graph of blocked senders and to their queues *)

GraphSame == /\ \A q \in Procs : Sending(q)' <=> Sending(q)
             /\ UNCHANGED <<sendto, q_sending>>

\* p starts to send to d, after deadlock() found no chain back to it
NewEdge(p, d) == /\ p # d /\ ~Sending(p) /\ ~deadlock(p, d)
                 /\ \A q \in Procs : Sending(q)' <=> Sending(q) \/ q = p
                 /\ sendto' = [sendto EXCEPT ![p] = d]

GraphBlock(p, d) ==
  NewEdge(p, d) /\ q_sending' = [q_sending EXCEPT ![d] = Append(@, p)]

GraphFault(p, d) == p \in BadSend /\ NewEdge(p, d) /\ UNCHANGED q_sending

\* p takes the message of f
GraphTake(p, f) ==
  /\ \/ q_sending[p] # <<>> /\ f = Head(q_sending[p])
     \/ Sending(f) /\ sendto[f] = p
  /\ \A q \in Procs : Sending(q)' <=> Sending(q) /\ q # f
  /\ sendto' = [sendto EXCEPT ![f] = NO_TASK]
  /\ q_sending' = [q_sending EXCEPT ![p] = Unqueue(@, f)]

GraphNext == \/ GraphSame
             \/ \E p, d \in Procs : \/ GraphBlock(p, d)
                                    \/ GraphFault(p, d)
                                    \/ GraphTake(p, d)

\* Every step of the kernel leaves the graph alone, adds one edge that
\* deadlock() allowed, or removes one edge.
LEMMA GraphStep == TypeOK /\ [Next]_vars => GraphNext
<1> SUFFICES ASSUME TypeOK, [Next]_vars
             PROVE  GraphNext
  OBVIOUS
<1> USE FieldValues
<1>a. ASSUME NEW p \in Procs, NEW d \in Procs, NEW m, SendDirect(p, d, m)
      PROVE  GraphNext
  BY <1>a DEF SendDirect, HandOver, ipcVars, TypeOK, Sending, GraphNext, GraphSame
<1>b. ASSUME NEW p \in Procs, NEW d \in Procs, NEW m, NEW S,
             "SENDING" \notin S, InUser(p), p # d, SendBlock(p, d, m, S)
      PROVE  GraphNext
  <2>1. GraphBlock(p, d)
    BY <1>b DEF SendBlock, InUser, TypeOK, Sending, GraphBlock, NewEdge
  <2> QED
    BY <2>1 DEF GraphNext
<1>c. ASSUME NEW p \in Procs, NEW d \in Procs, InUser(p), p # d, SendFault(p, d)
      PROVE  GraphNext
  <2>1. CASE Waiting(d, p)
    BY <1>c, <2>1 DEF SendFault, Sending, GraphNext, GraphSame
  <2>2. CASE ~Waiting(d, p)
    <3>1. GraphFault(p, d)
      <4>1. /\ pst' = [pst EXCEPT ![p] = @ \cup {"SENDING"}]
            /\ sendto' = [sendto EXCEPT ![p] = d]
            /\ p \in BadSend /\ ~deadlock(p, d) /\ UNCHANGED q_sending
        BY <1>c, <2>2 DEF SendFault
      <4> QED
        BY <1>c, <4>1 DEF InUser, TypeOK, Sending, GraphFault, NewEdge
    <3> QED
      BY <3>1 DEF GraphNext
  <2> QED
    BY <2>1, <2>2
<1>d. ASSUME NEW p \in Procs, NEW e, Refuse(p, e)
      PROVE  GraphNext
  BY <1>d DEF Refuse, ipcVars, Sending, GraphNext, GraphSame
<1>1. ASSUME NEW p \in Procs, NEW d \in Procs, NEW b \in Bodies, Send(p, d, b)
      PROVE  GraphNext
  <2>1. CASE SendBlock(p, d, Msg(p, b), {})
    BY <1>1, <1>b, <2>1 DEF Send
  <2> QED
    BY <1>1, <1>a, <1>c, <1>d, <2>1 DEF Send
<1>2. ASSUME NEW p \in Procs, NEW d \in Procs, NEW b \in Bodies, SendRec(p, d, b)
      PROVE  GraphNext
  <2>1. CASE SendBlock(p, d, Msg(p, b), {"RECEIVING"})
    BY <1>2, <1>b, <2>1 DEF SendRec
  <2>2. CASE /\ pst' = [pst EXCEPT ![d] = @ \ {"RECEIVING"}]
             /\ UNCHANGED ipcVars
    BY <2>2 DEF ipcVars, TypeOK, Sending, GraphNext, GraphSame
  <2>3. CASE /\ pst' = [pst EXCEPT ![d] = @ \ {"RECEIVING"},
                                   ![p] = @ \cup {"RECEIVING"}]
             /\ UNCHANGED <<sendto, q_sending>>
    BY <2>3 DEF TypeOK, Sending, GraphNext, GraphSame
  <2> QED
    BY <1>2, <1>c, <1>d, <2>1, <2>2, <2>3 DEF SendRec
<1>3. ASSUME NEW p \in Procs, NEW d \in Procs, NEW b \in Bodies,
             SendNonblock(p, d, b)
      PROVE  GraphNext
  BY <1>3, <1>a, <1>c, <1>d DEF SendNonblock
<1>4. ASSUME NEW p \in Procs, NEW d \in Procs, NEW b \in Bodies,
             SendAsync(p, d, b)
      PROVE  GraphNext
  <2>1. \E ready : pst' = [r \in Procs |-> IF r \in ready
                                           THEN pst[r] \ {"RECEIVING"}
                                           ELSE pst[r]]
    BY <1>4 DEF SendAsync
  <2> QED
    BY <1>4, <2>1 DEF SendAsync, TypeOK, Sending, GraphNext, GraphSame
<1>5. ASSUME NEW s, NEW d \in Procs, NEW I, NotifyFrom(s, d, I), UNCHANGED ipcVars
      PROVE  GraphNext
  <2>1. \/ UNCHANGED pst
        \/ pst' = [pst EXCEPT ![d] = @ \ {"RECEIVING"}]
    BY <1>5 DEF NotifyFrom, HandOver
  <2> QED
    BY <1>5, <2>1 DEF ipcVars, TypeOK, Sending, GraphNext, GraphSame
<1>6. ASSUME NEW p \in Procs, NEW src \in Sources \cup {ANY},
             NEW async \in BOOLEAN, Receive(p, src, async)
      PROVE  GraphNext
  <2>1. CASE UNCHANGED <<pst, sendto, q_sending>>
    BY <2>1 DEF Sending, GraphNext, GraphSame
  <2>2. CASE ReceiveSync(p, src, async)
    <3>1. CASE ReceiveBlock(p, src, async)
      BY <3>1 DEF ReceiveBlock, TypeOK, Sending, GraphNext, GraphSame
    <3>2. ASSUME NEW f \in Procs, Chosen(p, src, f), ReceiveQueued(p, f)
          PROVE  GraphNext
      <4>1. GraphTake(p, f)
        BY <3>2 DEF Chosen, ReceiveQueued, TypeOK, Sending, GraphTake
      <4> QED
        BY <4>1 DEF GraphNext
    <3> QED
      BY <2>2, <3>1, <3>2 DEF ReceiveSync
  <2>3. ReceiveNotify(p, src) \/ ReceiveAsyncMsg(p, src)
        => UNCHANGED <<pst, sendto, q_sending>>
    BY DEF ReceiveNotify, ReceiveAsyncMsg, ipcVars
  <2> QED
    BY <1>6, <2>1, <2>2, <2>3 DEF Receive
<1>7. ASSUME NEW p \in Procs, DeliverMsg(p)
      PROVE  GraphNext
  BY <1>7 DEF DeliverMsg, Sending, GraphNext, GraphSame
<1>8. ASSUME NEW p \in Faulters, PageFault(p)
      PROVE  GraphNext
  <2>0. p \in Procs /\ p # MM
    BY ConstantsAssumption
  <2>1. CASE SendBlock(p, MM, Msg(p, "FAULT"), {"PAGEFAULT"}) /\ p # MM
    BY <1>8, <1>b, <2>0, <2>1 DEF PageFault
  <2>2. CASE /\ UNCHANGED ipcVars
             /\ pst' = [pst EXCEPT ![p] = @ \cup {"PAGEFAULT"}]
    BY <2>0, <2>2 DEF ipcVars, TypeOK, Sending, GraphNext, GraphSame
  <2>3. CASE /\ UNCHANGED ipcVars
             /\ pst' = [pst EXCEPT ![MM] = @ \ {"RECEIVING"},
                                   ![p] = @ \cup {"PAGEFAULT"}]
    BY <2>0, <2>3 DEF ipcVars, TypeOK, Sending, GraphNext, GraphSame
  <2> QED
    BY <1>8, <2>0, <2>1, <2>2, <2>3 DEF PageFault, ipcVars
<1>9. ASSUME NEW p \in Procs,
             DeliverFault(p) \/ FaultHandled(p) \/ PstSet(p) \/ PstUnset(p)
      PROVE  GraphNext
  <2>1. /\ UNCHANGED ipcVars
        /\ \E S \in SUBSET PST : /\ "SENDING" \in S <=> "SENDING" \in pst[p]
                                 /\ pst' = [pst EXCEPT ![p] = S]
    BY <1>9 DEF DeliverFault, FaultHandled, PstSet, PstUnset, TypeOK
  <2> QED
    BY <2>1 DEF ipcVars, TypeOK, Sending, GraphNext, GraphSame
<1>10. CASE UNCHANGED vars
  BY <1>10 DEF vars, Sending, GraphNext, GraphSame
<1> QED
  <2>1. ASSUME NEW p \in Procs, NEW d \in Procs, Notify(p, d)
        PROVE  GraphNext
    BY <1>5, <2>1 DEF Notify, ipcVars
  <2>2. ASSUME NEW d \in Procs, NEW i \in Ints, Interrupt(d, i)
        PROVE  GraphNext
    BY <1>5, <2>2 DEF Interrupt, ipcVars
  <2> QED
    BY <1>1, <1>2, <1>3, <1>4, <1>6, <1>7, <1>8, <1>9, <1>10, <2>1, <2>2,
       ConstantsAssumption DEF Next

-----------------------------------------------------------------------------
(* deadlock() keeps the graph acyclic *)

\* A step that only removes edges closes no cycle.
LEMMA FewerEdges ==
  ASSUME NoSendCycle,
         \A q \in Procs : Sending(q)' => Sending(q) /\ sendto'[q] = sendto[q]
  PROVE  NoSendCycle'
<1> SUFFICES ASSUME NEW S \in SUBSET Procs, S # {}
             PROVE  \E p \in S : Sending(p)' => sendto'[p] \notin S
  BY DEF NoSendCycle
<1>1. PICK p \in S : Sending(p) => sendto[p] \notin S
  BY DEF NoSendCycle
<1> QED
  BY <1>1

\* An edge that deadlock() allowed closes no cycle: the processes its walk met
\* are closed under sending and do not contain the new sender, so a cycle
\* through the new edge would hold an old one.
LEMMA SafeEdge ==
  ASSUME TypeOK, NoSendCycle, NEW p \in Procs, NEW d \in Procs, NewEdge(p, d)
  PROVE  NoSendCycle'
<1> SUFFICES ASSUME NEW S \in SUBSET Procs, S # {},
                    \A q \in S : Sending(q)' /\ sendto'[q] \in S
             PROVE  FALSE
  BY DEF NoSendCycle
<1>1. \A q \in Procs \ {p} : Sending(q)' => Sending(q) /\ sendto'[q] = sendto[q]
  BY DEF NewEdge, TypeOK
<1>2. CASE p \notin S
  <2>1. \A q \in S : Sending(q) /\ sendto[q] \in S
    BY <1>1, <1>2
  <2> QED
    BY <2>1 DEF NoSendCycle
<1>3. CASE p \in S
  <2>1. d \in S
    BY <1>3 DEF NewEdge, TypeOK
  <2>2. PICK W \in SUBSET Procs : d \in W /\ ClosedUnderSending(W) /\ p \notin W
    BY DEF NewEdge, deadlock
  <2>3. S \cap W \in SUBSET Procs /\ S \cap W # {}
    BY <2>1, <2>2
  <2>4. \A q \in S \cap W : Sending(q) /\ sendto[q] \in S \cap W
    BY <1>1, <2>2 DEF ClosedUnderSending
  <2> QED
    BY <2>3, <2>4 DEF NoSendCycle
<1> QED
  BY <1>2, <1>3

LEMMA CycleStep == TypeOK /\ NoSendCycle /\ GraphNext => NoSendCycle'
<1> SUFFICES ASSUME TypeOK, NoSendCycle, GraphNext
             PROVE  NoSendCycle'
  OBVIOUS
<1>1. CASE GraphSame
  <2>1. \A q \in Procs : Sending(q)' => Sending(q) /\ sendto'[q] = sendto[q]
    BY <1>1 DEF GraphSame
  <2> QED
    BY <2>1, FewerEdges
<1>2. ASSUME NEW p \in Procs, NEW f \in Procs, GraphTake(p, f)
      PROVE  NoSendCycle'
  <2>1. \A q \in Procs : Sending(q)' => Sending(q) /\ sendto'[q] = sendto[q]
    BY <1>2 DEF GraphTake, TypeOK
  <2> QED
    BY <2>1, FewerEdges
<1> QED
  BY <1>1, <1>2, SafeEdge DEF GraphNext, GraphBlock, GraphFault

\* No set of processes is ever blocked in msg_send() only on each other: the
\* check of deadlock() before each send is enough, for any number of processes.
THEOREM SendGraphAcyclic == Spec => []NoSendCycle
<1>1. Init => NoSendCycle
  BY DEF Init, NoSendCycle, Sending
<1>2. TypeOK /\ NoSendCycle /\ [Next]_vars => NoSendCycle'
  BY GraphStep, CycleStep
<1> QED
  BY <1>1, <1>2, TypeCorrect, PTL DEF Spec

-----------------------------------------------------------------------------
(* The sending queues hold exactly the blocked senders *)

QueueInv == QueueSound /\ GoodSenderIsQueued

LEMMA QueueStep == TypeOK /\ QueueInv /\ GraphNext => QueueInv'
<1> SUFFICES ASSUME TypeOK, QueueInv, GraphNext
             PROVE  QueueInv'
  OBVIOUS
<1> USE DEF QueueInv, Sending
<1>0. \A d \in Procs : /\ q_sending[d] \in Seq(Procs)
                       /\ Len(q_sending[d]) \in Nat
                       /\ \A i \in 1 .. Len(q_sending[d]) : q_sending[d][i] \in Procs
  BY LenProperties, ElementOfSeq DEF TypeOK
<1>1. CASE GraphSame
  BY <1>0, <1>1 DEF GraphSame, QueueSound, GoodSenderIsQueued, Queued
<1>2. ASSUME NEW p \in Procs, NEW d \in Procs, NewEdge(p, d)
      PROVE  \A c \in Procs : \A i \in 1 .. Len(q_sending[c]) :
               /\ q_sending[c][i] # p
               /\ "SENDING" \in pst'[q_sending[c][i]]
               /\ sendto'[q_sending[c][i]] = c
  <2> SUFFICES ASSUME NEW c \in Procs, NEW i \in 1 .. Len(q_sending[c])
               PROVE  /\ q_sending[c][i] # p
                      /\ "SENDING" \in pst'[q_sending[c][i]]
                      /\ sendto'[q_sending[c][i]] = c
    OBVIOUS
  <2> DEFINE x == q_sending[c][i]
  <2>1. x \in Procs /\ "SENDING" \in pst[x] /\ sendto[x] = c
    BY <1>0 DEF QueueSound
  <2> HIDE DEF x
  <2>2. x # p /\ "SENDING" \in pst'[x] /\ sendto'[x] = c
    BY <1>2, <2>1 DEF NewEdge, TypeOK
  <2> QED
    BY <2>2 DEF x
<1>3. ASSUME NEW p \in Procs, NEW d \in Procs, GraphBlock(p, d)
      PROVE  QueueInv'
  <2> DEFINE q == q_sending[d]
             r == Append(q, p)
  <2>1. /\ r \in Seq(Procs) /\ Len(r) = Len(q) + 1 /\ r[Len(q) + 1] = p
        /\ \A i \in 1 .. Len(q) : r[i] = q[i]
    BY <1>0, AppendProperties
  <2>2. q_sending'[d] = r /\ \A c \in Procs \ {d} : q_sending'[c] = q_sending[c]
    BY <1>3 DEF GraphBlock, TypeOK
  <2>3. /\ "SENDING" \in pst'[p] /\ sendto'[p] = d
        /\ \A c \in Procs \ {p} : /\ "SENDING" \in pst'[c] <=> Sending(c)
                                  /\ sendto'[c] = sendto[c]
    BY <1>3 DEF GraphBlock, NewEdge, TypeOK
  <2>4. \A c \in Procs : \A i \in 1 .. Len(q_sending[c]) :
          /\ q_sending[c][i] # p
          /\ "SENDING" \in pst'[q_sending[c][i]]
          /\ sendto'[q_sending[c][i]] = c
    BY <1>2, <1>3 DEF GraphBlock
  <2>5. ASSUME NEW c \in Procs
        PROVE  /\ \A i \in 1 .. Len(q_sending'[c]) :
                    "SENDING" \in pst'[q_sending'[c][i]] /\ sendto'[q_sending'[c][i]] = c
               /\ \A i, j \in 1 .. Len(q_sending'[c]) :
                    q_sending'[c][i] = q_sending'[c][j] => i = j
    <3>1. CASE c # d
      BY <2>2, <2>4, <3>1 DEF QueueSound
    <3>2. CASE c = d
      <4> HIDE DEF r
      <4>1. \A i \in 1 .. Len(r) : i \in 1 .. Len(q) \/ i = Len(q) + 1
        BY <1>0, <2>1
      <4>2. \A i \in 1 .. Len(r) : "SENDING" \in pst'[r[i]] /\ sendto'[r[i]] = d
        BY <2>1, <2>3, <2>4, <4>1
      <4>3. \A i, j \in 1 .. Len(r) : r[i] = r[j] => i = j
        <5>0. \A i, j \in 1 .. Len(q) : q[i] = q[j] => i = j
          BY DEF QueueSound
        <5>1. \A i, j \in 1 .. Len(q) : r[i] = r[j] => i = j
          <6> HIDE DEF q
          <6> QED
            BY <2>1, <5>0
        <5>2. \A i \in 1 .. Len(q) : r[i] # p
          BY <2>1, <2>4
        <5> QED
          BY <2>1, <4>1, <5>1, <5>2
      <4> QED
        BY <2>2, <3>2, <4>2, <4>3
    <3> QED
      BY <3>1, <3>2
  <2>6. ASSUME NEW c \in Procs \ BadSend, "SENDING" \in pst'[c]
        PROVE  sendto'[c] \in Procs /\ \E i \in 1 .. Len(q_sending'[sendto'[c]]) :
                                          q_sending'[sendto'[c]][i] = c
    <3>1. CASE c = p
      <4>1. Len(q) + 1 \in 1 .. Len(r)
        BY <1>0, <2>1
      <4> QED
        BY <2>1, <2>2, <2>3, <3>1, <4>1
    <3>2. CASE c # p
      <4>1. /\ sendto[c] \in Procs /\ sendto'[c] = sendto[c]
            /\ \E i \in 1 .. Len(q_sending[sendto[c]]) : q_sending[sendto[c]][i] = c
        BY <2>3, <2>6, <3>2 DEF GoodSenderIsQueued, Queued
      <4>2. \A i \in 1 .. Len(q) : i \in 1 .. Len(r)
        BY <1>0, <2>1
      <4> QED
        BY <2>1, <2>2, <4>1, <4>2
    <3> QED
      BY <3>1, <3>2
  <2> QED
    BY <2>5, <2>6 DEF QueueSound, GoodSenderIsQueued, Queued
<1>4. ASSUME NEW p \in Procs, NEW d \in Procs, GraphFault(p, d)
      PROVE  QueueInv'
  <2>1. QueueSound'
    BY <1>2, <1>4 DEF GraphFault, QueueSound
  <2>2. GoodSenderIsQueued'
    BY <1>4 DEF GraphFault, NewEdge, GoodSenderIsQueued, Queued, TypeOK
  <2> QED
    BY <2>1, <2>2
<1>5. ASSUME NEW p \in Procs, NEW f \in Procs, GraphTake(p, f)
      PROVE  QueueInv'
  <2> DEFINE q == q_sending[p]
             r == Unqueue(q, f)
  <2>1. /\ \A i \in 1 .. Len(r) : \E j \in 1 .. Len(q) : r[i] = q[j]
        /\ \A i \in 1 .. Len(r) : r[i] # f
        /\ \A i, j \in 1 .. Len(r) : r[i] = r[j] => i = j
        /\ \A j \in 1 .. Len(q) : q[j] # f => \E i \in 1 .. Len(r) : r[i] = q[j]
    <3>1. \A i, j \in 1 .. Len(q) : q[i] = q[j] => i = j
      BY DEF QueueSound
    <3> QED
      BY <1>0, <3>1, UnqueueElements
  <2> HIDE DEF r
  <2>2. q_sending'[p] = r /\ \A c \in Procs \ {p} : q_sending'[c] = q_sending[c]
    BY <1>5 DEF GraphTake, TypeOK, r
  <2>3. /\ ~"SENDING" \in pst'[f]
        /\ \A c \in Procs \ {f} : /\ "SENDING" \in pst'[c] <=> Sending(c)
                                  /\ sendto'[c] = sendto[c]
    BY <1>5 DEF GraphTake, TypeOK
  <2>4. sendto[f] = p
    <3>1. CASE q # <<>> /\ f = Head(q)
      <4>1. 1 \in 1 .. Len(q) /\ f = q[1]
        BY <1>0, <3>1, HeadTailProperties, LenProperties, EmptySeq
      <4> QED
        BY <4>1 DEF QueueSound
    <3> QED
      BY <1>5, <3>1 DEF GraphTake
  <2>5. ASSUME NEW c \in Procs
        PROVE  /\ \A i \in 1 .. Len(q_sending'[c]) :
                    "SENDING" \in pst'[q_sending'[c][i]] /\ sendto'[q_sending'[c][i]] = c
               /\ \A i, j \in 1 .. Len(q_sending'[c]) :
                    q_sending'[c][i] = q_sending'[c][j] => i = j
    <3>1. CASE c # p
      <4>1. \A i \in 1 .. Len(q_sending[c]) : q_sending[c][i] # f
        BY <2>4, <3>1 DEF QueueSound
      <4>2. \A i \in 1 .. Len(q_sending[c]) :
              "SENDING" \in pst'[q_sending[c][i]] /\ sendto'[q_sending[c][i]] = c
        BY <1>0, <2>3, <4>1 DEF QueueSound
      <4>3. q_sending'[c] = q_sending[c]
        BY <2>2, <3>1
      <4> QED
        BY <4>2, <4>3 DEF QueueSound
    <3>2. CASE c = p
      <4>1. \A j \in 1 .. Len(q) :
              q[j] \in Procs /\ "SENDING" \in pst[q[j]] /\ sendto[q[j]] = p
        BY <1>0 DEF QueueSound
      <4>2. \A x \in Procs : "SENDING" \in pst[x] /\ sendto[x] = p /\ x # f
              => "SENDING" \in pst'[x] /\ sendto'[x] = p
        BY <2>3
      <4>3. \A i \in 1 .. Len(r) : "SENDING" \in pst'[r[i]] /\ sendto'[r[i]] = p
        <5> SUFFICES ASSUME NEW i \in 1 .. Len(r)
                     PROVE  "SENDING" \in pst'[r[i]] /\ sendto'[r[i]] = p
          OBVIOUS
        <5>1. PICK j \in 1 .. Len(q) : r[i] = q[j]
          BY <2>1
        <5> QED
          BY <2>1, <4>1, <4>2, <5>1
      <4> QED
        BY <2>1, <2>2, <3>2, <4>3
    <3> QED
      BY <3>1, <3>2
  <2>6. ASSUME NEW c \in Procs \ BadSend, "SENDING" \in pst'[c]
        PROVE  sendto'[c] \in Procs /\ \E i \in 1 .. Len(q_sending'[sendto'[c]]) :
                                          q_sending'[sendto'[c]][i] = c
    <3>1. c # f
      BY <2>3, <2>6
    <3>2. /\ sendto[c] \in Procs /\ sendto'[c] = sendto[c]
          /\ \E i \in 1 .. Len(q_sending[sendto[c]]) : q_sending[sendto[c]][i] = c
      BY <2>3, <2>6, <3>1 DEF GoodSenderIsQueued, Queued
    <3> QED
      BY <2>1, <2>2, <3>1, <3>2
  <2> QED
    BY <2>5, <2>6 DEF QueueSound, GoodSenderIsQueued, Queued
<1> QED
  BY <1>1, <1>3, <1>4, <1>5 DEF GraphNext

\* Each q_sending lists, once each, processes blocked sending to its owner, and
\* misses none whose message could be read: msg_receive() finds the sender it
\* looks for.
THEOREM QueuesExact == Spec => []QueueExact
<1>1. Init => QueueInv
  BY EmptySeq DEF Init, QueueInv, QueueSound, GoodSenderIsQueued, Sending
<1>2. TypeOK /\ QueueInv /\ [Next]_vars => QueueInv'
  BY GraphStep, QueueStep
<1>3. QueueInv <=> QueueExact
  BY DEF QueueInv, QueueExact
<1> QED
  BY <1>1, <1>2, <1>3, TypeCorrect, PTL DEF Spec
=============================================================================
