---------------------------- MODULE KernelIPCSlots ----------------------------
(***************************************************************************)
(* Theorems about KernelIPC: what each process holds in its deliver_msg    *)
(* slot, its interrupt bits and its async_pending bits.                    *)
(***************************************************************************)
EXTENDS KernelIPCProofs

-----------------------------------------------------------------------------
(* The deliver_msg slot *)

Receiving(p) == "RECEIVING" \in pst[p]
Holding(p) == "DELIVER_MSG" \in pf[p]

\* The slot is empty unless PF_DELIVER_MSG is set, and PF_DELIVER_MSG is never
\* set on a process blocked in a receive.
SlotInv == \A p \in Procs : /\ Receiving(p) => ~Holding(p)
                            /\ ~Holding(p) => deliver_msg[p] = NoMsg

\* what a step can do to the slot of q: nothing, fill it, let q wait for it to
\* be filled, or empty it
SlotKeep(q) == /\ Receiving(q)' <=> Receiving(q)
               /\ Holding(q)' <=> Holding(q)
               /\ deliver_msg'[q] = deliver_msg[q]
SlotFill(q) == ~Receiving(q)' /\ Holding(q)'
SlotWait(q) == ~Holding(q) /\ ~Holding(q)' /\ deliver_msg'[q] = deliver_msg[q]
SlotRead(q) == ~Receiving(q)' /\ ~Holding(q)' /\ deliver_msg'[q] = NoMsg
SlotNext(q) == SlotKeep(q) \/ SlotFill(q) \/ SlotWait(q) \/ SlotRead(q)

\* Every step does one of these to each slot.
LEMMA SlotStep == TypeOK /\ [Next]_vars => \A q \in Procs : SlotNext(q)
<1> SUFFICES ASSUME TypeOK, [Next]_vars, NEW q \in Procs
             PROVE  SlotNext(q)
  OBVIOUS
<1> USE FieldValues DEF Receiving, Holding
<1>k. ASSUME UNCHANGED <<pf, deliver_msg>>, Receiving(q)' <=> Receiving(q)
      PROVE  SlotNext(q)
  BY <1>k DEF SlotNext, SlotKeep
<1>h. ASSUME NEW d \in Procs, NEW m, HandOver(d, m)
      PROVE  SlotNext(q)
  <2>1. CASE q = d
    BY <1>h, <2>1 DEF HandOver, Handed, TypeOK, SlotNext, SlotFill
  <2>2. CASE q # d
    BY <1>h, <2>2 DEF HandOver, TypeOK, SlotNext, SlotKeep
  <2> QED
    BY <2>1, <2>2
<1>b. ASSUME NEW p \in Procs, NEW d \in Procs, NEW m, NEW S, InUser(p),
             SendBlock(p, d, m, S)
      PROVE  SlotNext(q)
  <2>1. CASE q = p
    BY <1>b, <2>1 DEF SendBlock, InUser, SlotNext, SlotWait
  <2>2. CASE q # p
    BY <1>b, <2>2 DEF SendBlock, TypeOK, SlotNext, SlotKeep
  <2> QED
    BY <2>1, <2>2
<1>c. ASSUME NEW p \in Procs, NEW d \in Procs, SendFault(p, d)
      PROVE  SlotNext(q)
  <2>1. \/ UNCHANGED pst
        \/ pst' = [pst EXCEPT ![p] = @ \cup {"SENDING"}]
    BY <1>c DEF SendFault
  <2>2. CASE UNCHANGED pst
    BY <1>c, <1>k, <2>2 DEF SendFault
  <2>3. CASE pst' = [pst EXCEPT ![p] = @ \cup {"SENDING"}]
    <3>1. Receiving(q)' <=> Receiving(q)
      BY <2>3 DEF TypeOK
    <3> QED
      BY <1>c, <1>k, <3>1 DEF SendFault
  <2> QED
    BY <2>1, <2>2, <2>3
<1>d. ASSUME NEW p \in Procs, NEW e, Refuse(p, e)
      PROVE  SlotNext(q)
  BY <1>d, <1>k DEF Refuse
<1>e. ASSUME NEW p \in Procs, NEW d \in Procs, NEW m, SendDirect(p, d, m)
      PROVE  SlotNext(q)
  BY <1>e, <1>h DEF SendDirect
<1>1. ASSUME NEW p \in Procs, NEW d \in Procs, NEW b \in Bodies, Send(p, d, b)
      PROVE  SlotNext(q)
  BY <1>1, <1>b, <1>c, <1>d, <1>e DEF Send
<1>2. ASSUME NEW p \in Procs, NEW d \in Procs, NEW b \in Bodies, SendRec(p, d, b)
      PROVE  SlotNext(q)
  <2>0. p # d /\ ~Holding(p)
    BY <1>2 DEF SendRec, InUser
  <2>1. ASSUME NEW m, NEW n,
               /\ deliver_msg' = [deliver_msg EXCEPT ![d] = m, ![p] = n]
               /\ pf' = [pf EXCEPT ![d] = Handed(@), ![p] = Handed(@)]
               /\ pst' = [pst EXCEPT ![d] = @ \ {"RECEIVING"}],
               pst[p] = {}
        PROVE  SlotNext(q)
    <3>1. CASE q \in {d, p}
      BY <2>0, <2>1, <3>1 DEF Handed, TypeOK, SlotNext, SlotFill
    <3>2. CASE q \notin {d, p}
      BY <2>1, <3>2 DEF TypeOK, SlotNext, SlotKeep
    <3> QED
      BY <3>1, <3>2
  <2>2. ASSUME NEW m,
               /\ deliver_msg' = [deliver_msg EXCEPT ![d] = m]
               /\ pf' = [pf EXCEPT ![d] = Handed(@)]
               /\ pst' = [pst EXCEPT ![d] = @ \ {"RECEIVING"},
                                     ![p] = @ \cup {"RECEIVING"}]
        PROVE  SlotNext(q)
    <3>1. CASE q = d
      BY <2>0, <2>2, <3>1 DEF Handed, TypeOK, SlotNext, SlotFill
    <3>2. CASE q = p
      BY <2>0, <2>2, <3>2 DEF TypeOK, SlotNext, SlotWait
    <3>3. CASE q \notin {d, p}
      BY <2>2, <3>3 DEF TypeOK, SlotNext, SlotKeep
    <3> QED
      BY <3>1, <3>2, <3>3
  <2> QED
    BY <1>2, <1>b, <1>c, <1>d, <2>1, <2>2 DEF SendRec, InUser
<1>3. ASSUME NEW p \in Procs, NEW d \in Procs, NEW b \in Bodies,
             SendNonblock(p, d, b)
      PROVE  SlotNext(q)
  BY <1>3, <1>c, <1>d, <1>e DEF SendNonblock
<1>4. ASSUME NEW p \in Procs, NEW d \in Procs, NEW b \in Bodies,
             SendAsync(p, d, b)
      PROVE  SlotNext(q)
  <2> DEFINE table == [async_table[p] EXCEPT ![d] = Append(@, Msg(p, b))]
  <2>1. PICK ready :
          /\ deliver_msg' = [r \in Procs |-> IF r \in ready THEN Head(table[r])
                                             ELSE deliver_msg[r]]
          /\ pf' = [r \in Procs |-> IF r \in ready THEN Handed(pf[r]) ELSE pf[r]]
          /\ pst' = [r \in Procs |-> IF r \in ready THEN pst[r] \ {"RECEIVING"}
                                     ELSE pst[r]]
    BY <1>4 DEF SendAsync
  <2> HIDE DEF table
  <2>2. CASE q \in ready
    BY <2>1, <2>2 DEF Handed, SlotNext, SlotFill
  <2>3. CASE q \notin ready
    BY <2>1, <2>3 DEF SlotNext, SlotKeep
  <2> QED
    BY <2>2, <2>3
<1>5. ASSUME NEW s, NEW d \in Procs, NEW I, NotifyFrom(s, d, I)
      PROVE  SlotNext(q)
  BY <1>5, <1>h, <1>k DEF NotifyFrom
<1>6. ASSUME NEW p \in Procs, NEW src \in Sources \cup {ANY},
             NEW async \in BOOLEAN, Receive(p, src, async)
      PROVE  SlotNext(q)
  <2>0. pst[p] = {} /\ ~Holding(p)
    BY <1>6 DEF Receive, InUser
  <2>1. ASSUME NEW m, NEW F, "DELIVER_MSG" \in F, UNCHANGED pst,
               deliver_msg' = [deliver_msg EXCEPT ![p] = m],
               pf' = [pf EXCEPT ![p] = F]
        PROVE  SlotNext(q)
    <3>1. CASE q = p
      BY <2>0, <2>1, <3>1 DEF TypeOK, SlotNext, SlotFill
    <3>2. CASE q # p
      BY <2>1, <3>2 DEF TypeOK, SlotNext, SlotKeep
    <3> QED
      BY <3>1, <3>2
  <2>2. CASE ReceiveNotify(p, src)
    <3>1. /\ pf' = [pf EXCEPT ![p] = Handed(pf[p])]
          /\ \E m : deliver_msg' = [deliver_msg EXCEPT ![p] = m]
          /\ UNCHANGED pst
      BY <2>2 DEF ReceiveNotify, TakeNotify
    <3>2. "DELIVER_MSG" \in Handed(pf[p])
      BY DEF Handed
    <3> QED
      BY <2>1, <3>1, <3>2
  <2>3. CASE ReceiveAsyncMsg(p, src)
    <3>1. /\ pf' = [pf EXCEPT ![p] = Handed(pf[p])]
          /\ \E m : deliver_msg' = [deliver_msg EXCEPT ![p] = m]
          /\ UNCHANGED pst
      BY <2>3 DEF ReceiveAsyncMsg
    <3>2. "DELIVER_MSG" \in Handed(pf[p])
      BY DEF Handed
    <3> QED
      BY <2>1, <3>1, <3>2
  <2>4. CASE ReceiveBlock(p, src, async)
    <3>1. CASE q = p
      BY <2>0, <2>4, <3>1 DEF ReceiveBlock, TypeOK, SlotNext, SlotWait
    <3>2. CASE q # p
      BY <2>4, <3>2 DEF ReceiveBlock, TypeOK, SlotNext, SlotKeep
    <3> QED
      BY <3>1, <3>2
  <2>5. ASSUME NEW f \in Procs, ReceiveQueued(p, f)
        PROVE  SlotNext(q)
    <3>1. CASE q = p
      BY <2>0, <2>5, <3>1 DEF ReceiveQueued, TypeOK, SlotNext, SlotFill
    <3>2. CASE q # p
      BY <2>5, <3>2 DEF ReceiveQueued, TypeOK, SlotNext, SlotKeep
    <3> QED
      BY <3>1, <3>2
  <2>6. CASE ReceiveSync(p, src, async)
    BY <2>4, <2>5, <2>6 DEF ReceiveSync
  <2> QED
    BY <1>6, <2>2, <2>3, <2>6 DEF Receive
<1>7. ASSUME NEW p \in Procs, DeliverMsg(p)
      PROVE  SlotNext(q)
  <2>1. CASE q = p
    BY <1>7, <2>1 DEF DeliverMsg, TypeOK, SlotNext, SlotRead
  <2>2. CASE q # p
    BY <1>7, <2>2 DEF DeliverMsg, TypeOK, SlotNext, SlotKeep
  <2> QED
    BY <2>1, <2>2
<1>8. ASSUME NEW p \in Faulters, PageFault(p)
      PROVE  SlotNext(q)
  <2>0. p \in Procs /\ MM \in Procs /\ p # MM
    BY ConstantsAssumption
  <2>1. CASE SendBlock(p, MM, Msg(p, "FAULT"), {"PAGEFAULT"})
    BY <1>8, <1>b, <2>0, <2>1 DEF PageFault
  <2>2. CASE /\ pst' = [pst EXCEPT ![p] = @ \cup {"PAGEFAULT"}]
             /\ UNCHANGED <<pf, deliver_msg>>
    <3>1. Receiving(q)' <=> Receiving(q)
      BY <2>0, <2>2 DEF TypeOK
    <3> QED
      BY <1>k, <2>2, <3>1
  <2>3. CASE /\ deliver_msg' = [deliver_msg EXCEPT ![MM] = Msg(p, "FAULT")]
             /\ pf' = [pf EXCEPT ![MM] = Handed(@)]
             /\ pst' = [pst EXCEPT ![MM] = @ \ {"RECEIVING"},
                                   ![p] = @ \cup {"PAGEFAULT"}]
    <3>1. CASE q = MM
      BY <2>0, <2>3, <3>1 DEF Handed, TypeOK, SlotNext, SlotFill
    <3>2. CASE q # MM
      BY <2>0, <2>3, <3>2 DEF TypeOK, SlotNext, SlotKeep
    <3> QED
      BY <3>1, <3>2
  <2> QED
    BY <1>8, <2>1, <2>2, <2>3 DEF PageFault
<1>9. ASSUME NEW p \in Procs,
             DeliverFault(p) \/ FaultHandled(p) \/ PstSet(p) \/ PstUnset(p)
      PROVE  SlotNext(q)
  <2>1. /\ UNCHANGED deliver_msg
        /\ \E S \in SUBSET PST : /\ "RECEIVING" \in S <=> "RECEIVING" \in pst[p]
                                 /\ pst' = [pst EXCEPT ![p] = S]
        /\ \E F \in SUBSET PF : /\ "DELIVER_MSG" \in F <=> "DELIVER_MSG" \in pf[p]
                                /\ pf' = [pf EXCEPT ![p] = F]
    <3>1. CASE DeliverFault(p)
      BY <3>1 DEF DeliverFault, TypeOK
    <3>2. CASE FaultHandled(p) \/ PstSet(p) \/ PstUnset(p)
      <4>1. pf' = [pf EXCEPT ![p] = pf[p]] /\ UNCHANGED deliver_msg
        BY <3>2 DEF FaultHandled, PstSet, PstUnset, TypeOK
      <4>2. \E S \in SUBSET PST : /\ "RECEIVING" \in S <=> "RECEIVING" \in pst[p]
                                  /\ pst' = [pst EXCEPT ![p] = S]
        BY <3>2 DEF FaultHandled, PstSet, PstUnset, TypeOK
      <4> QED
        BY <4>1, <4>2 DEF TypeOK
    <3> QED
      BY <1>9, <3>1, <3>2
  <2> QED
    BY <2>1 DEF TypeOK, SlotNext, SlotKeep
<1>10. CASE UNCHANGED vars
  BY <1>10, <1>k DEF vars
<1> QED
  <2>1. ASSUME NEW p \in Procs, NEW d \in Procs, Notify(p, d)
        PROVE  SlotNext(q)
    BY <1>5, <2>1 DEF Notify
  <2>2. ASSUME NEW d \in Procs, NEW i \in Ints, Interrupt(d, i)
        PROVE  SlotNext(q)
    BY <1>5, <2>2 DEF Interrupt
  <2> QED
    BY <1>1, <1>2, <1>3, <1>4, <1>6, <1>7, <1>8, <1>9, <1>10, <2>1, <2>2,
       ConstantsAssumption DEF Next

LEMMA SlotInvariant == Spec => []SlotInv
<1>1. Init => SlotInv
  BY DEF Init, SlotInv, Receiving, Holding
<1>2. SlotInv /\ (\A q \in Procs : SlotNext(q)) => SlotInv'
  BY DEF SlotInv, SlotNext, SlotKeep, SlotFill, SlotWait, SlotRead, Receiving,
         Holding
<1>3. TypeOK /\ SlotInv /\ [Next]_vars => SlotInv'
  BY <1>2, SlotStep
<1> QED
  BY <1>1, <1>3, TypeCorrect, PTL DEF Spec

\* No message handed to a process is overwritten before deliver_msg() copies
\* it out: whoever is blocked in a receive has an empty slot.  The assertion in
\* msg_send() holds, and so would its like in msg_notify() and msg_senda().
THEOREM SlotsSafe == Spec => []NoOverwrite
<1>1. SlotInv => NoOverwrite
  BY DEF SlotInv, NoOverwrite, Receiving, Holding
<1> QED
  BY <1>1, SlotInvariant, PTL

-----------------------------------------------------------------------------
(* Interrupts *)

\* what a step can do to the interrupts of q: leave them and their
\* notification, report them, or set the notification
IntNext(q) == \/ /\ int_pending'[q] = int_pending[q]
                 /\ INTERRUPT \in notify_pending[q] => INTERRUPT \in notify_pending'[q]
              \/ int_pending'[q] = {}
              \/ INTERRUPT \in notify_pending'[q]

LEMMA IntStep == TypeOK /\ [Next]_vars => \A q \in Procs : IntNext(q)
<1> SUFFICES ASSUME TypeOK, [Next]_vars, NEW q \in Procs
             PROVE  IntNext(q)
  OBVIOUS
<1>k. CASE UNCHANGED <<int_pending, notify_pending>>
  BY <1>k DEF IntNext
<1>n. ASSUME NEW p \in Procs, NEW s \in Procs,
             notify_pending' = [notify_pending EXCEPT ![p] = @ \ {s}],
             UNCHANGED int_pending
      PROVE  IntNext(q)
  <2>1. s # INTERRUPT
    BY TypesAssumption DEF Procs, INTERRUPT
  <2> QED
    BY <1>n, <2>1 DEF TypeOK, IntNext
<1>t. ASSUME NEW p \in Procs, NEW s \in Sources, TakeNotify(p, s)
      PROVE  IntNext(q)
  <2>1. CASE s = INTERRUPT
    BY <1>t, <2>1 DEF TakeNotify, TypeOK, IntNext
  <2>2. CASE s # INTERRUPT
    BY <1>t, <2>2 DEF TakeNotify, TypeOK, IntNext
  <2> QED
    BY <2>1, <2>2
<1>1. ASSUME NEW p \in Procs, NEW d \in Procs, Notify(p, d)
      PROVE  IntNext(q)
  <2>0. p # INTERRUPT
    BY TypesAssumption DEF Procs, INTERRUPT
  <2>1. int_pending' = [int_pending EXCEPT ![d] = int_pending[d]]
    BY <1>1, <2>0 DEF Notify, NotifyFrom
  <2>2. \/ UNCHANGED notify_pending
        \/ notify_pending' = [notify_pending EXCEPT ![d] = @ \cup {p}]
    BY <1>1 DEF Notify, NotifyFrom
  <2> QED
    BY <2>1, <2>2 DEF TypeOK, IntNext
<1>2. ASSUME NEW d \in Procs, NEW i \in Ints, Interrupt(d, i)
      PROVE  IntNext(q)
  <2>1. CASE Waiting(d, INTERRUPT)
    BY <1>2, <2>1 DEF Interrupt, NotifyFrom, TypeOK, IntNext
  <2>2. CASE ~Waiting(d, INTERRUPT)
    BY <1>2, <2>2 DEF Interrupt, NotifyFrom, TypeOK, IntNext
  <2> QED
    BY <2>1, <2>2
<1>3. ASSUME NEW p \in Procs, NEW src, NEW async, Receive(p, src, async)
      PROVE  IntNext(q)
  BY <1>3, <1>k, <1>t DEF Receive, ReceiveNotify, ReceiveAsyncMsg, ReceiveSync
<1>4. ASSUME NEW p \in Procs, NEW d \in Procs, NEW b, SendRec(p, d, b)
      PROVE  IntNext(q)
  BY <1>4, <1>k, <1>n DEF SendRec, Refuse, SendBlock, SendFault
<1>5. ASSUME NEW p \in Procs, NEW d \in Procs, NEW b,
             Send(p, d, b) \/ SendNonblock(p, d, b) \/ SendAsync(p, d, b)
      PROVE  IntNext(q)
  BY <1>5, <1>k
     DEF Send, SendNonblock, SendAsync, Refuse, SendDirect, SendBlock, SendFault
<1>6. ASSUME NEW p, DeliverMsg(p) \/ DeliverFault(p) \/ PageFault(p)
                    \/ FaultHandled(p) \/ PstSet(p) \/ PstUnset(p)
      PROVE  IntNext(q)
  BY <1>6, <1>k DEF DeliverMsg, DeliverFault, PageFault, SendBlock, FaultHandled,
                    PstSet, PstUnset
<1>7. CASE UNCHANGED vars
  BY <1>7, <1>k DEF vars
<1> QED
  BY <1>1, <1>2, <1>3, <1>4, <1>5, <1>6, <1>7, ConstantsAssumption DEF Next

\* An interrupt that generic_irq_handler() recorded keeps its notification
\* until set_notify_msg() reports it: no driver is left with an interrupt it
\* will not be told of.
THEOREM InterruptsAnnounced == Spec => []InterruptAnnounced
<1>1. Init => InterruptAnnounced
  BY DEF Init, InterruptAnnounced
<1>2. TypeOK /\ InterruptAnnounced /\ [Next]_vars => InterruptAnnounced'
  BY IntStep DEF InterruptAnnounced, IntNext
<1> QED
  BY <1>1, <1>2, TypeCorrect, PTL DEF Spec

-----------------------------------------------------------------------------
(* Async messages *)

LEMMA AsyncStep == TypeOK /\ AsyncMarked /\ [Next]_vars => AsyncMarked'
<1> SUFFICES ASSUME TypeOK, AsyncMarked, [Next]_vars
             PROVE  AsyncMarked'
  OBVIOUS
<1>k. CASE UNCHANGED <<async_table, async_pending>>
  BY <1>k DEF AsyncMarked
<1>1. ASSUME NEW p \in Procs, NEW src, NEW s \in Procs, NEW C,
             async_table[s][p] # <<>>,
             async_table' = [async_table EXCEPT ![s][p] = Tail(@)],
             async_pending' = [async_pending EXCEPT ![p] = @ \ Finished(C)]
      PROVE  AsyncMarked'
  <2> SUFFICES ASSUME NEW t \in Procs, NEW r \in Procs, async_table'[t][r] # <<>>
               PROVE  t \in async_pending'[r]
    BY DEF AsyncMarked
  <2>1. async_table[t][r] # <<>>
    BY <1>1 DEF TypeOK
  <2>2. t \in async_pending[r] /\ t \notin Finished(C)
    BY <2>1 DEF AsyncMarked, Finished
  <2> QED
    BY <1>1, <2>2 DEF TypeOK
<1>2. ASSUME NEW p \in Procs, NEW C, UNCHANGED async_table,
             async_pending' = [async_pending EXCEPT ![p] = @ \ Finished(C)]
      PROVE  AsyncMarked'
  BY <1>2 DEF TypeOK, AsyncMarked, Finished
<1>3. ASSUME NEW p \in Procs, NEW src, NEW async, Receive(p, src, async)
      PROVE  AsyncMarked'
  <2>1. CASE ReceiveNotify(p, src)
    BY <1>k, <2>1 DEF ReceiveNotify, ipcVars
  <2>2. CASE ReceiveAsyncMsg(p, src)
    <3> DEFINE C == AsyncCandidates(p, src, TRUE)
    <3>1. PICK s \in {x \in C : async_table[x][p] # <<>>} :
            /\ async_table' = [async_table EXCEPT ![s][p] = Tail(@)]
            /\ async_pending' = [async_pending EXCEPT
                                   ![p] = @ \ Finished({t \in C : t < s})]
      BY <2>2 DEF ReceiveAsyncMsg
    <3>2. s \in Procs
      BY <3>1 DEF AsyncCandidates, TypeOK
    <3> QED
      BY <1>1, <3>1, <3>2
  <2>3. CASE ReceiveSync(p, src, async)
    BY <1>2, <2>3 DEF ReceiveSync
  <2> QED
    BY <1>3, <2>1, <2>2, <2>3 DEF Receive
<1>4. ASSUME NEW p \in Procs, NEW d \in Procs, NEW b, SendAsync(p, d, b)
      PROVE  AsyncMarked'
  <2>1. PICK left :
          /\ async_table' = [async_table EXCEPT ![p] = left]
          /\ async_pending' = Marked(p, left)
    BY <1>4 DEF SendAsync
  <2>2. \A t, r \in Procs : async_table'[t][r] # <<>> => t \in async_pending'[r]
    BY <2>1 DEF TypeOK, AsyncMarked, Marked
  <2> QED
    BY <2>2 DEF AsyncMarked
<1>5. ASSUME NEW p \in Procs, NEW d \in Procs, NEW b,
             Send(p, d, b) \/ SendNonblock(p, d, b) \/ SendRec(p, d, b)
      PROVE  AsyncMarked'
  BY <1>5, <1>k DEF Send, SendNonblock, SendRec, Refuse, SendDirect, SendBlock,
                    SendFault, ipcVars
<1>6. ASSUME NEW p, DeliverMsg(p) \/ DeliverFault(p) \/ PageFault(p)
                    \/ FaultHandled(p) \/ PstSet(p) \/ PstUnset(p)
      PROVE  AsyncMarked'
  BY <1>6, <1>k DEF DeliverMsg, DeliverFault, PageFault, SendBlock, FaultHandled,
                    PstSet, PstUnset, ipcVars
<1>7. ASSUME NEW s, NEW d, NEW i, Notify(s, d) \/ Interrupt(d, i)
      PROVE  AsyncMarked'
  BY <1>7, <1>k DEF Notify, Interrupt, ipcVars
<1>8. CASE UNCHANGED vars
  BY <1>8, <1>k DEF vars
<1> QED
  BY <1>3, <1>4, <1>5, <1>6, <1>7, <1>8, ConstantsAssumption DEF Next

\* receive_async_from() clears a sender's bit only when its table has nothing
\* left, so an async message that was not delivered stays marked at its
\* receiver, for any number of senders and entries.
THEOREM AsyncNeverForgotten == Spec => []AsyncMarked
<1>1. Init => AsyncMarked
  BY DEF Init, AsyncMarked
<1> QED
  BY <1>1, AsyncStep, TypeCorrect, PTL DEF Spec
=============================================================================
