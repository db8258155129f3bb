------------------------- MODULE KernelIPCRefinement -------------------------
(***************************************************************************)
(* KernelIPC implements IPCService: every step of the kernel is a step of  *)
(* the service, or changes nothing that the service shows.                 *)
(***************************************************************************)
EXTENDS KernelIPCService, KernelIPCWakeups

-----------------------------------------------------------------------------
(* Steps of the service, in terms of what they do to each process *)

Nothing == [to |-> NO_TASK, msg |-> NoMsg]
ParkedKept(p) == Parked(p)' = Parked(p)
InboxKept(p) == Inbox(p)' = Inbox(p)
Fills(d, m) == /\ Inbox(d) = NoMsg /\ Inbox(d)' = m
               /\ \A p \in Procs \ {d} : InboxKept(p)

\* the service's own copies of the definitions of IPCTypes
LEMMA SameTypes ==
  /\ Service!Procs = Procs /\ Service!Sources = Sources /\ Service!INTERRUPT = INTERRUPT
  /\ Service!NoMsg = NoMsg /\ Service!None = Nothing
  /\ \A s, b : Service!Msg(s, b) = Msg(s, b)
  /\ \A s, I : Service!NotifyMsg(s, I) = NotifyMsg(s, I)
BY DEF Service!Procs, Service!Sources, Service!INTERRUPT, Service!NoMsg, Service!None,
       Service!Msg, Service!NotifyMsg, Service!NO_TASK, Procs, Sources, INTERRUPT, NoMsg,
       Nothing, Msg, NotifyMsg, NO_TASK

LEMMA InboxUpdate ==
  ASSUME NEW d \in Procs, NEW m, Inbox(d)' = m, \A p \in Procs \ {d} : InboxKept(p)
  PROVE  [p \in Procs |-> Inbox(p)]' = [[p \in Procs |-> Inbox(p)] EXCEPT ![d] = m]
BY DEF InboxKept

LEMMA FillStep ==
  ASSUME NEW d \in Procs, NEW m, Fills(d, m)
  PROVE  Service!Fill(d, m)
BY SameTypes DEF Fills, InboxKept, Service!Fill

LEMMA ParkStep ==
  ASSUME NEW s \in Procs, NEW d \in Procs, NEW b \in Bodies \cup {"FAULT"},
         Parked(s) = Nothing, Parked(s)' = [to |-> d, msg |-> Msg(s, b)],
         \A p \in Procs \ {s} : ParkedKept(p),
         \A p \in Procs : InboxKept(p),
         UNCHANGED <<async_table, notify_pending, int_pending>>
  PROVE  Service!Next
<1>1. Service!Park(s, d, b)
  BY SameTypes DEF Service!Park, ParkedKept, InboxKept
<1> QED
  BY <1>1, SameTypes DEF Service!Next, Service!Synchronous

LEMMA PassStep ==
  ASSUME NEW s \in Procs, NEW d \in Procs, NEW b \in Bodies \cup {"FAULT"},
         Fills(d, Msg(s, b)), \A p \in Procs : ParkedKept(p),
         UNCHANGED <<async_table, notify_pending, int_pending>>
  PROVE  Service!Next
<1>1. Service!Pass(s, d, b)
  BY FillStep, SameTypes DEF Service!Pass, ParkedKept
<1> QED
  BY <1>1, SameTypes DEF Service!Next, Service!Synchronous

LEMMA CollectStep ==
  ASSUME NEW s \in Procs, NEW d \in Procs, Parked(s).to = d, Fills(d, Parked(s).msg),
         Parked(s)' = Nothing, \A p \in Procs \ {s} : ParkedKept(p),
         UNCHANGED <<async_table, notify_pending, int_pending>>
  PROVE  Service!Next
<1>1. Service!Fill(d, Parked(s).msg)
  BY FillStep
<1>2. Service!Collect(s, d)
  BY <1>1, SameTypes DEF Service!Collect, ParkedKept
<1> QED
  BY <1>2, SameTypes DEF Service!Next, Service!Synchronous

LEMMA ReadStep ==
  ASSUME NEW d \in Procs, Inbox(d) # NoMsg, Inbox(d)' = NoMsg,
         \A p \in Procs \ {d} : InboxKept(p), \A p \in Procs : ParkedKept(p),
         UNCHANGED <<async_table, notify_pending, int_pending>>
  PROVE  Service!Next
<1>1. [p \in Procs |-> Parked(p)]' = [p \in Procs |-> Parked(p)]
  BY DEF ParkedKept
<1>2. Service!Read(d)
  <2>1. [p \in Procs |-> Inbox(p)]' = [[p \in Procs |-> Inbox(p)] EXCEPT ![d] = NoMsg]
    BY InboxUpdate
  <2> QED
    BY <1>1, <2>1, SameTypes DEF Service!Read
<1> QED
  BY <1>2, SameTypes DEF Service!Next, Service!Synchronous

ToldOf(s, d) == IF s = INTERRUPT THEN [int_pending EXCEPT ![d] = {}] ELSE int_pending

\* a notification that is recorded
LEMMA RingStep ==
  ASSUME NEW s \in Sources, NEW d \in Procs, NEW i \in SUBSET Ints, i # {} => s = INTERRUPT,
         notify_pending' = [notify_pending EXCEPT ![d] = @ \cup {s}],
         int_pending' = [int_pending EXCEPT ![d] = @ \cup i],
         \A p \in Procs : InboxKept(p) /\ ParkedKept(p), UNCHANGED async_table
  PROVE  Service!Next
<1>1. Service!Ring(s, d, i)
  BY SameTypes DEF Service!Ring, InboxKept
<1> QED
  BY <1>1, SameTypes DEF Service!Next, Service!Notification, ParkedKept

\* a notification that is handed over
LEMMA RingFillStep ==
  ASSUME NEW s \in Sources, NEW d \in Procs, NEW i \in SUBSET Ints, i # {} => s = INTERRUPT,
         Fills(d, NotifyMsg(s, int_pending[d] \cup i)), int_pending' = ToldOf(s, d),
         \A p \in Procs : ParkedKept(p), UNCHANGED <<async_table, notify_pending>>
  PROVE  Service!Next
<1>1. Service!Ring(s, d, i)
  BY FillStep, SameTypes DEF Service!Ring, Service!Told, ToldOf
<1> QED
  BY <1>1, SameTypes DEF Service!Next, Service!Notification, ParkedKept

LEMMA AnswerStep ==
  ASSUME NEW s \in Sources, NEW d \in Procs, s \in notify_pending[d],
         Fills(d, NotifyMsg(s, int_pending[d])), int_pending' = ToldOf(s, d),
         notify_pending' = [notify_pending EXCEPT ![d] = @ \ {s}],
         \A p \in Procs : ParkedKept(p), UNCHANGED async_table
  PROVE  Service!Next
<1>1. Service!Answer(s, d)
  BY FillStep, SameTypes DEF Service!Answer, Service!Told, ToldOf
<1> QED
  BY <1>1, SameTypes DEF Service!Next, Service!Notification, ParkedKept

LEMMA ExchangeStep ==
  ASSUME NEW s \in Procs, NEW d \in Procs, s # d, NEW b \in Bodies,
         Inbox(d) = NoMsg, Inbox(s) = NoMsg, d \in notify_pending[s],
         Inbox(d)' = Msg(s, b), Inbox(s)' = NotifyMsg(d, {}),
         \A p \in Procs \ {s, d} : InboxKept(p),
         notify_pending' = [notify_pending EXCEPT ![s] = @ \ {d}],
         \A p \in Procs : ParkedKept(p), UNCHANGED <<async_table, int_pending>>
  PROVE  Service!Next
<1>1. Service!Exchange(s, d, b)
  BY SameTypes DEF Service!Exchange, InboxKept
<1> QED
  BY <1>1, SameTypes DEF Service!Next, Service!Notification, ParkedKept

\* an async message that is recorded
LEMMA AsyncPostStep ==
  ASSUME NEW s \in Procs, NEW d \in Procs, NEW b \in Bodies,
         async_table' = [async_table EXCEPT ![s][d] = Append(@, Msg(s, b))],
         \A p \in Procs : InboxKept(p) /\ ParkedKept(p),
         UNCHANGED <<notify_pending, int_pending>>
  PROVE  Service!Next
<1>1. Service!AsyncPost(s, d, b)
  BY SameTypes DEF Service!AsyncPost, InboxKept
<1> QED
  BY <1>1, SameTypes DEF Service!Next, Service!Asynchronous, ParkedKept

\* an async message that is handed over
LEMMA AsyncPassStep ==
  ASSUME NEW s \in Procs, NEW d \in Procs, NEW b \in Bodies,
         async_table[s][d] = <<>>, Fills(d, Msg(s, b)), \A p \in Procs : ParkedKept(p),
         UNCHANGED <<async_table, notify_pending, int_pending>>
  PROVE  Service!Next
<1>1. Service!AsyncPost(s, d, b)
  BY FillStep, SameTypes DEF Service!AsyncPost
<1> QED
  BY <1>1, SameTypes DEF Service!Next, Service!Asynchronous, ParkedKept

LEMMA AsyncCollectStep ==
  ASSUME NEW s \in Procs, NEW d \in Procs, async_table[s][d] # <<>>,
         Fills(d, Head(async_table[s][d])),
         async_table' = [async_table EXCEPT ![s][d] = Tail(@)],
         \A p \in Procs : ParkedKept(p), UNCHANGED <<notify_pending, int_pending>>
  PROVE  Service!Next
<1>1. Service!AsyncCollect(s, d)
  BY FillStep, SameTypes DEF Service!AsyncCollect
<1> QED
  BY <1>1, SameTypes DEF Service!Next, Service!Asynchronous, ParkedKept

LEMMA Stutter ==
  ASSUME \A p \in Procs : InboxKept(p) /\ ParkedKept(p),
         UNCHANGED <<async_table, notify_pending, int_pending>>
  PROVE  UNCHANGED Service!svars
BY DEF Service!svars, InboxKept, ParkedKept

-----------------------------------------------------------------------------
(* Steps of the kernel *)

\* A message is kept for a process only while it is blocked sending it.
MsgInv == \A p \in Procs : send_msg[p] # NoMsg => Sending(p)

LEMMA SentMsg == \A s \in Procs : \A b : Msg(s, b) # NoMsg
BY TypesAssumption DEF Msg, NoMsg, Procs, NO_TASK

\* A process in user mode has nothing parked and nothing to read, and one
\* blocked in a receive has nothing to read.
LEMMA Free ==
  ASSUME SlotInv, MsgInv, NEW p \in Procs
  PROVE  /\ InUser(p) => send_msg[p] = NoMsg /\ Parked(p) = Nothing /\ Inbox(p) = NoMsg
         /\ Receiving(p) => Inbox(p) = NoMsg
<1>1. InUser(p) => send_msg[p] = NoMsg
  BY DEF InUser, MsgInv, Sending
<1>2. Receiving(p) => "DELIVER_MSG" \notin pf[p]
  BY DEF SlotInv, Holding
<1> QED
  BY <1>1, <1>2 DEF InUser, Parked, Inbox, Nothing

LEMMA ParkedSame ==
  ASSUME MsgInv, UNCHANGED <<sendto, send_msg>>,
         \A p \in Procs : Sending(p) => Sending(p)'
  PROVE  MsgInv' /\ \A p \in Procs : ParkedKept(p)
BY DEF MsgInv, ParkedKept, Parked

LEMMA InboxSame ==
  ASSUME NEW p \in Procs, deliver_msg'[p] = deliver_msg[p], Holding(p)' <=> Holding(p)
  PROVE  InboxKept(p)
BY DEF InboxKept, Inbox, Holding

\* Handing m to a process that has nothing to read
LEMMA Handing ==
  ASSUME TypeOK, NEW d \in Procs, Inbox(d) = NoMsg, NEW m, NEW F, "DELIVER_MSG" \in F,
         deliver_msg' = [deliver_msg EXCEPT ![d] = m], pf' = [pf EXCEPT ![d] = F]
  PROVE  Fills(d, m)
<1>1. Inbox(d)' = m
  BY DEF TypeOK, Inbox
<1>2. \A p \in Procs \ {d} : InboxKept(p)
  BY DEF TypeOK, Inbox, InboxKept
<1> QED
  BY <1>1, <1>2 DEF Fills

Refines == (Service!Next \/ UNCHANGED Service!svars) /\ MsgInv'

LEMMA SendRefines ==
  ASSUME TypeOK, SlotInv, MsgInv, NEW p \in Procs, NEW d \in Procs, InUser(p), p # d
  PROVE  /\ \A e : Refuse(p, e) => Refines
         /\ \A b \in Bodies \cup {"FAULT"} : SendDirect(p, d, Msg(p, b)) => Refines
         /\ \A S : \A b \in Bodies \cup {"FAULT"} : SendBlock(p, d, Msg(p, b), S) => Refines
         /\ SendFault(p, d) => Refines
<1>0. send_msg[p] = NoMsg /\ Parked(p) = Nothing /\ Inbox(p) = NoMsg /\ ~Sending(p)
  BY Free DEF InUser, Sending
<1>1. ASSUME NEW e, Refuse(p, e)
      PROVE  Refines
  <2>1. /\ UNCHANGED <<pst, pf, sendto, send_msg, deliver_msg>>
        /\ UNCHANGED <<async_table, notify_pending, int_pending>>
    BY <1>1 DEF Refuse, ipcVars
  <2>2. MsgInv' /\ \A q \in Procs : ParkedKept(q) /\ InboxKept(q)
    BY <2>1, ParkedSame, InboxSame DEF Sending, Holding
  <2> QED
    BY <2>1, <2>2, Stutter DEF Refines
<1>2. ASSUME NEW b \in Bodies \cup {"FAULT"}, SendDirect(p, d, Msg(p, b))
      PROVE  Refines
  <2>1. /\ deliver_msg' = [deliver_msg EXCEPT ![d] = Msg(p, b)]
        /\ pf' = [pf EXCEPT ![d] = Handed(pf[d])]
        /\ pst' = [pst EXCEPT ![d] = @ \ {"RECEIVING"}]
        /\ Receiving(d)
        /\ UNCHANGED <<sendto, send_msg, async_table, notify_pending, int_pending>>
    BY <1>2 DEF SendDirect, HandOver, Waiting, Receiving, ipcVars
  <2>2. "DELIVER_MSG" \in Handed(pf[d])
    BY DEF Handed
  <2>3. Fills(d, Msg(p, b))
    BY <2>1, <2>2, Handing, Free
  <2>4. \A q \in Procs : Sending(q) => Sending(q)'
    BY <2>1 DEF TypeOK, Sending
  <2> QED
    BY <2>1, <2>3, <2>4, ParkedSame, PassStep DEF Refines
<1>3. ASSUME NEW b \in Bodies \cup {"FAULT"}, NEW S, SendBlock(p, d, Msg(p, b), S)
      PROVE  Refines
  <2>1. /\ pst' = [pst EXCEPT ![p] = @ \cup {"SENDING"} \cup S]
        /\ sendto' = [sendto EXCEPT ![p] = d]
        /\ send_msg' = [send_msg EXCEPT ![p] = Msg(p, b)]
        /\ UNCHANGED <<pf, deliver_msg, async_table, notify_pending, int_pending>>
    BY <1>3 DEF SendBlock
  <2>2. Sending(p)' /\ \A q \in Procs : Sending(q) => Sending(q)'
    BY <2>1 DEF TypeOK, Sending
  <2>3. send_msg'[p] = Msg(p, b) /\ sendto'[p] = d
    BY <2>1 DEF TypeOK
  <2>4. \A q \in Procs \ {p} : send_msg'[q] = send_msg[q] /\ sendto'[q] = sendto[q]
    BY <2>1 DEF TypeOK
  <2>5. MsgInv'
    BY <2>2, <2>3, <2>4 DEF MsgInv
  <2>6. Parked(p)' = [to |-> d, msg |-> Msg(p, b)]
    BY <2>3, SentMsg DEF Parked
  <2>7. \A q \in Procs \ {p} : ParkedKept(q)
    BY <2>4 DEF ParkedKept, Parked
  <2>8. \A q \in Procs : InboxKept(q)
    BY <2>1, InboxSame DEF Holding
  <2> QED
    BY <1>0, <2>1, <2>5, <2>6, <2>7, <2>8, ParkStep DEF Refines
<1>4. ASSUME SendFault(p, d)
      PROVE  Refines
  <2>1. UNCHANGED <<pf, send_msg, deliver_msg, async_table, notify_pending, int_pending>>
    BY <1>4 DEF SendFault
  <2>2. /\ \A q \in Procs : Sending(q) => Sending(q)'
        /\ \A q \in Procs \ {p} : sendto'[q] = sendto[q]
    <3>1. CASE UNCHANGED <<pst, sendto>>
      BY <3>1 DEF Sending
    <3>2. CASE /\ pst' = [pst EXCEPT ![p] = @ \cup {"SENDING"}]
               /\ sendto' = [sendto EXCEPT ![p] = d]
      BY <3>2 DEF TypeOK, Sending
    <3> QED
      BY <1>4, <3>1, <3>2 DEF SendFault
  <2>3. MsgInv' /\ \A q \in Procs : ParkedKept(q) /\ InboxKept(q)
    <3>1. MsgInv'
      BY <2>1, <2>2 DEF MsgInv
    <3>2. \A q \in Procs : ParkedKept(q)
      BY <1>0, <2>1, <2>2 DEF ParkedKept, Parked
    <3> QED
      BY <2>1, <3>1, <3>2, InboxSame DEF Holding
  <2> QED
    BY <2>1, <2>3, Stutter DEF Refines
<1> QED
  BY <1>1, <1>2, <1>3, <1>4

LEMMA SendRecRefines ==
  ASSUME TypeOK, SlotInv, MsgInv, NEW p \in Procs, NEW d \in Procs, NEW b \in Bodies,
         SendRec(p, d, b)
  PROVE  Refines
<1>0. InUser(p) /\ p # d
  BY DEF SendRec
<1>1. pst[p] = {} /\ Inbox(p) = NoMsg /\ (Waiting(d, p) => Inbox(d) = NoMsg)
  BY <1>0, Free DEF InUser, Waiting, Receiving
<1>2. CASE /\ Waiting(d, p) /\ d \in notify_pending[p]
           /\ deliver_msg' = [deliver_msg EXCEPT ![d] = Msg(p, b), ![p] = NotifyMsg(d, {})]
           /\ notify_pending' = [notify_pending EXCEPT ![p] = @ \ {d}]
           /\ pf' = [pf EXCEPT ![d] = Handed(@), ![p] = Handed(@)]
           /\ pst' = [pst EXCEPT ![d] = @ \ {"RECEIVING"}]
           /\ UNCHANGED <<ipcVars, int_pending>>
  <2>1. /\ deliver_msg'[d] = Msg(p, b) /\ deliver_msg'[p] = NotifyMsg(d, {})
        /\ "DELIVER_MSG" \in pf'[d] /\ "DELIVER_MSG" \in pf'[p]
    BY <1>0, <1>2 DEF TypeOK, Handed
  <2>2. \A q \in Procs \ {p, d} : deliver_msg'[q] = deliver_msg[q] /\ pf'[q] = pf[q]
    BY <1>0, <1>2 DEF TypeOK
  <2>3. \A q \in Procs : Sending(q) => Sending(q)'
    BY <1>2 DEF TypeOK, Sending
  <2>4. MsgInv' /\ \A q \in Procs : ParkedKept(q)
    BY <1>2, <2>3, ParkedSame DEF ipcVars
  <2>5. Inbox(d)' = Msg(p, b) /\ Inbox(p)' = NotifyMsg(d, {})
    BY <2>1 DEF Inbox
  <2>6. \A q \in Procs \ {p, d} : InboxKept(q)
    BY <2>2 DEF InboxKept, Inbox
  <2> QED
    BY <1>0, <1>1, <1>2, <2>4, <2>5, <2>6, ExchangeStep DEF Refines, ipcVars
<1>3. CASE /\ Waiting(d, p)
           /\ deliver_msg' = [deliver_msg EXCEPT ![d] = Msg(p, b)]
           /\ pf' = [pf EXCEPT ![d] = Handed(@)]
           /\ pst' = [pst EXCEPT ![d] = @ \ {"RECEIVING"}, ![p] = @ \cup {"RECEIVING"}]
           /\ UNCHANGED <<sendto, send_msg, async_table, notify_pending, int_pending>>
  <2>1. "DELIVER_MSG" \in Handed(pf[d])
    BY DEF Handed
  <2>2. Fills(d, Msg(p, b))
    BY <1>1, <1>3, <2>1, Handing
  <2>3. \A q \in Procs : Sending(q) => Sending(q)'
    BY <1>0, <1>3 DEF TypeOK, Sending
  <2> QED
    BY <1>3, <2>2, <2>3, ParkedSame, PassStep DEF Refines
<1> QED
  BY <1>0, <1>2, <1>3, SendRefines DEF SendRec

LEMMA NotifyRefines ==
  ASSUME TypeOK, SlotInv, MsgInv, NEW s \in Sources, NEW d \in Procs,
         NEW i \in SUBSET Ints, i # {} => s = INTERRUPT,
         NotifyFrom(s, d, int_pending[d] \cup i), UNCHANGED ipcVars
  PROVE  Refines
<1>0. UNCHANGED <<sendto, send_msg, async_table>>
  BY DEF ipcVars
<1>1. CASE Waiting(d, s)
  <2>1. /\ deliver_msg' = [deliver_msg EXCEPT ![d] = NotifyMsg(s, int_pending[d] \cup i)]
        /\ pf' = [pf EXCEPT ![d] = Handed(pf[d])]
        /\ pst' = [pst EXCEPT ![d] = @ \ {"RECEIVING"}]
        /\ int_pending' = [int_pending EXCEPT
                             ![d] = IF s = INTERRUPT THEN {} ELSE int_pending[d] \cup i]
        /\ UNCHANGED notify_pending
    BY <1>1 DEF NotifyFrom, HandOver
  <2>2. "DELIVER_MSG" \in Handed(pf[d]) /\ Inbox(d) = NoMsg
    BY <1>1, Free DEF Handed, Waiting, Receiving
  <2>3. Fills(d, NotifyMsg(s, int_pending[d] \cup i))
    BY <2>1, <2>2, Handing
  <2>4. int_pending' = ToldOf(s, d)
    <3>1. CASE s = INTERRUPT
      BY <2>1, <3>1 DEF ToldOf
    <3>2. CASE s # INTERRUPT
      <4>1. int_pending[d] \cup i = int_pending[d]
        BY <3>2
      <4> QED
        BY <2>1, <3>2, <4>1 DEF ToldOf, TypeOK
    <3> QED
      BY <3>1, <3>2
  <2>5. \A q \in Procs : Sending(q) => Sending(q)'
    BY <2>1 DEF TypeOK, Sending
  <2> QED
    BY <1>0, <2>1, <2>3, <2>4, <2>5, ParkedSame, RingFillStep DEF Refines
<1>2. CASE ~Waiting(d, s)
  <2>1. /\ notify_pending' = [notify_pending EXCEPT ![d] = @ \cup {s}]
        /\ int_pending' = [int_pending EXCEPT ![d] = @ \cup i]
        /\ UNCHANGED <<pst, pf, deliver_msg>>
    BY <1>2 DEF NotifyFrom
  <2>2. MsgInv' /\ \A q \in Procs : InboxKept(q) /\ ParkedKept(q)
    BY <1>0, <2>1, ParkedSame, InboxSame DEF Sending, Holding
  <2> QED
    BY <1>0, <2>1, <2>2, RingStep DEF Refines
<1> QED
  BY <1>1, <1>2

\* msg_senda() hands over at most the entry that was just added: whoever else
\* waits for async messages of p has none in the table.
LEMMA SendAsyncRefines ==
  ASSUME TypeOK, SlotInv, WakeInv, MsgInv, NEW p \in Procs, NEW d \in Procs,
         NEW b \in Bodies, SendAsync(p, d, b)
  PROVE  Refines
<1> DEFINE table == [async_table[p] EXCEPT ![d] = Append(@, Msg(p, b))]
           ready == {r \in Procs \ {p} : /\ table[r] # <<>>
                                         /\ Waiting(r, p)
                                         /\ "RECV_ASYNC" \in pf[r]}
           left == [r \in Procs |-> IF r \in ready THEN Tail(table[r]) ELSE table[r]]
<1>1. /\ deliver_msg' = [r \in Procs |-> IF r \in ready THEN Head(table[r])
                                         ELSE deliver_msg[r]]
      /\ pf' = [r \in Procs |-> IF r \in ready THEN Handed(pf[r]) ELSE pf[r]]
      /\ pst' = [r \in Procs |-> IF r \in ready THEN pst[r] \ {"RECEIVING"} ELSE pst[r]]
      /\ async_table' = [async_table EXCEPT ![p] = left]
      /\ UNCHANGED <<sendto, send_msg, notify_pending, int_pending>>
  BY DEF SendAsync
<1>2. /\ async_table[p] \in [Procs -> Seq(Message)]
      /\ \A r \in Procs \ {d} : table[r] = async_table[p][r]
      /\ table[d] = Append(async_table[p][d], Msg(p, b))
  BY DEF TypeOK
<1>3. \A r \in Procs : Waiting(r, p) /\ "RECV_ASYNC" \in pf[r] => async_table[p][r] = <<>>
  BY DEF WakeInv, NothingFrom, Async
<1>4. \A r \in ready : r = d /\ async_table[p][d] = <<>> /\ Receiving(d)
  BY <1>2, <1>3 DEF Waiting, Receiving
<1>5. left[d] = IF d \in ready THEN Tail(table[d]) ELSE table[d]
  OBVIOUS
<1>6. \A r \in Procs \ {d} : left[r] = async_table[p][r]
  BY <1>2, <1>4
<1>7. DOMAIN left = Procs /\ left = [r \in Procs |-> left[r]]
  OBVIOUS
<1> HIDE DEF ready, left, table
<1>8. \A q \in Procs : Sending(q) => Sending(q)'
  BY <1>1 DEF Sending
<1>9. MsgInv' /\ \A q \in Procs : ParkedKept(q)
  BY <1>1, <1>8, ParkedSame
<1>10. \A q \in Procs \ {d} : InboxKept(q)
  BY <1>1, <1>4, InboxSame DEF Holding
<1>11. CASE d \in ready
  <2>1. table[d] = <<Msg(p, b)>>
    <3>1. table[d] = Append(<<>>, Msg(p, b))
      BY <1>2, <1>4, <1>11
    <3>2. \A m : Append(<<>>, m) = <<m>>
      OBVIOUS
    <3> QED
      BY <3>1, <3>2
  <2>2. Head(table[d]) = Msg(p, b) /\ Tail(table[d]) = <<>>
    BY <2>1
  <2>3. left = async_table[p]
    <3>1. \A r \in Procs : left[r] = async_table[p][r]
      BY <1>4, <1>5, <1>6, <1>11, <2>2
    <3>2. async_table[p] = [r \in Procs |-> async_table[p][r]]
      BY <1>2
    <3> QED
      BY <1>7, <3>1, <3>2
  <2>4. UNCHANGED async_table
    BY <1>1, <2>3 DEF TypeOK
  <2>5. Inbox(d) = NoMsg
    BY <1>4, <1>11, Free
  <2>6. Inbox(d)' = Msg(p, b)
    BY <1>1, <1>11, <2>2 DEF Inbox, Handed
  <2> QED
    BY <1>1, <1>4, <1>9, <1>10, <1>11, <2>4, <2>5, <2>6, AsyncPassStep DEF Refines, Fills
<1>12. CASE d \notin ready
  <2>1. left = [async_table[p] EXCEPT ![d] = Append(@, Msg(p, b))]
    BY <1>2, <1>5, <1>6, <1>7, <1>12
  <2>2. async_table' = [async_table EXCEPT ![p][d] = Append(@, Msg(p, b))]
    BY <1>1, <2>1 DEF TypeOK
  <2>3. InboxKept(d)
    BY <1>1, <1>12, InboxSame DEF Holding
  <2> QED
    BY <1>1, <1>9, <1>10, <2>2, <2>3, AsyncPostStep DEF Refines
<1> QED
  BY <1>11, <1>12

LEMMA ReceiveRefines ==
  ASSUME TypeOK, QueueInv, SlotInv, WakeInv, MsgInv, NEW p \in Procs,
         NEW src \in Sources \cup {ANY}, NEW async \in BOOLEAN, Receive(p, src, async)
  PROVE  Refines
<1>0. InUser(p) /\ Inbox(p) = NoMsg /\ ~Sending(p) /\ ~Holding(p)
  BY Free DEF Receive, InUser, Sending, Holding
<1>f. \A F : "DELIVER_MSG" \in Handed(F)
  BY DEF Handed
<1>1. CASE ReceiveNotify(p, src)
  <2>1. PICK s \in Sources : PendingNotify(p, src, s) /\ TakeNotify(p, s)
    BY <1>1 DEF ReceiveNotify
  <2>2. /\ pf' = [pf EXCEPT ![p] = Handed(pf[p])]
        /\ UNCHANGED <<pst, sendto, send_msg, async_table>>
    BY <1>1 DEF ReceiveNotify, ipcVars
  <2>3. /\ deliver_msg' = [deliver_msg EXCEPT ![p] = NotifyMsg(s, int_pending[p])]
        /\ int_pending' = ToldOf(s, p)
        /\ notify_pending' = [notify_pending EXCEPT ![p] = @ \ {s}]
    BY <2>1 DEF TakeNotify, ToldOf
  <2>4. Fills(p, NotifyMsg(s, int_pending[p]))
    BY <1>0, <1>f, <2>2, <2>3, Handing
  <2>5. s \in notify_pending[p]
    BY <2>1 DEF PendingNotify
  <2>6. MsgInv' /\ \A q \in Procs : ParkedKept(q)
    BY <2>2, ParkedSame DEF Sending
  <2> QED
    BY <2>2, <2>3, <2>4, <2>5, <2>6, AnswerStep DEF Refines
<1>2. CASE ReceiveAsyncMsg(p, src)
  <2>1. PICK s \in AsyncCandidates(p, src, TRUE) :
          /\ async_table[s][p] # <<>>
          /\ deliver_msg' = [deliver_msg EXCEPT ![p] = Head(async_table[s][p])]
          /\ async_table' = [async_table EXCEPT ![s][p] = Tail(@)]
          /\ pf' = [pf EXCEPT ![p] = Handed(pf[p])]
          /\ UNCHANGED <<pst, sendto, send_msg, notify_pending, int_pending>>
    BY <1>2 DEF ReceiveAsyncMsg
  <2>2. s \in Procs
    BY <2>1 DEF AsyncCandidates, TypeOK
  <2>3. Fills(p, Head(async_table[s][p]))
    BY <1>0, <1>f, <2>1, Handing
  <2>4. MsgInv' /\ \A q \in Procs : ParkedKept(q)
    BY <2>1, ParkedSame DEF Sending
  <2> QED
    BY <2>1, <2>2, <2>3, <2>4, AsyncCollectStep DEF Refines
<1>3. ASSUME NEW f \in Procs, Chosen(p, src, f), ReceiveQueued(p, f),
             UNCHANGED <<async_table, notify_pending, int_pending>>
      PROVE  Refines
  <2>1. Sending(f) /\ sendto[f] = p /\ f # p
    BY <1>0, <1>3, ChosenSends
  <2>2. /\ deliver_msg' = [deliver_msg EXCEPT ![p] = send_msg[f]]
        /\ send_msg' = [send_msg EXCEPT ![f] = NoMsg]
        /\ sendto' = [sendto EXCEPT ![f] = NO_TASK]
        /\ pst' = [pst EXCEPT ![f] = @ \ {"SENDING"}]
        /\ pf' = [pf EXCEPT ![p] = pf[p] \cup {"DELIVER_MSG"}]
    BY <1>3 DEF ReceiveQueued
  <2>3. Fills(p, send_msg[f])
    <3>1. "DELIVER_MSG" \in pf[p] \cup {"DELIVER_MSG"}
      OBVIOUS
    <3> QED
      BY <1>0, <2>2, <3>1, Handing
  <2>4. send_msg'[f] = NoMsg
    BY <2>2 DEF TypeOK
  <2>5. \A q \in Procs \ {f} : /\ send_msg'[q] = send_msg[q] /\ sendto'[q] = sendto[q]
                               /\ pst'[q] = pst[q]
    BY <2>2 DEF TypeOK
  <2>6. MsgInv'
    BY <2>4, <2>5 DEF MsgInv, Sending
  <2>7. Parked(f)' = Nothing /\ \A q \in Procs \ {f} : ParkedKept(q)
    BY <2>4, <2>5 DEF Parked, ParkedKept, Nothing
  <2>8. CASE send_msg[f] # NoMsg
    <3>1. Parked(f).to = p /\ Parked(f).msg = send_msg[f]
      BY <2>1, <2>8 DEF Parked
    <3> QED
      BY <1>3, <2>3, <2>6, <2>7, <3>1, CollectStep DEF Refines
  <2>9. CASE send_msg[f] = NoMsg   \* the message could not be read
    <3>1. ParkedKept(f)
      BY <2>7, <2>9 DEF ParkedKept, Parked, Nothing
    <3>2. \A q \in Procs : InboxKept(q)
      BY <2>3, <2>9 DEF Fills, InboxKept
    <3> QED
      BY <1>3, <2>6, <2>7, <3>1, <3>2, Stutter DEF Refines
  <2> QED
    BY <2>8, <2>9
<1>4. ASSUME ReceiveBlock(p, src, async), UNCHANGED <<async_table, notify_pending, int_pending>>
      PROVE  Refines
  <2>1. \A q \in Procs : Sending(q) => Sending(q)'
    BY <1>4 DEF ReceiveBlock, TypeOK, Sending
  <2>2. UNCHANGED <<sendto, send_msg, deliver_msg>>
    BY <1>4 DEF ReceiveBlock
  <2>3. \A q \in Procs : Holding(q)' <=> Holding(q)
    BY <1>4, FieldValues DEF ReceiveBlock, TypeOK, Holding
  <2> QED
    BY <1>4, <2>1, <2>2, <2>3, ParkedSame, InboxSame, Stutter DEF Refines
<1>5. CASE ReceiveSync(p, src, async)
  BY <1>3, <1>4, <1>5 DEF ReceiveSync
<1> QED
  BY <1>1, <1>2, <1>5 DEF Receive

LEMMA PageFaultRefines ==
  ASSUME TypeOK, SlotInv, MsgInv, NEW p \in Faulters, PageFault(p)
  PROVE  Refines
<1>0. p \in Procs /\ MM \in Procs /\ p # MM /\ InUser(p)
  BY ConstantsAssumption DEF PageFault
<1>1. CASE SendBlock(p, MM, Msg(p, "FAULT"), {"PAGEFAULT"})
  BY <1>0, <1>1, SendRefines
<1>2. CASE /\ pst' = [pst EXCEPT ![p] = @ \cup {"PAGEFAULT"}]
           /\ UNCHANGED <<pf, ipcVars, deliver_msg, notify_pending, int_pending>>
  <2>1. \A q \in Procs : Sending(q) => Sending(q)'
    BY <1>0, <1>2 DEF TypeOK, Sending
  <2>2. MsgInv' /\ \A q \in Procs : ParkedKept(q) /\ InboxKept(q)
    BY <1>2, <2>1, ParkedSame, InboxSame DEF ipcVars, Holding
  <2> QED
    BY <1>2, <2>2, Stutter DEF Refines, ipcVars
<1>3. CASE /\ Waiting(MM, p)
           /\ deliver_msg' = [deliver_msg EXCEPT ![MM] = Msg(p, "FAULT")]
           /\ pf' = [pf EXCEPT ![MM] = Handed(@)]
           /\ pst' = [pst EXCEPT ![MM] = @ \ {"RECEIVING"}, ![p] = @ \cup {"PAGEFAULT"}]
           /\ UNCHANGED <<ipcVars, notify_pending, int_pending>>
  <2>1. "DELIVER_MSG" \in Handed(pf[MM]) /\ Inbox(MM) = NoMsg
    BY <1>0, <1>3, Free DEF Handed, Waiting, Receiving
  <2>2. Fills(MM, Msg(p, "FAULT"))
    BY <1>0, <1>3, <2>1, Handing
  <2>3. \A q \in Procs : Sending(q) => Sending(q)'
    BY <1>0, <1>3 DEF TypeOK, Sending
  <2>4. MsgInv' /\ \A q \in Procs : ParkedKept(q)
    BY <1>3, <2>3, ParkedSame DEF ipcVars
  <2> QED
    BY <1>0, <1>3, <2>2, <2>4, PassStep DEF Refines, ipcVars
<1> QED
  BY <1>1, <1>2, <1>3 DEF PageFault

LEMMA OthersRefine ==
  ASSUME TypeOK, SlotInv, MsgInv, NEW p \in Procs,
         DeliverMsg(p) \/ DeliverFault(p) \/ FaultHandled(p) \/ PstSet(p) \/ PstUnset(p)
  PROVE  Refines
<1>1. CASE DeliverMsg(p)
  <2>1. /\ deliver_msg' = [deliver_msg EXCEPT ![p] = NoMsg]
        /\ pf' = [pf EXCEPT ![p] = @ \ {"DELIVER_MSG", "MSG_FAILED"}]
        /\ UNCHANGED <<pst, sendto, send_msg, notify_pending, int_pending, async_table>>
    BY <1>1 DEF DeliverMsg
  <2>2. Inbox(p)' = NoMsg /\ \A q \in Procs \ {p} : InboxKept(q)
    BY <2>1 DEF TypeOK, Inbox, InboxKept
  <2>3. MsgInv' /\ \A q \in Procs : ParkedKept(q)
    BY <2>1, ParkedSame DEF Sending
  <2>4. CASE Inbox(p) # NoMsg
    BY <2>1, <2>2, <2>3, <2>4, ReadStep DEF Refines
  <2>5. CASE Inbox(p) = NoMsg
    BY <2>1, <2>2, <2>3, <2>5, Stutter DEF Refines, InboxKept
  <2> QED
    BY <2>4, <2>5
<1>2. ASSUME NEW S, pst' = [pst EXCEPT ![p] = S], "SENDING" \in pst[p] => "SENDING" \in S,
             \A q \in Procs : Holding(q)' <=> Holding(q),
             UNCHANGED <<ipcVars, deliver_msg, notify_pending, int_pending>>
      PROVE  Refines
  <2>1. \A q \in Procs : Sending(q) => Sending(q)'
    BY <1>2 DEF TypeOK, Sending
  <2>2. MsgInv' /\ \A q \in Procs : ParkedKept(q) /\ InboxKept(q)
    BY <1>2, <2>1, ParkedSame, InboxSame DEF ipcVars
  <2> QED
    BY <1>2, <2>2, Stutter DEF Refines, ipcVars
<1>3. CASE DeliverFault(p)
  <2>1. \A q \in Procs : Holding(q)' <=> Holding(q)
    BY <1>3, FieldValues DEF DeliverFault, TypeOK, Holding
  <2> QED
    BY <1>2, <1>3, <2>1 DEF DeliverFault
<1>4. CASE FaultHandled(p)
  BY <1>2, <1>4 DEF FaultHandled, Holding
<1>5. CASE PstSet(p)
  BY <1>2, <1>5 DEF PstSet, Holding
<1>6. CASE PstUnset(p)
  BY <1>2, <1>6 DEF PstUnset, Holding
<1> QED
  BY <1>1, <1>3, <1>4, <1>5, <1>6

LEMMA StepRefines ==
  ASSUME TypeOK, QueueInv, SlotInv, WakeInv, MsgInv, [Next]_vars
  PROVE  Refines
<1>1. ASSUME NEW p \in Procs, NEW d \in Procs, NEW b \in Bodies,
             Send(p, d, b) \/ SendNonblock(p, d, b)
      PROVE  Refines
  BY <1>1, SendRefines DEF Send, SendNonblock
<1>2. ASSUME NEW p \in Procs, NEW d \in Procs, Notify(p, d)
      PROVE  Refines
  <2>1. PICK i \in SUBSET Ints : i = {}
    OBVIOUS
  <2>2. int_pending[d] \cup i = int_pending[d]
    BY <2>1
  <2>3. p \in Sources /\ NotifyFrom(p, d, int_pending[d] \cup i) /\ UNCHANGED ipcVars
    BY <1>2, <2>2, ProcIds DEF Notify
  <2> QED
    BY <2>1, <2>3, NotifyRefines
<1>3. ASSUME NEW d \in Procs, NEW i \in Ints, Interrupt(d, i)
      PROVE  Refines
  <2>1. INTERRUPT \in Sources
    BY TypesAssumption DEF INTERRUPT, Sources
  <2> QED
    BY <1>3, <2>1, NotifyRefines DEF Interrupt
<1>4. CASE UNCHANGED vars
  <2>1. /\ UNCHANGED <<pst, pf, sendto, send_msg, deliver_msg>>
        /\ UNCHANGED <<async_table, notify_pending, int_pending>>
    BY <1>4 DEF vars
  <2>2. MsgInv' /\ \A q \in Procs : ParkedKept(q) /\ InboxKept(q)
    BY <2>1, ParkedSame, InboxSame DEF Sending, Holding
  <2> QED
    BY <2>1, <2>2, Stutter DEF Refines
<1> QED
  BY <1>1, <1>2, <1>3, <1>4, SendRecRefines, SendAsyncRefines, ReceiveRefines,
     PageFaultRefines, OthersRefine, ConstantsAssumption DEF Next

\* Whatever the processes call and in which order, msg_send(), msg_receive(),
\* msg_notify(), msg_senda() and deliver_msg() implement the message service:
\* a message is posted once, by its sender, is handed over only to the process
\* it is for, which has read what it got before, keeps its place among the
\* async messages between the two, and is not dropped, repeated or changed.
THEOREM KernelImplementsService == Spec => ServiceSpec
<1>1. Init => Service!Init /\ MsgInv
  <2> SUFFICES ASSUME Init
               PROVE  Service!Init /\ MsgInv
    OBVIOUS
  <2>1. \A p \in Procs : Parked(p) = Nothing /\ Inbox(p) = NoMsg /\ send_msg[p] = NoMsg
    BY DEF Init, Parked, Inbox, Nothing
  <2> QED
    BY <2>1, SameTypes DEF Init, Service!Init, MsgInv
<1>2. TypeOK /\ QueueExact /\ SlotInv /\ WakeInv /\ MsgInv /\ [Next]_vars
        => MsgInv' /\ [Service!Next]_(Service!svars)
  BY StepRefines DEF Refines, QueueExact, QueueInv
<1> QED
  BY <1>1, <1>2, TypeCorrect, QueuesExact, SlotInvariant, WakeInvariant, PTL
     DEF Spec, ServiceSpec, Service!Spec
=============================================================================
