--------------------------- MODULE KernelIPCWakeups ---------------------------
(***************************************************************************)
(* Theorems about KernelIPC: a process blocked in a receive is not passed  *)
(* over, and a page fault is not forgotten.                                *)
(***************************************************************************)
EXTENDS KernelIPCSlots

-----------------------------------------------------------------------------
(* A process blocked in a receive *)

Async(p) == "RECV_ASYNC" \in pf[p]

\* nothing from s is there for p, as far as the receive that p blocks in looks
NothingFrom(p, s) ==
  /\ \A i \in 1 .. Len(q_sending[p]) : q_sending[p][i] # s
  /\ recvfrom[p] = ANY => notify_pending[p] = {}
  /\ Async(p) => async_table[s][p] = <<>>

\* NoMissedWakeup with what a blocked sender will wait for once its message is
\* taken: after BOTH it waits for the process it sent to, and not for async
\* messages.
WakeInv ==
  \A p \in Procs :
    /\ Async(p) => Receiving(p) /\ ~Sending(p)
    /\ Sending(p) /\ Receiving(p) => recvfrom[p] = sendto[p] /\ sendto[p] \in Procs
    /\ \A s \in Procs : Waiting(p, s) => NothingFrom(p, s)

\* What a step can do to q: it stops receiving; it begins to wait for
\* processes that have nothing for it; its send is taken and it waits for the
\* one that took it; or it goes on as it was, and what is added for it is from
\* processes it does not wait for.
Stops(q) == ~Receiving(q)' /\ ~Async(q)'
Begins(q) == /\ Receiving(q)'
             /\ Async(q)' => ~Sending(q)'
             /\ Sending(q)' => recvfrom'[q] = sendto'[q] /\ sendto'[q] \in Procs
             /\ ~Sending(q)' => \A s \in Procs : recvfrom'[q] \in {s, ANY} => NothingFrom(q, s)'
GoesOn(q) == /\ Receiving(q)' <=> Receiving(q)
             /\ Sending(q)' <=> Sending(q)
             /\ Async(q)' <=> Async(q)
             /\ Receiving(q) => recvfrom'[q] = recvfrom[q] /\ sendto'[q] = sendto[q]
             /\ \A s \in Procs : Waiting(q, s) /\ NothingFrom(q, s) => NothingFrom(q, s)'
WakeNext(q) == Stops(q) \/ Begins(q) \/ GoesOn(q)

LEMMA WakeKept == WakeInv /\ (\A q \in Procs : WakeNext(q)) => WakeInv'
<1> SUFFICES ASSUME WakeInv, NEW q \in Procs, WakeNext(q)
             PROVE  /\ Async(q)' => Receiving(q)' /\ ~Sending(q)'
                    /\ Sending(q)' /\ Receiving(q)' =>
                         recvfrom'[q] = sendto'[q] /\ sendto'[q] \in Procs
                    /\ \A s \in Procs : Waiting(q, s)' => NothingFrom(q, s)'
  BY DEF WakeInv
<1>1. CASE Stops(q)
  BY <1>1 DEF Stops, Receiving, Waiting
<1>2. CASE Begins(q)
  BY <1>2 DEF Begins, Receiving, Waiting
<1>3. CASE GoesOn(q)
  BY <1>3 DEF GoesOn, WakeInv, Receiving, Waiting
<1> QED
  BY <1>1, <1>2, <1>3 DEF WakeNext

\* q goes on when nothing of it changes but notifications that it has seen.
LEMMA WakeSame ==
  ASSUME NEW q \in Procs,
         Receiving(q)' <=> Receiving(q), Sending(q)' <=> Sending(q), Async(q)' <=> Async(q),
         Receiving(q) => recvfrom'[q] = recvfrom[q] /\ sendto'[q] = sendto[q],
         q_sending'[q] = q_sending[q],
         notify_pending'[q] \subseteq notify_pending[q],
         \A s \in Procs : async_table'[s][q] = async_table[s][q]
  PROVE  WakeNext(q)
BY DEF WakeNext, GoesOn, Waiting, Receiving, NothingFrom

\* A process in user mode is in no receive.
LEMMA WakeUser ==
  ASSUME WakeInv, NEW p \in Procs, InUser(p)
  PROVE  pst[p] = {} /\ ~Receiving(p) /\ ~Sending(p) /\ ~Async(p)
BY DEF WakeInv, InUser, Receiving, Sending

\* Who is in a sending queue is blocked sending to its owner.
LEMMA QueuedSends ==
  ASSUME TypeOK, QueueInv, NEW p \in Procs, NEW i \in 1 .. Len(q_sending[p])
  PROVE  /\ q_sending[p][i] \in Procs
         /\ Sending(q_sending[p][i])
         /\ sendto[q_sending[p][i]] = p
BY ElementOfSeq DEF TypeOK, QueueInv, QueueSound

\* The sender that a receive takes is blocked sending to the receiver.
LEMMA ChosenSends ==
  ASSUME TypeOK, QueueInv, NEW p \in Procs, NEW src, NEW f \in Procs, Chosen(p, src, f)
  PROVE  Sending(f) /\ sendto[f] = p
<1>1. CASE src = f /\ Sending(f) /\ sendto[f] = p
  BY <1>1
<1>2. CASE q_sending[p] # <<>> /\ f = Head(q_sending[p])
  <2>1. 1 \in 1 .. Len(q_sending[p]) /\ f = q_sending[p][1]
    BY <1>2, HeadTailProperties, EmptySeq, LenProperties DEF TypeOK
  <2> QED
    BY <2>1, QueuedSends
<1> QED
  BY <1>1, <1>2 DEF Chosen

LEMMA ProcIds == ANY \notin Procs /\ ANY \notin Sources /\ Procs \subseteq Sources
BY TypesAssumption DEF Procs, Sources, ANY

\* Every step does one of these to each process.
LEMMA WakeStep ==
  TypeOK /\ QueueInv /\ AsyncMarked /\ WakeInv /\ [Next]_vars => \A q \in Procs : WakeNext(q)
<1> SUFFICES ASSUME TypeOK, QueueInv, AsyncMarked, WakeInv, [Next]_vars, NEW q \in Procs
             PROVE  WakeNext(q)
  OBVIOUS
<1> USE FieldValues
<1>s. ASSUME UNCHANGED <<sendto, recvfrom, q_sending, notify_pending, async_table, pf>>,
             Receiving(q)' <=> Receiving(q), Sending(q)' <=> Sending(q)
      PROVE  WakeNext(q)
  BY <1>s, WakeSame DEF Async
<1>h. ASSUME NEW d \in Procs, NEW m, HandOver(d, m), UNCHANGED <<ipcVars, notify_pending>>
      PROVE  WakeNext(q)
  <2>1. CASE q = d
    BY <1>h, <2>1 DEF HandOver, Handed, TypeOK, WakeNext, Stops, Receiving, Async
  <2>2. CASE q # d
    <3>1. pst'[q] = pst[q] /\ pf'[q] = pf[q]
      BY <1>h, <2>2 DEF HandOver, TypeOK
    <3> QED
      BY <1>h, <3>1, WakeSame DEF ipcVars, Receiving, Sending, Async
  <2> QED
    BY <2>1, <2>2
<1>b. ASSUME NEW p \in Procs, NEW d \in Procs, NEW m, NEW S, InUser(p), p # d,
             SendBlock(p, d, m, S),
             \/ "RECEIVING" \notin S /\ UNCHANGED recvfrom
             \/ "RECEIVING" \in S /\ recvfrom' = [recvfrom EXCEPT ![p] = d]
      PROVE  WakeNext(q)
  <2>0. ~Receiving(p) /\ ~Sending(p) /\ ~Async(p)
    BY <1>b, WakeUser
  <2>1. CASE q = p
    <3>1. /\ pst'[p] = pst[p] \cup {"SENDING"} \cup S /\ sendto'[p] = d /\ pf' = pf
      BY <1>b DEF SendBlock, TypeOK
    <3>2. CASE "RECEIVING" \notin S
      BY <2>0, <2>1, <3>1, <3>2 DEF WakeNext, Stops, Receiving, Async
    <3>3. CASE "RECEIVING" \in S /\ recvfrom' = [recvfrom EXCEPT ![p] = d]
      <4>1. recvfrom'[p] = d
        BY <3>3 DEF TypeOK
      <4> QED
        BY <2>0, <2>1, <3>1, <3>3, <4>1 DEF WakeNext, Begins, Receiving, Sending, Async
    <3> QED
      BY <1>b, <3>2, <3>3
  <2>2. CASE q # p
    <3>1. /\ pst'[q] = pst[q] /\ pf'[q] = pf[q] /\ sendto'[q] = sendto[q]
          /\ recvfrom'[q] = recvfrom[q]
          /\ UNCHANGED <<notify_pending, async_table>>
      BY <1>b, <2>2 DEF SendBlock, TypeOK
    <3>2. CASE q # d
      <4>1. q_sending'[q] = q_sending[q]
        BY <1>b, <3>2 DEF SendBlock, TypeOK
      <4> QED
        BY <3>1, <4>1, WakeSame DEF Receiving, Sending, Async
    <3>3. CASE q = d
      <4>1. q_sending'[q] = Append(q_sending[q], p)
        BY <1>b, <3>3 DEF SendBlock, TypeOK
      <4>2. \A i \in 1 .. Len(q_sending'[q]) :
              \/ i \in 1 .. Len(q_sending[q]) /\ q_sending'[q][i] = q_sending[q][i]
              \/ q_sending'[q][i] = p
        <5>1. q_sending[q] \in Seq(Procs) /\ Len(q_sending[q]) \in Nat
          BY LenProperties DEF TypeOK
        <5>2. /\ Len(q_sending'[q]) = Len(q_sending[q]) + 1
              /\ \A i \in 1 .. Len(q_sending[q]) : q_sending'[q][i] = q_sending[q][i]
              /\ q_sending'[q][Len(q_sending[q]) + 1] = p
          BY <4>1, <5>1, AppendProperties
        <5> QED
          BY <5>1, <5>2
      <4>3. ~Waiting(q, p)
        BY <1>b, <3>3 DEF SendBlock
      <4>4. ASSUME NEW s \in Procs, Waiting(q, s), NothingFrom(q, s)
            PROVE  NothingFrom(q, s)'
        BY <3>1, <4>2, <4>3, <4>4 DEF NothingFrom, Async
      <4> QED
        BY <3>1, <4>4 DEF WakeNext, GoesOn, Receiving, Sending, Async
    <3> QED
      BY <3>2, <3>3
  <2> QED
    BY <2>1, <2>2
<1>c. ASSUME NEW p \in Procs, NEW d \in Procs, InUser(p), SendFault(p, d)
      PROVE  WakeNext(q)
  <2>0. pst[p] = {} /\ ~Async(p)
    BY <1>c, WakeUser
  <2>1. CASE UNCHANGED <<pst, sendto>>
    BY <1>c, <1>s, <2>1 DEF SendFault, Receiving, Sending
  <2>2. CASE /\ pst' = [pst EXCEPT ![p] = @ \cup {"SENDING"}]
             /\ sendto' = [sendto EXCEPT ![p] = d]
    <3>1. CASE q = p
      BY <1>c, <2>0, <2>2, <3>1 DEF SendFault, TypeOK, WakeNext, Stops, Receiving, Async
    <3>2. CASE q # p
      <4>1. pst'[q] = pst[q] /\ sendto'[q] = sendto[q]
        BY <2>2, <3>2 DEF TypeOK
      <4> QED
        BY <1>c, <4>1, WakeSame DEF SendFault, Receiving, Sending, Async
    <3> QED
      BY <3>1, <3>2
  <2> QED
    BY <1>c, <2>1, <2>2 DEF SendFault
<1>d. ASSUME NEW p \in Procs, NEW e, Refuse(p, e)
      PROVE  WakeNext(q)
  BY <1>d, <1>s DEF Refuse, ipcVars, Receiving, Sending
<1>e. ASSUME NEW p \in Procs, NEW d \in Procs, NEW m, SendDirect(p, d, m)
      PROVE  WakeNext(q)
  BY <1>e, <1>h DEF SendDirect
<1>1. ASSUME NEW p \in Procs, NEW d \in Procs, NEW b \in Bodies, Send(p, d, b)
      PROVE  WakeNext(q)
  BY <1>1, <1>b, <1>c, <1>d, <1>e DEF Send
<1>2. ASSUME NEW p \in Procs, NEW d \in Procs, NEW b \in Bodies, SendRec(p, d, b)
      PROVE  WakeNext(q)
  <2>0. p # d /\ InUser(p) /\ pst[p] = {} /\ ~Async(p)
    BY <1>2, WakeUser DEF SendRec
  <2>1. CASE /\ notify_pending' = [notify_pending EXCEPT ![p] = @ \ {d}]
             /\ pf' = [pf EXCEPT ![d] = Handed(@), ![p] = Handed(@)]
             /\ pst' = [pst EXCEPT ![d] = @ \ {"RECEIVING"}]
             /\ UNCHANGED ipcVars
    <3>1. CASE q \in {d, p}
      BY <2>0, <2>1, <3>1 DEF Handed, TypeOK, WakeNext, Stops, Receiving, Async
    <3>2. CASE q \notin {d, p}
      <4>1. pst'[q] = pst[q] /\ pf'[q] = pf[q] /\ notify_pending'[q] = notify_pending[q]
        BY <2>1, <3>2 DEF TypeOK
      <4> QED
        BY <2>1, <4>1, WakeSame DEF ipcVars, Receiving, Sending, Async
    <3> QED
      BY <3>1, <3>2
  <2>2. CASE /\ Waiting(d, p)
             /\ pf' = [pf EXCEPT ![d] = Handed(@)]
             /\ pst' = [pst EXCEPT ![d] = @ \ {"RECEIVING"}, ![p] = @ \cup {"RECEIVING"}]
             /\ recvfrom' = [recvfrom EXCEPT ![p] = d]
             /\ UNCHANGED <<sendto, q_sending, async_table, notify_pending>>
    <3>1. CASE q = d
      BY <2>0, <2>2, <3>1 DEF Handed, TypeOK, WakeNext, Stops, Receiving, Async
    <3>2. CASE q = p
      <4>1. /\ Receiving(p)' /\ ~Async(p)' /\ ~Sending(p)' /\ recvfrom'[p] = d
        BY <2>0, <2>2 DEF TypeOK, Receiving, Sending, Async
      <4>2. d # ANY
        BY ProcIds
      <4>3. \A i \in 1 .. Len(q_sending[p]) : q_sending[p][i] # d
        BY <2>2, QueuedSends DEF Waiting
      <4>4. NothingFrom(p, d)'
        BY <2>2, <4>1, <4>2, <4>3 DEF NothingFrom
      <4> QED
        BY <3>2, <4>1, <4>2, <4>4 DEF WakeNext, Begins
    <3>3. CASE q \notin {d, p}
      <4>1. pst'[q] = pst[q] /\ pf'[q] = pf[q] /\ recvfrom'[q] = recvfrom[q]
        BY <2>2, <3>3 DEF TypeOK
      <4> QED
        BY <2>2, <4>1, WakeSame DEF Receiving, Sending, Async
    <3> QED
      BY <3>1, <3>2, <3>3
  <2>3. CASE /\ SendBlock(p, d, Msg(p, b), {"RECEIVING"})
             /\ recvfrom' = [recvfrom EXCEPT ![p] = d]
    BY <1>b, <2>0, <2>3
  <2> QED
    BY <1>2, <1>c, <1>d, <2>0, <2>1, <2>2, <2>3 DEF SendRec
<1>3. ASSUME NEW p \in Procs, NEW d \in Procs, NEW b \in Bodies, SendNonblock(p, d, b)
      PROVE  WakeNext(q)
  BY <1>3, <1>c, <1>d, <1>e DEF SendNonblock
<1>4. ASSUME NEW p \in Procs, NEW d \in Procs, NEW b \in Bodies, SendAsync(p, d, b)
      PROVE  WakeNext(q)
  <2> DEFINE table == [async_table[p] EXCEPT ![d] = Append(@, Msg(p, b))]
             ready == {r \in Procs \ {p} : /\ table[r] # <<>>
                                           /\ Waiting(r, p)
                                           /\ "RECV_ASYNC" \in pf[r]}
             left == [r \in Procs |-> IF r \in ready THEN Tail(table[r]) ELSE table[r]]
  <2>1. /\ InUser(p)
        /\ pf'[q] = IF q \in ready THEN Handed(pf[q]) ELSE pf[q]
        /\ pst'[q] = IF q \in ready THEN pst[q] \ {"RECEIVING"} ELSE pst[q]
        /\ async_table' = [async_table EXCEPT ![p] = left]
        /\ UNCHANGED <<sendto, recvfrom, q_sending, notify_pending>>
    BY <1>4 DEF SendAsync
  <2>2. q \in Procs \ {p} /\ table[q] # <<>> /\ Waiting(q, p) /\ Async(q) <=> q \in ready
    BY DEF Async
  <2>3. left[q] = IF q \in ready THEN Tail(table[q]) ELSE table[q]
    OBVIOUS
  <2> HIDE DEF ready
  <2>4. ~Waiting(p, p)
    BY <2>1, WakeUser DEF Waiting, Receiving
  <2>5. CASE q \in ready
    BY <2>1, <2>5 DEF Handed, WakeNext, Stops, Receiving, Async
  <2>6. CASE q \notin ready
    <3>1. \A s \in Procs \ {p} : async_table'[s][q] = async_table[s][q]
      BY <2>1 DEF TypeOK
    <3>2. async_table'[p][q] = table[q]
      BY <2>1, <2>3, <2>6 DEF TypeOK
    <3>3. Waiting(q, p) /\ Async(q) => table[q] = <<>>
      BY <2>2, <2>4, <2>6
    <3>4. pst'[q] = pst[q] /\ pf'[q] = pf[q]
      BY <2>1, <2>6
    <3> HIDE DEF table, left
    <3>5. ASSUME NEW s \in Procs, Waiting(q, s), NothingFrom(q, s)
          PROVE  NothingFrom(q, s)'
      BY <2>1, <3>1, <3>2, <3>3, <3>4, <3>5 DEF NothingFrom, Async
    <3> QED
      BY <2>1, <3>4, <3>5 DEF WakeNext, GoesOn, Receiving, Sending, Async
  <2> QED
    BY <2>5, <2>6
<1>5. ASSUME NEW s \in Sources, NEW d \in Procs, NEW I, NotifyFrom(s, d, I), UNCHANGED ipcVars
      PROVE  WakeNext(q)
  <2>1. CASE Waiting(d, s)
    BY <1>5, <1>h, <2>1 DEF NotifyFrom
  <2>2. CASE ~Waiting(d, s)
    <3>1. /\ notify_pending' = [notify_pending EXCEPT ![d] = @ \cup {s}]
          /\ UNCHANGED <<pst, pf, sendto, recvfrom, q_sending, async_table>>
      BY <1>5, <2>2 DEF NotifyFrom, ipcVars
    <3>2. CASE q # d
      <4>1. notify_pending'[q] = notify_pending[q]
        BY <3>1, <3>2 DEF TypeOK
      <4> QED
        BY <3>1, <4>1, WakeSame DEF Receiving, Sending, Async
    <3>3. CASE q = d
      <4>1. ASSUME NEW t \in Procs, Waiting(q, t), NothingFrom(q, t)
            PROVE  NothingFrom(q, t)'
        <5>1. recvfrom[q] # ANY
          BY <2>2, <3>3, <4>1 DEF Waiting
        <5> QED
          BY <3>1, <4>1, <5>1 DEF NothingFrom, Async
      <4> QED
        BY <3>1, <4>1 DEF WakeNext, GoesOn, Receiving, Sending, Async
    <3> QED
      BY <3>2, <3>3
  <2> QED
    BY <2>1, <2>2
<1>6. ASSUME NEW p \in Procs, NEW src \in Sources \cup {ANY}, NEW async \in BOOLEAN,
             Receive(p, src, async)
      PROVE  WakeNext(q)
  <2>0. pst[p] = {} /\ ~Receiving(p) /\ ~Sending(p) /\ ~Async(p)
    BY <1>6, WakeUser DEF Receive
  <2>1. CASE ReceiveNotify(p, src)
    <3>1. PICK s \in Sources : TakeNotify(p, s)
      BY <2>1 DEF ReceiveNotify
    <3>2. /\ pf' = [pf EXCEPT ![p] = Handed(@)]
          /\ notify_pending' = [notify_pending EXCEPT ![p] = @ \ {s}]
          /\ UNCHANGED <<pst, ipcVars>>
      BY <2>1, <3>1 DEF ReceiveNotify, TakeNotify
    <3>3. CASE q = p
      BY <2>0, <3>2, <3>3 DEF Handed, TypeOK, WakeNext, Stops, Receiving, Async
    <3>4. CASE q # p
      <4>1. pf'[q] = pf[q] /\ notify_pending'[q] = notify_pending[q]
        BY <3>2, <3>4 DEF TypeOK
      <4> QED
        BY <3>2, <4>1, WakeSame DEF ipcVars, Receiving, Sending, Async
    <3> QED
      BY <3>3, <3>4
  <2>2. CASE ReceiveAsyncMsg(p, src)
    <3>1. PICK s : /\ async_table' = [async_table EXCEPT ![s][p] = Tail(@)]
                   /\ pf' = [pf EXCEPT ![p] = Handed(@)]
                   /\ UNCHANGED <<pst, sendto, recvfrom, q_sending, notify_pending>>
      BY <2>2 DEF ReceiveAsyncMsg
    <3>3. CASE q = p
      BY <2>0, <3>1, <3>3 DEF Handed, TypeOK, WakeNext, Stops, Receiving, Async
    <3>4. CASE q # p
      <4>1. pf'[q] = pf[q] /\ \A t \in Procs : async_table'[t][q] = async_table[t][q]
        BY <3>1, <3>4 DEF TypeOK
      <4> QED
        BY <3>1, <4>1, WakeSame DEF Receiving, Sending, Async
    <3> QED
      BY <3>3, <3>4
  <2>3. ASSUME NEW f \in Procs, Chosen(p, src, f), ReceiveQueued(p, f),
               UNCHANGED <<async_table, notify_pending>>
        PROVE  WakeNext(q)
    <3>1. Sending(f) /\ sendto[f] = p /\ f # p
      BY <2>0, <2>3, ChosenSends
    <3>2. /\ q_sending' = [q_sending EXCEPT ![p] = Unqueue(@, f)]
          /\ sendto' = [sendto EXCEPT ![f] = NO_TASK]
          /\ pst' = [pst EXCEPT ![f] = @ \ {"SENDING"}]
          /\ pf' = [pf EXCEPT ![p] = @ \cup {"DELIVER_MSG"}]
          /\ UNCHANGED recvfrom
      BY <2>3 DEF ReceiveQueued
    <3>3. CASE q = p
      BY <2>0, <3>1, <3>2, <3>3 DEF TypeOK, WakeNext, Stops, Receiving, Async
    <3>4. CASE q = f
      <4>1. /\ Receiving(f)' <=> Receiving(f)
            /\ ~Sending(f)'
            /\ Async(f)' <=> Async(f)
            /\ q_sending'[f] = q_sending[f]
        BY <3>1, <3>2 DEF TypeOK, Receiving, Sending, Async
      <4>2. ~Async(f) /\ (Receiving(f) => recvfrom[f] = p)
        BY <3>1 DEF WakeInv
      <4>3. p # ANY
        BY ProcIds
      <4>4. \A i \in 1 .. Len(q_sending[f]) : q_sending[f][i] # p
        BY <2>0, QueuedSends
      <4>5. CASE Receiving(f)
        <5>1. NothingFrom(f, p)'
          BY <3>2, <4>1, <4>2, <4>3, <4>4, <4>5 DEF NothingFrom
        <5> QED
          BY <3>2, <3>4, <4>1, <4>2, <4>3, <4>5, <5>1 DEF WakeNext, Begins
      <4>6. CASE ~Receiving(f)
        BY <3>4, <4>1, <4>2, <4>6 DEF WakeNext, Stops
      <4> QED
        BY <4>5, <4>6
    <3>5. CASE q \notin {p, f}
      <4>1. /\ pst'[q] = pst[q] /\ pf'[q] = pf[q] /\ sendto'[q] = sendto[q]
            /\ q_sending'[q] = q_sending[q]
        BY <3>2, <3>5 DEF TypeOK
      <4> QED
        BY <2>3, <3>2, <4>1, WakeSame DEF Receiving, Sending, Async
    <3> QED
      BY <3>3, <3>4, <3>5
  <2>4. ASSUME NoNotify(p, src),
               \A s \in AsyncCandidates(p, src, async) : async_table[s][p] = <<>>,
               \A f \in Procs : ~Chosen(p, src, f), ReceiveBlock(p, src, async),
               UNCHANGED <<async_table, notify_pending>>
        PROVE  WakeNext(q)
    <3>1. /\ pst' = [pst EXCEPT ![p] = @ \cup {"RECEIVING"}]
          /\ pf' = [pf EXCEPT ![p] = IF async THEN @ \cup {"RECV_ASYNC"} ELSE @]
          /\ recvfrom' = [recvfrom EXCEPT ![p] = src]
          /\ UNCHANGED <<sendto, q_sending>>
      BY <2>4 DEF ReceiveBlock
    <3>2. CASE q = p
      <4>1. /\ Receiving(p)' /\ ~Sending(p)' /\ recvfrom'[p] = src
            /\ Async(p)' => async
        BY <2>0, <3>1 DEF TypeOK, Receiving, Sending, Async
      <4>2. ASSUME NEW s \in Procs, src \in {s, ANY}
            PROVE  NothingFrom(p, s)'
        <5>1. \A i \in 1 .. Len(q_sending[p]) : q_sending[p][i] # s
          <6> SUFFICES ASSUME NEW i \in 1 .. Len(q_sending[p]), q_sending[p][i] = s
                       PROVE  FALSE
            OBVIOUS
          <6>1. Sending(s) /\ sendto[s] = p
            BY QueuedSends
          <6>2. src = ANY
            BY <2>4, <4>2, <6>1 DEF Chosen
          <6>3. q_sending[p] # <<>> /\ Head(q_sending[p]) \in Procs
            BY HeadTailProperties, EmptySeq, LenProperties DEF TypeOK
          <6> QED
            BY <2>4, <6>2, <6>3 DEF Chosen
        <5>2. src = ANY => notify_pending[p] = {}
          BY <2>4 DEF NoNotify
        <5>3. async => async_table[s][p] = <<>>
          BY <2>4, <4>2 DEF AsyncCandidates, AsyncMarked
        <5> QED
          BY <2>4, <3>1, <4>1, <5>1, <5>2, <5>3 DEF NothingFrom
      <4> QED
        BY <3>2, <4>1, <4>2 DEF WakeNext, Begins
    <3>3. CASE q # p
      <4>1. pst'[q] = pst[q] /\ pf'[q] = pf[q] /\ recvfrom'[q] = recvfrom[q]
        BY <3>1, <3>3 DEF TypeOK
      <4> QED
        BY <2>4, <3>1, <4>1, WakeSame DEF Receiving, Sending, Async
    <3> QED
      BY <3>2, <3>3
  <2>5. CASE NoNotify(p, src) /\ ReceiveSync(p, src, async)
    BY <2>3, <2>4, <2>5 DEF ReceiveSync
  <2> QED
    BY <1>6, <2>1, <2>2, <2>5 DEF Receive
<1>7. ASSUME NEW p \in Procs, DeliverMsg(p)
      PROVE  WakeNext(q)
  <2>1. /\ pst[p] = {} /\ UNCHANGED <<pst, sendto, q_sending, notify_pending, async_table>>
        /\ pf' = [pf EXCEPT ![p] = @ \ {"DELIVER_MSG", "MSG_FAILED"}]
        /\ recvfrom' = [recvfrom EXCEPT ![p] = NO_TASK]
    BY <1>7 DEF DeliverMsg
  <2>2. /\ Async(q)' <=> Async(q)
        /\ Receiving(q) => recvfrom'[q] = recvfrom[q]
    BY <2>1 DEF TypeOK, Async, Receiving
  <2> QED
    BY <2>1, <2>2, WakeSame DEF Receiving, Sending
<1>8. ASSUME NEW p \in Faulters, PageFault(p)
      PROVE  WakeNext(q)
  <2>0. p \in Procs /\ MM \in Procs /\ p # MM /\ InUser(p)
    BY <1>8, ConstantsAssumption DEF PageFault
  <2>1. CASE SendBlock(p, MM, Msg(p, "FAULT"), {"PAGEFAULT"}) /\ UNCHANGED recvfrom
    BY <1>b, <2>0, <2>1
  <2>2. CASE /\ pst' = [pst EXCEPT ![p] = @ \cup {"PAGEFAULT"}]
             /\ UNCHANGED <<pf, ipcVars, notify_pending>>
    <3>1. (Receiving(q)' <=> Receiving(q)) /\ (Sending(q)' <=> Sending(q))
      BY <2>0, <2>2 DEF TypeOK, Receiving, Sending
    <3> QED
      BY <1>s, <2>2, <3>1 DEF ipcVars
  <2>3. CASE /\ pf' = [pf EXCEPT ![MM] = Handed(@)]
             /\ pst' = [pst EXCEPT ![MM] = @ \ {"RECEIVING"},
                                   ![p] = @ \cup {"PAGEFAULT"}]
             /\ UNCHANGED <<ipcVars, notify_pending>>
    <3>1. CASE q = MM
      BY <2>0, <2>3, <3>1 DEF Handed, TypeOK, WakeNext, Stops, Receiving, Async
    <3>2. CASE q # MM
      <4>1. /\ pf'[q] = pf[q]
            /\ (Receiving(q)' <=> Receiving(q)) /\ (Sending(q)' <=> Sending(q))
        BY <2>0, <2>3, <3>2 DEF TypeOK, Receiving, Sending
      <4> QED
        BY <2>3, <4>1, WakeSame DEF ipcVars, Async
    <3> QED
      BY <3>1, <3>2
  <2> QED
    BY <1>8, <2>1, <2>2, <2>3 DEF PageFault
<1>9. ASSUME NEW p \in Procs,
             DeliverFault(p) \/ FaultHandled(p) \/ PstSet(p) \/ PstUnset(p)
      PROVE  WakeNext(q)
  <2>1. CASE DeliverFault(p)
    <3>1. /\ (Receiving(q)' <=> Receiving(q)) /\ (Sending(q)' <=> Sending(q))
          /\ Async(q)' <=> Async(q)
      BY <2>1 DEF DeliverFault, TypeOK, Receiving, Sending, Async
    <3> QED
      BY <2>1, <3>1, WakeSame DEF DeliverFault, ipcVars
  <2>2. CASE FaultHandled(p) \/ PstSet(p) \/ PstUnset(p)
    <3>1. (Receiving(q)' <=> Receiving(q)) /\ (Sending(q)' <=> Sending(q))
      <4>1. \/ pst' = [pst EXCEPT ![p] = @ \ {"PAGEFAULT"}]
            \/ pst' = [pst EXCEPT ![p] = @ \cup {"INHIBIT"}]
            \/ pst' = [pst EXCEPT ![p] = @ \ {"INHIBIT"}]
        BY <2>2 DEF FaultHandled, PstSet, PstUnset
      <4>2. CASE pst' = [pst EXCEPT ![p] = @ \ {"PAGEFAULT"}]
        BY <4>2 DEF TypeOK, Receiving, Sending
      <4>3. CASE pst' = [pst EXCEPT ![p] = @ \cup {"INHIBIT"}]
        BY <4>3 DEF TypeOK, Receiving, Sending
      <4>4. CASE pst' = [pst EXCEPT ![p] = @ \ {"INHIBIT"}]
        BY <4>4 DEF TypeOK, Receiving, Sending
      <4> QED
        BY <4>1, <4>2, <4>3, <4>4
    <3> QED
      BY <1>s, <2>2, <3>1 DEF FaultHandled, PstSet, PstUnset, ipcVars
  <2> QED
    BY <1>9, <2>1, <2>2
<1>10. CASE UNCHANGED vars
  BY <1>10, <1>s DEF vars, Receiving, Sending
<1> QED
  <2>1. ASSUME NEW p \in Procs, NEW d \in Procs, Notify(p, d)
        PROVE  WakeNext(q)
    BY <1>5, <2>1, ProcIds DEF Notify
  <2>2. ASSUME NEW d \in Procs, NEW i \in Ints, Interrupt(d, i)
        PROVE  WakeNext(q)
    <3>1. INTERRUPT \in Sources
      BY TypesAssumption DEF INTERRUPT, Sources
    <3> QED
      BY <1>5, <2>2, <3>1 DEF Interrupt
  <2> QED
    BY <1>1, <1>2, <1>3, <1>4, <1>6, <1>7, <1>8, <1>9, <1>10, <2>1, <2>2,
       ConstantsAssumption DEF Next

LEMMA WakeInvariant == Spec => []WakeInv
<1>1. Init => WakeInv
  <2>1. Init => \A p \in Procs : ~Receiving(p) /\ ~Async(p)
    BY DEF Init, Receiving, Async
  <2> QED
    BY <2>1 DEF WakeInv, Waiting, Receiving
<1>2. TypeOK /\ QueueExact /\ AsyncMarked /\ WakeInv /\ [Next]_vars => WakeInv'
  BY WakeStep, WakeKept DEF QueueExact, QueueInv
<1> QED
  BY <1>1, <1>2, TypeCorrect, QueuesExact, AsyncNeverForgotten, PTL DEF Spec

\* A process blocked in a receive has nothing queued, pending or in an async
\* table that the receive accepts: msg_receive() looks everywhere before it
\* blocks, and msg_send(), msg_notify() and msg_senda() look at the receiver
\* before they queue, however calls follow each other.
THEOREM NotPassedOver == Spec => []NoMissedWakeup
<1>1. WakeInv => NoMissedWakeup
  BY DEF WakeInv, NoMissedWakeup, NothingFrom, Async
<1> QED
  BY <1>1, WakeInvariant, PTL

-----------------------------------------------------------------------------
(* Page faults *)

Faulted(p) == "PAGEFAULT" \in pst[p]

\* MM knows of the fault of p, or will when it receives what is there for it
Report(p) ==
  \/ p \in faults
  \/ deliver_msg[MM] = Msg(p, "FAULT") /\ Holding(MM)
  \/ Sending(p) /\ sendto[p] = MM /\ send_msg[p] = Msg(p, "FAULT")

\* If MM does not use blocking sends it is never blocked in one, so that
\* msg_send() never refuses a report with EDEADLK.
FaultInv ==
  MM \notin BlockSenders => /\ ~Sending(MM)
                            /\ \A p \in Procs : Faulted(p) => Report(p)

\* What a step can do to the fault of q: leave it and its report where they
\* are, move the report on, or end it.
ReportKept(q) ==
  /\ Faulted(q)' => Faulted(q)
  /\ q \in faults => q \in faults'
  /\ Holding(MM) => Holding(MM)' /\ deliver_msg'[MM] = deliver_msg[MM]
  /\ Sending(q) => Sending(q)' /\ sendto'[q] = sendto[q] /\ send_msg'[q] = send_msg[q]
FaultNext(q) == \/ ReportKept(q)
                \/ Report(q)'
                \/ Faulted(q)' => Faulted(q) /\ ~Report(q)

LEMMA FaultStep ==
  ASSUME TypeOK, QueueInv, SlotInv, MM \notin BlockSenders, ~Sending(MM), [Next]_vars,
         NEW q \in Procs
  PROVE  FaultNext(q) /\ ~Sending(MM)'
<1> USE FieldValues
<1>0. MM \in Procs
  BY ConstantsAssumption
<1>s. ASSUME UNCHANGED <<sendto, send_msg, faults, deliver_msg, pf>>,
             Faulted(q)' => Faulted(q), Sending(q)' <=> Sending(q), Sending(MM)' <=> Sending(MM)
      PROVE  FaultNext(q) /\ ~Sending(MM)'
  BY <1>s DEF FaultNext, ReportKept, Holding
<1>h. ASSUME NEW d \in Procs, NEW s, Waiting(d, s), NEW m, HandOver(d, m),
             UNCHANGED <<ipcVars, faults>>
      PROVE  FaultNext(q) /\ ~Sending(MM)'
  <2>1. /\ Faulted(q)' <=> Faulted(q)
        /\ Sending(q)' <=> Sending(q)
        /\ Sending(MM)' <=> Sending(MM)
    BY <1>0, <1>h DEF HandOver, TypeOK, Faulted, Sending
  <2>2. Holding(MM) => d # MM
    BY <1>0, <1>h DEF SlotInv, Waiting, Receiving
  <2>3. Holding(MM) => Holding(MM)' /\ deliver_msg'[MM] = deliver_msg[MM]
    BY <1>0, <1>h, <2>2 DEF HandOver, TypeOK, Holding
  <2> QED
    BY <1>h, <2>1, <2>3 DEF FaultNext, ReportKept, ipcVars
<1>b. ASSUME NEW p \in Procs \ {MM}, NEW d \in Procs, NEW m, NEW S, "PAGEFAULT" \notin S,
             InUser(p), SendBlock(p, d, m, S)
      PROVE  FaultNext(q) /\ ~Sending(MM)'
  <2>1. /\ UNCHANGED <<pf, deliver_msg, faults>>
        /\ pst' = [pst EXCEPT ![p] = @ \cup {"SENDING"} \cup S]
        /\ sendto' = [sendto EXCEPT ![p] = d]
        /\ send_msg' = [send_msg EXCEPT ![p] = m]
    BY <1>b DEF SendBlock
  <2>2. ~Sending(p)
    BY <1>b DEF InUser, Sending
  <2>3. (Faulted(q)' => Faulted(q)) /\ ~Sending(MM)'
    BY <1>0, <1>b, <2>1 DEF TypeOK, Faulted, Sending
  <2>4. Sending(q) => Sending(q)' /\ sendto'[q] = sendto[q] /\ send_msg'[q] = send_msg[q]
    BY <2>1, <2>2 DEF TypeOK, Sending
  <2> QED
    BY <2>1, <2>3, <2>4 DEF FaultNext, ReportKept, Holding
<1>c. ASSUME NEW p \in Procs, NEW d \in Procs, InUser(p), SendFault(p, d),
             p # MM \/ Waiting(d, p)
      PROVE  FaultNext(q) /\ ~Sending(MM)'
  <2>1. CASE UNCHANGED <<pst, sendto>>
    BY <1>c, <1>s, <2>1 DEF SendFault, Faulted, Sending
  <2>2. CASE /\ p # MM
             /\ pst' = [pst EXCEPT ![p] = @ \cup {"SENDING"}]
             /\ sendto' = [sendto EXCEPT ![p] = d]
    <3>1. ~Sending(p)
      BY <1>c DEF InUser, Sending
    <3>2. (Faulted(q)' => Faulted(q)) /\ ~Sending(MM)'
      BY <1>0, <2>2 DEF TypeOK, Faulted, Sending
    <3>3. Sending(q) => Sending(q)' /\ sendto'[q] = sendto[q]
      BY <2>2, <3>1 DEF TypeOK, Sending
    <3> QED
      BY <1>c, <3>2, <3>3 DEF SendFault, FaultNext, ReportKept, Holding
  <2> QED
    BY <1>c, <2>1, <2>2 DEF SendFault
<1>d. ASSUME NEW p \in Procs, NEW e, Refuse(p, e)
      PROVE  FaultNext(q) /\ ~Sending(MM)'
  BY <1>d, <1>s DEF Refuse, ipcVars, Faulted, Sending
<1>e. ASSUME NEW p \in Procs, NEW d \in Procs, NEW m, SendDirect(p, d, m)
      PROVE  FaultNext(q) /\ ~Sending(MM)'
  BY <1>e, <1>h DEF SendDirect
<1>1. ASSUME NEW p \in BlockSenders, NEW d \in Procs, NEW b \in Bodies, Send(p, d, b)
      PROVE  FaultNext(q) /\ ~Sending(MM)'
  <2>1. p \in Procs \ {MM}
    BY ConstantsAssumption
  <2> QED
    BY <1>1, <1>b, <1>c, <1>d, <1>e, <2>1 DEF Send
<1>2. ASSUME NEW p \in BlockSenders, NEW d \in Procs, NEW b \in Bodies, SendRec(p, d, b)
      PROVE  FaultNext(q) /\ ~Sending(MM)'
  <2>0. p \in Procs \ {MM} /\ InUser(p) /\ p # d
    BY <1>2, ConstantsAssumption DEF SendRec
  <2>1. ASSUME Waiting(d, p), UNCHANGED <<sendto, send_msg, faults>>,
               \A r \in Procs : \A x \in {"SENDING", "PAGEFAULT"} : x \in pst'[r] <=> x \in pst[r],
               Holding(MM) /\ d # MM => Holding(MM)' /\ deliver_msg'[MM] = deliver_msg[MM]
        PROVE  FaultNext(q) /\ ~Sending(MM)'
    <3>1. /\ Faulted(q)' <=> Faulted(q)
          /\ Sending(q)' <=> Sending(q)
          /\ Sending(MM)' <=> Sending(MM)
      BY <1>0, <2>1 DEF Faulted, Sending
    <3>2. Holding(MM) => d # MM
      BY <1>0, <2>1 DEF SlotInv, Waiting, Receiving
    <3> QED
      BY <2>1, <3>1, <3>2 DEF FaultNext, ReportKept
  <2>2. CASE /\ Waiting(d, p)
             /\ deliver_msg' = [deliver_msg EXCEPT ![d] = Msg(p, b), ![p] = NotifyMsg(d, {})]
             /\ pf' = [pf EXCEPT ![d] = Handed(@), ![p] = Handed(@)]
             /\ pst' = [pst EXCEPT ![d] = @ \ {"RECEIVING"}]
             /\ UNCHANGED <<ipcVars, faults>>
    <3>1. \A r \in Procs : \A x \in {"SENDING", "PAGEFAULT"} : x \in pst'[r] <=> x \in pst[r]
      BY <2>2 DEF TypeOK
    <3>2. Holding(MM) /\ d # MM => Holding(MM)' /\ deliver_msg'[MM] = deliver_msg[MM]
      BY <1>0, <2>0, <2>2 DEF TypeOK, Holding
    <3> QED
      BY <2>1, <2>2, <3>1, <3>2 DEF ipcVars
  <2>3. CASE /\ Waiting(d, p)
             /\ deliver_msg' = [deliver_msg EXCEPT ![d] = Msg(p, b)]
             /\ pf' = [pf EXCEPT ![d] = Handed(@)]
             /\ pst' = [pst EXCEPT ![d] = @ \ {"RECEIVING"}, ![p] = @ \cup {"RECEIVING"}]
             /\ UNCHANGED <<sendto, send_msg, faults>>
    <3>1. \A r \in Procs : \A x \in {"SENDING", "PAGEFAULT"} : x \in pst'[r] <=> x \in pst[r]
      BY <2>0, <2>3 DEF TypeOK
    <3>2. Holding(MM) /\ d # MM => Holding(MM)' /\ deliver_msg'[MM] = deliver_msg[MM]
      BY <1>0, <2>0, <2>3 DEF TypeOK, Holding
    <3> QED
      BY <2>1, <2>3, <3>1, <3>2
  <2>4. CASE SendBlock(p, d, Msg(p, b), {"RECEIVING"})
    BY <1>b, <2>0, <2>4
  <2> QED
    BY <1>2, <1>c, <1>d, <2>0, <2>2, <2>3, <2>4 DEF SendRec
<1>3. ASSUME NEW p \in Procs, NEW d \in Procs, NEW b \in Bodies, SendNonblock(p, d, b)
      PROVE  FaultNext(q) /\ ~Sending(MM)'
  BY <1>3, <1>c, <1>d, <1>e DEF SendNonblock
<1>4. ASSUME NEW p \in Procs, NEW d \in Procs, NEW b \in Bodies, SendAsync(p, d, b)
      PROVE  FaultNext(q) /\ ~Sending(MM)'
  <2> DEFINE table == [async_table[p] EXCEPT ![d] = Append(@, Msg(p, b))]
             ready == {r \in Procs \ {p} : /\ table[r] # <<>>
                                           /\ Waiting(r, p)
                                           /\ "RECV_ASYNC" \in pf[r]}
  <2>1. /\ deliver_msg' = [r \in Procs |-> IF r \in ready THEN Head(table[r])
                                           ELSE deliver_msg[r]]
        /\ pf' = [r \in Procs |-> IF r \in ready THEN Handed(pf[r]) ELSE pf[r]]
        /\ pst' = [r \in Procs |-> IF r \in ready THEN pst[r] \ {"RECEIVING"} ELSE pst[r]]
        /\ UNCHANGED <<sendto, send_msg, faults>>
    BY <1>4 DEF SendAsync
  <2>2. Holding(MM) => MM \notin ready
    BY <1>0 DEF SlotInv, Waiting, Receiving
  <2> HIDE DEF table, ready
  <2>3. /\ Faulted(q)' <=> Faulted(q)
        /\ Sending(q)' <=> Sending(q)
        /\ Sending(MM)' <=> Sending(MM)
    BY <1>0, <2>1 DEF Faulted, Sending
  <2>4. Holding(MM) => Holding(MM)' /\ deliver_msg'[MM] = deliver_msg[MM]
    BY <1>0, <2>1, <2>2 DEF Holding
  <2> QED
    BY <2>1, <2>3, <2>4 DEF FaultNext, ReportKept
<1>5. ASSUME NEW s \in Sources, NEW d \in Procs, NEW I, NotifyFrom(s, d, I),
             UNCHANGED <<ipcVars, faults>>
      PROVE  FaultNext(q) /\ ~Sending(MM)'
  BY <1>5, <1>h, <1>s DEF NotifyFrom, ipcVars, Faulted, Sending
<1>6. ASSUME NEW p \in Procs, NEW src \in Sources \cup {ANY}, NEW async \in BOOLEAN,
             Receive(p, src, async)
      PROVE  FaultNext(q) /\ ~Sending(MM)'
  <2>0. pst[p] = {} /\ ~Holding(p)
    BY <1>6 DEF Receive, InUser, Holding
  <2>1. ASSUME NEW m, NEW F,
               deliver_msg' = [deliver_msg EXCEPT ![p] = m], pf' = [pf EXCEPT ![p] = F],
               UNCHANGED <<pst, sendto, send_msg, faults>>
        PROVE  FaultNext(q) /\ ~Sending(MM)'
    <3>1. Holding(MM) => Holding(MM)' /\ deliver_msg'[MM] = deliver_msg[MM]
      BY <1>0, <2>0, <2>1 DEF TypeOK, Holding
    <3> QED
      BY <2>1, <3>1 DEF FaultNext, ReportKept, Faulted, Sending
  <2>2. CASE ReceiveNotify(p, src)
    BY <2>1, <2>2 DEF ReceiveNotify, TakeNotify, ipcVars
  <2>3. CASE ReceiveAsyncMsg(p, src)
    BY <2>1, <2>3 DEF ReceiveAsyncMsg
  <2>4. ASSUME NEW f \in Procs, Chosen(p, src, f), ReceiveQueued(p, f), UNCHANGED faults
        PROVE  FaultNext(q) /\ ~Sending(MM)'
    <3>1. Sending(f) /\ sendto[f] = p /\ f # p
      BY <2>0, <2>4, ChosenSends DEF Sending
    <3>2. /\ deliver_msg' = [deliver_msg EXCEPT ![p] = send_msg[f]]
          /\ send_msg' = [send_msg EXCEPT ![f] = NoMsg]
          /\ sendto' = [sendto EXCEPT ![f] = NO_TASK]
          /\ pst' = [pst EXCEPT ![f] = @ \ {"SENDING"}]
          /\ pf' = [pf EXCEPT ![p] = @ \cup {"DELIVER_MSG"}]
      BY <2>4 DEF ReceiveQueued
    <3>3. /\ Faulted(q)' <=> Faulted(q)
          /\ ~Sending(MM)'
      BY <1>0, <3>2 DEF TypeOK, Faulted, Sending
    <3>4. Holding(MM) => Holding(MM)' /\ deliver_msg'[MM] = deliver_msg[MM]
      BY <1>0, <2>0, <3>2 DEF TypeOK, Holding
    <3>5. CASE q # f
      <4>1. Sending(q) => Sending(q)' /\ sendto'[q] = sendto[q] /\ send_msg'[q] = send_msg[q]
        BY <3>2, <3>5 DEF TypeOK, Sending
      <4> QED
        BY <2>4, <3>3, <3>4, <4>1 DEF FaultNext, ReportKept
    <3>6. CASE q = f
      <4>1. CASE p = MM /\ send_msg[f] = Msg(f, "FAULT")
        <5>1. deliver_msg'[MM] = Msg(q, "FAULT") /\ Holding(MM)'
          BY <1>0, <3>2, <3>6, <4>1 DEF TypeOK, Holding
        <5> QED
          BY <3>3, <5>1 DEF FaultNext, Report
      <4>2. CASE ~(p = MM /\ send_msg[f] = Msg(f, "FAULT"))
        <5>1. Report(q) => Report(q)'
          BY <2>4, <3>1, <3>4, <3>6, <4>2 DEF Report
        <5> QED
          BY <3>3, <5>1 DEF FaultNext
      <4> QED
        BY <4>1, <4>2
    <3> QED
      BY <3>5, <3>6
  <2>5. ASSUME ReceiveBlock(p, src, async), UNCHANGED faults
        PROVE  FaultNext(q) /\ ~Sending(MM)'
    <3>1. /\ Faulted(q)' <=> Faulted(q)
          /\ Sending(q)' <=> Sending(q)
          /\ Sending(MM)' <=> Sending(MM)
      BY <1>0, <2>5 DEF ReceiveBlock, TypeOK, Faulted, Sending
    <3>2. Holding(MM) => Holding(MM)'
      BY <1>0, <2>0, <2>5 DEF ReceiveBlock, TypeOK, Holding
    <3> QED
      BY <2>5, <3>1, <3>2 DEF ReceiveBlock, FaultNext, ReportKept
  <2>6. CASE ReceiveSync(p, src, async)
    BY <2>4, <2>5, <2>6 DEF ReceiveSync
  <2> QED
    BY <1>6, <2>2, <2>3, <2>6 DEF Receive
<1>7. ASSUME NEW p \in Procs, DeliverMsg(p)
      PROVE  FaultNext(q) /\ ~Sending(MM)'
  <2>1. /\ deliver_msg' = [deliver_msg EXCEPT ![p] = NoMsg]
        /\ pf' = [pf EXCEPT ![p] = @ \ {"DELIVER_MSG", "MSG_FAILED"}]
        /\ faults' = IF p = MM /\ deliver_msg[p].body = "FAULT"
                     THEN faults \cup {deliver_msg[p].source} ELSE faults
        /\ UNCHANGED <<pst, sendto, send_msg>>
    BY <1>7 DEF DeliverMsg
  <2>2. CASE p # MM
    <3>1. Holding(MM) => Holding(MM)' /\ deliver_msg'[MM] = deliver_msg[MM]
      BY <1>0, <2>1, <2>2 DEF TypeOK, Holding
    <3> QED
      BY <2>1, <2>2, <3>1 DEF FaultNext, ReportKept, Faulted, Sending
  <2>3. CASE p = MM
    <3>1. deliver_msg[MM] = Msg(q, "FAULT") => q \in faults'
      BY <2>1, <2>3 DEF Msg
    <3>2. q \in faults => q \in faults'
      BY <2>1
    <3>3. Report(q) => Report(q)'
      BY <2>1, <3>1, <3>2 DEF Report, Sending
    <3> QED
      BY <2>1, <3>3 DEF FaultNext, Faulted, Sending
  <2> QED
    BY <2>2, <2>3
<1>8. ASSUME NEW p \in Faulters, PageFault(p)
      PROVE  FaultNext(q) /\ ~Sending(MM)'
  <2>0. p \in Procs /\ p # MM /\ InUser(p)
    BY <1>8, ConstantsAssumption DEF PageFault
  <2>1. ~deadlock(p, MM)
    <3>1. {MM} \in SUBSET Procs /\ MM \in {MM} /\ ClosedUnderSending({MM}) /\ p \notin {MM}
      BY <1>0, <2>0 DEF ClosedUnderSending
    <3> QED
      BY <3>1 DEF deadlock
  <2>2. CASE /\ Waiting(MM, p)
             /\ deliver_msg' = [deliver_msg EXCEPT ![MM] = Msg(p, "FAULT")]
             /\ pf' = [pf EXCEPT ![MM] = Handed(@)]
             /\ pst' = [pst EXCEPT ![MM] = @ \ {"RECEIVING"},
                                   ![p] = @ \cup {"PAGEFAULT"}]
             /\ UNCHANGED <<ipcVars, faults>>
    <3>1. deliver_msg'[MM] = Msg(p, "FAULT") /\ Holding(MM)' /\ ~Sending(MM)'
      BY <1>0, <2>0, <2>2 DEF Handed, TypeOK, Holding, Sending
    <3>2. ~Holding(MM)
      BY <1>0, <2>2 DEF SlotInv, Waiting, Receiving
    <3>3. CASE q = p
      BY <3>1, <3>3 DEF FaultNext, Report
    <3>4. CASE q # p
      <4>1. (Faulted(q)' <=> Faulted(q)) /\ (Sending(q)' <=> Sending(q))
        BY <1>0, <2>0, <2>2, <3>4 DEF TypeOK, Faulted, Sending
      <4> QED
        BY <2>2, <3>1, <3>2, <4>1 DEF FaultNext, ReportKept, ipcVars
    <3> QED
      BY <3>3, <3>4
  <2>3. CASE SendBlock(p, MM, Msg(p, "FAULT"), {"PAGEFAULT"})
    <3>1. /\ UNCHANGED <<pf, deliver_msg, faults>>
          /\ pst' = [pst EXCEPT ![p] = @ \cup {"SENDING"} \cup {"PAGEFAULT"}]
          /\ sendto' = [sendto EXCEPT ![p] = MM]
          /\ send_msg' = [send_msg EXCEPT ![p] = Msg(p, "FAULT")]
      BY <2>3 DEF SendBlock
    <3>2. ~Sending(MM)'
      BY <1>0, <2>0, <3>1 DEF TypeOK, Sending
    <3>3. CASE q = p
      <4>1. Sending(p)' /\ sendto'[p] = MM /\ send_msg'[p] = Msg(p, "FAULT")
        BY <2>0, <3>1 DEF TypeOK, Sending
      <4> QED
        BY <3>2, <3>3, <4>1 DEF FaultNext, Report
    <3>4. CASE q # p
      <4>1. /\ Faulted(q)' <=> Faulted(q)
            /\ Sending(q)' <=> Sending(q)
            /\ sendto'[q] = sendto[q] /\ send_msg'[q] = send_msg[q]
        BY <2>0, <3>1, <3>4 DEF TypeOK, Faulted, Sending
      <4> QED
        BY <3>1, <3>2, <4>1 DEF FaultNext, ReportKept, Holding
    <3> QED
      BY <3>3, <3>4
  <2> QED
    BY <1>8, <2>1, <2>2, <2>3 DEF PageFault
<1>9. ASSUME NEW p \in Procs, DeliverFault(p) \/ PstSet(p) \/ PstUnset(p)
      PROVE  FaultNext(q) /\ ~Sending(MM)'
  <2>1. CASE DeliverFault(p)
    <3>1. /\ (Faulted(q)' <=> Faulted(q)) /\ (Sending(q)' <=> Sending(q)) /\ ~Sending(MM)'
          /\ Holding(MM)' <=> Holding(MM)
      BY <1>0, <2>1 DEF DeliverFault, TypeOK, Faulted, Sending, Holding
    <3> QED
      BY <2>1, <3>1 DEF DeliverFault, FaultNext, ReportKept, ipcVars
  <2>2. CASE PstSet(p)
    <3>1. (Faulted(q)' <=> Faulted(q)) /\ (Sending(q)' <=> Sending(q)) /\ ~Sending(MM)'
      BY <1>0, <2>2 DEF PstSet, TypeOK, Faulted, Sending
    <3> QED
      BY <1>s, <2>2, <3>1 DEF PstSet, ipcVars
  <2>3. CASE PstUnset(p)
    <3>1. (Faulted(q)' <=> Faulted(q)) /\ (Sending(q)' <=> Sending(q)) /\ ~Sending(MM)'
      BY <1>0, <2>3 DEF PstUnset, TypeOK, Faulted, Sending
    <3> QED
      BY <1>s, <2>3, <3>1 DEF PstUnset, ipcVars
  <2> QED
    BY <1>9, <2>1, <2>2, <2>3
<1>10. ASSUME NEW p \in Procs, FaultHandled(p)
       PROVE  FaultNext(q) /\ ~Sending(MM)'
  <2>1. /\ faults' = faults \ {p} /\ pst' = [pst EXCEPT ![p] = @ \ {"PAGEFAULT"}]
        /\ UNCHANGED <<pf, sendto, send_msg, deliver_msg>>
    BY <1>10 DEF FaultHandled, ipcVars
  <2>2. (Faulted(q)' => Faulted(q)) /\ (Sending(q)' <=> Sending(q)) /\ ~Sending(MM)'
    BY <1>0, <2>1 DEF TypeOK, Faulted, Sending
  <2>3. CASE q = p
    BY <2>1, <2>2, <2>3 DEF FaultNext, TypeOK, Faulted
  <2>4. CASE q # p
    BY <2>1, <2>2, <2>4 DEF FaultNext, ReportKept, Holding
  <2> QED
    BY <2>3, <2>4
<1>11. CASE UNCHANGED vars
  BY <1>11, <1>s DEF vars, Faulted, Sending
<1> QED
  <2>1. ASSUME NEW p \in Procs, NEW d \in Procs, Notify(p, d)
        PROVE  FaultNext(q) /\ ~Sending(MM)'
    BY <1>5, <2>1, ProcIds DEF Notify
  <2>2. ASSUME NEW d \in Procs, NEW i \in Ints, Interrupt(d, i)
        PROVE  FaultNext(q) /\ ~Sending(MM)'
    <3>1. INTERRUPT \in Sources
      BY TypesAssumption DEF INTERRUPT, Sources
    <3> QED
      BY <1>5, <2>2, <3>1 DEF Interrupt
  <2> QED
    BY <1>1, <1>2, <1>3, <1>4, <1>6, <1>7, <1>8, <1>9, <1>10, <1>11, <2>1, <2>2,
       ConstantsAssumption DEF Next

\* The page fault of a process is known to MM, or its report is queued at MM
\* or handed to it, until sys_vmctl() clears it; provided that MM does not
\* block in sends of its own.
THEOREM FaultsReported == Spec => []FaultReported
<1>1. Init => FaultInv
  BY ConstantsAssumption DEF Init, FaultInv, Sending, Faulted
<1>2. ASSUME TypeOK, QueueExact, SlotInv, FaultInv, [Next]_vars
      PROVE  FaultInv'
  <2> SUFFICES ASSUME MM \notin BlockSenders
               PROVE  ~Sending(MM)' /\ \A q \in Procs : Faulted(q)' => Report(q)'
    BY DEF FaultInv
  <2>1. ~Sending(MM) /\ MM \in Procs /\ QueueInv
    BY <1>2, ConstantsAssumption DEF FaultInv, QueueExact, QueueInv
  <2>2. \A q \in Procs : FaultNext(q) /\ ~Sending(MM)'
    BY <1>2, <2>1, FaultStep
  <2>3. ASSUME NEW q \in Procs, Faulted(q)'
        PROVE  Report(q)'
    <3>1. FaultNext(q) /\ (Faulted(q) => Report(q))
      BY <1>2, <2>2 DEF FaultInv
    <3>2. CASE ReportKept(q)
      BY <2>3, <3>1, <3>2 DEF ReportKept, Report
    <3> QED
      BY <2>3, <3>1, <3>2 DEF FaultNext
  <2> QED
    BY <2>1, <2>2, <2>3
<1>3. FaultInv => FaultReported
  BY DEF FaultInv, FaultReported, Faulted, Report, Holding
<1> QED
  BY <1>1, <1>2, <1>3, TypeCorrect, QueuesExact, SlotInvariant, PTL DEF Spec
=============================================================================
