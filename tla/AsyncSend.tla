------------------------------- MODULE AsyncSend -------------------------------
(***************************************************************************)
(* Asynchronous messages from one sender: the table of slots that          *)
(* asyncsend3() fills in the memory of the sender, and the kernel that     *)
(* reads it when it is told to (msg_senda()) and whenever a destination    *)
(* receives (receive_async_from()).  The sender may be preempted between   *)
(* any two of its stores.                                                  *)
(***************************************************************************)
EXTENDS Naturals, Sequences, SequencesExt, FiniteSetsExt

CONSTANTS Dests, Ids, NONE,
          ASYNC_SIZE,   \* slots of the table
          Mortal,       \* the destinations that may be destroyed
          Preempted     \* destinations run while a slot is being filled

\* a message, with the destination that the sender means it for
Message == [to : Dests, id : Ids]

VARIABLES
  async_msg,               \* the slots, from 0
  first_slot, next_slot,
  async_table, async_len,  \* what the kernel knows of the table
  async_pending,           \* destinations with the sender's async_pending bit
  receiving,               \* destinations blocked in RECEIVE_ASYNC
  alive,
  pc, m,                   \* where the sender is, and what it sends
  got                      \* the message that a destination took last

sender == <<first_slot, next_slot, pc, m>>
kernel == <<async_table, async_len, async_pending, receiving, alive, got>>
vars == <<async_msg, sender, kernel>>

Slots == 0 .. ASYNC_SIZE - 1
NoMessage == [to |-> CHOOSE d \in Dests : TRUE, id |-> CHOOSE i \in Ids : TRUE]

Init ==
  /\ async_msg = [i \in Slots |-> [flags |-> {}, msg |-> NoMessage, dest |-> NoMessage.to]]
  /\ first_slot = 0 /\ next_slot = 0
  /\ async_table = 0 /\ async_len = 0 /\ async_pending = {}
  /\ receiving = {} /\ alive = Dests
  /\ pc = "idle" /\ m = NoMessage
  /\ got = [d \in Dests |-> NONE]

\* a slot whose message is still to be delivered
Undone(i) == async_msg[i].flags = {"USED"}

-----------------------------------------------------------------------------
(* The library *)

\* mutant: the first slot in use is skipped with those before it
InUse_Skip == {i \in first_slot + 1 .. next_slot - 1 : Undone(i)}

\* the slots in use
InUse == {i \in first_slot .. next_slot - 1 : Undone(i)}

\* the clean-up of a full table: the slots in use move to its start
Compacted ==
  LET used == SetToSortSeq(InUse, <)
  IN [i \in Slots |-> IF i < Len(used) THEN async_msg[used[i + 1]]
                                       ELSE [async_msg[i] EXCEPT !.flags = {}]]

\* asyncsend3() up to its first store: a slot for message n is found
asyncsend3(n) ==
  /\ pc = "idle"
  /\ \A i \in InUse : async_msg[i].msg.id # n.id
  /\ m' = n
  /\ IF InUse = {}
     THEN /\ first_slot' = 0 /\ next_slot' = 0 /\ pc' = "flags"
          /\ UNCHANGED <<async_msg, async_table, async_len>>
     ELSE IF next_slot < ASYNC_SIZE
     THEN /\ first_slot' = Min(InUse) /\ pc' = "flags"
          /\ UNCHANGED <<async_msg, next_slot, async_table, async_len>>
     ELSE /\ async_table' = 0 /\ async_len' = 0
          /\ async_msg' = Compacted
          /\ first_slot' = 0 /\ next_slot' = Cardinality(InUse)
          /\ pc' = IF Cardinality(InUse) >= ASYNC_SIZE THEN "panic" ELSE "flags"
  /\ UNCHANGED <<async_pending, receiving, alive, got>>

\* the three stores that fill the slot
Store(at, field, value, to) ==
  /\ pc = at /\ pc' = to
  /\ async_msg' = [async_msg EXCEPT ![next_slot] =
                     [k \in DOMAIN @ |-> IF k = field THEN value ELSE @[k]]]
  /\ UNCHANGED <<first_slot, next_slot, m, kernel>>

Fill == \/ Store("flags", "flags", {"USED"}, "msg")
        \/ Store("msg", "msg", m, "dest")
        \/ Store("dest", "dest", m.to, "send")

-----------------------------------------------------------------------------
(* The kernel *)

\* the slots it would look at
Known == {i \in async_table .. async_table + async_len - 1 : Undone(i)}

FirstFor(d, s) == Min({i \in s : async_msg[i].dest = d})

Done(s) == [i \in Slots |-> IF i \in s THEN [async_msg[i] EXCEPT !.flags = @ \cup {"DONE"}]
                                       ELSE async_msg[i]]

\* the destinations that have to look for their messages themselves
MarkPending(rest) == async_pending \cup {async_msg[i].dest : i \in rest}

\* the length that the library tells the kernel
TableLen == next_slot + 1 - first_slot

\* send_async() with msg_senda(): those that wait get a message, one each; the
\* messages of those that are gone are done with
msg_senda ==
  /\ pc = "send" /\ pc' = "idle"
  /\ next_slot' = next_slot + 1
  /\ LET table == {i \in first_slot .. next_slot : Undone(i)}
         gone == {i \in table : async_msg[i].dest \notin alive}
         ready == {d \in receiving \cap alive :
                     \E i \in table : async_msg[i].dest = d}
         given == {FirstFor(d, table) : d \in ready}
         rest == table \ (gone \cup given)
     IN /\ got' = [d \in Dests |-> IF d \in ready THEN async_msg[FirstFor(d, table)].msg
                                                  ELSE got[d]]
        /\ receiving' = receiving \ ready
        /\ async_pending' = MarkPending(rest)
        /\ async_msg' = Done(gone \cup given)
        /\ IF rest = {} THEN async_table' = 0 /\ async_len' = 0
           ELSE async_table' = first_slot /\ async_len' = TableLen
  /\ m' = NoMessage
  /\ UNCHANGED <<first_slot, alive>>

Runs(d) == d \in alive /\ d \notin receiving /\ (Preempted \/ pc \in {"idle", "panic"})

\* the table is looked at again: there was a message in it
Rescan(found) == found \/ Known # {}

\* msg_receive() with receive_async_from(): the bit, then the table, then block
Receive(d) ==
  /\ Runs(d)
  /\ LET mine == IF d \in async_pending THEN {i \in Known : async_msg[i].dest = d} ELSE {}
         again == Rescan(mine # {})
     IN /\ IF mine = {}
           THEN receiving' = receiving \cup {d} /\ UNCHANGED <<async_msg, got>>
           ELSE /\ got' = [got EXCEPT ![d] = async_msg[FirstFor(d, mine)].msg]
                /\ async_msg' = Done({FirstFor(d, mine)})
                /\ UNCHANGED receiving
        /\ IF d \notin async_pending \/ again
           THEN UNCHANGED <<async_table, async_len, async_pending>>
           ELSE /\ async_table' = 0 /\ async_len' = 0
                /\ async_pending' = async_pending \ {d}
  /\ UNCHANGED <<sender, alive>>

\* a message of another kind reaches a waiting destination (see KernelIPC)
OtherMessage(d) ==
  /\ d \in receiving /\ (Preempted \/ pc \in {"idle", "panic"})
  /\ receiving' = receiving \ {d}
  /\ UNCHANGED <<async_msg, sender, async_table, async_len, async_pending, alive, got>>

\* the destination is destroyed
Die(d) ==
  /\ d \in Mortal \cap alive /\ (Preempted \/ pc \in {"idle", "panic"})
  /\ alive' = alive \ {d} /\ receiving' = receiving \ {d}
  /\ UNCHANGED <<async_msg, sender, async_table, async_len, async_pending, got>>

Next ==
  \/ \E n \in Message : asyncsend3(n)
  \/ Fill
  \/ msg_senda
  \/ \E d \in Dests : Receive(d) \/ OtherMessage(d) \/ Die(d)

Spec == Init /\ [][Next]_vars

\* The sender gets on with what it began.
SenderRuns == Fill \/ msg_senda

-----------------------------------------------------------------------------
(* Properties *)

\* Every variable holds what the C variables can hold, and the table that the
\* kernel knows lies inside the array.
TypeOK ==
  /\ async_msg \in [Slots -> [flags : SUBSET {"USED", "DONE"}, msg : Message, dest : Dests]]
  /\ first_slot \in 0 .. next_slot /\ next_slot \in 0 .. ASYNC_SIZE
  /\ async_table \in Nat /\ async_len \in Nat /\ async_table + async_len <= ASYNC_SIZE
  /\ async_pending \subseteq Dests /\ receiving \subseteq alive /\ alive \subseteq Dests
  /\ pc \in {"idle", "flags", "msg", "dest", "send", "panic"} /\ m \in Message
  /\ got \in [Dests -> Message \cup {NONE}]

\* the slots of messages that the sender has handed over
Outstanding == {i \in first_slot .. next_slot - 1 : Undone(i)}

\* A message that the sender has handed over is in the table the kernel knows,
\* its destination has the bit set, and does not wait for it in vain.
NotMissed ==
  pc = "idle" =>
    \A i \in Outstanding : async_msg[i].dest \in alive =>
      i \in Known /\ async_msg[i].dest \in async_pending \ receiving

\* the undelivered messages of d, in the order of the table; the one that is
\* being sent counts from the moment the kernel is told
Queued(d) ==
  LET mine == {i \in Outstanding : async_msg[i].dest = d}
  IN [k \in 1 .. Cardinality(mine) |-> async_msg[SetToSortSeq(mine, <)[k]].msg]

Queue == INSTANCE AsyncQueue WITH queue <- [d \in Dests |-> IF d \in alive THEN Queued(d) ELSE <<>>]

\* Whatever the order in which slots are filled, read, compacted and reused,
\* every destination takes its messages in the order of the calls, each once.
QueueSpec == Queue!Spec

\* Message n is in the table and somebody could still take it.
Undelivered(n) ==
  n.to \in alive /\ pc # "panic" /\ \E i \in Outstanding : async_msg[i].msg = n
=============================================================================
