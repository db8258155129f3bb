------------------------------ MODULE AsyncQueue ------------------------------
(***************************************************************************)
(* What asyncsend3() promises to a sender: for every destination a queue   *)
(* of messages, from which the destination takes them in order, each once. *)
(* The messages of a destination that is destroyed are dropped.            *)
(***************************************************************************)
EXTENDS Sequences

CONSTANTS Dests, Message, NONE

VARIABLES queue,   \* the messages sent and not yet taken, by destination
          alive,
          got      \* the message that a destination took last

vars == <<queue, alive, got>>

Init ==
  /\ queue = [d \in Dests |-> <<>>]
  /\ alive = Dests
  /\ got = [d \in Dests |-> NONE]

Send(d, m) ==
  /\ d \in alive
  /\ queue' = [queue EXCEPT ![d] = Append(@, m)]
  /\ UNCHANGED <<alive, got>>

Take(d) ==
  /\ queue[d] # <<>>
  /\ got' = [got EXCEPT ![d] = Head(queue[d])]
  /\ queue' = [queue EXCEPT ![d] = Tail(@)]
  /\ UNCHANGED alive

\* a message that finds its destination waiting for it
Pass(d, m) ==
  /\ d \in alive /\ queue[d] = <<>>
  /\ got' = [got EXCEPT ![d] = m]
  /\ UNCHANGED <<queue, alive>>

Die(d) ==
  /\ alive' = alive \ {d}
  /\ queue' = [queue EXCEPT ![d] = <<>>]
  /\ UNCHANGED got

Next == \E d \in Dests : \/ \E m \in Message : Send(d, m) \/ Pass(d, m)
                         \/ Take(d)
                         \/ Die(d)

Spec == Init /\ [][Next]_vars
=============================================================================
