------------------------------- MODULE IPCTypes -------------------------------
(* Processes and messages, shared by the IPC specifications. *)
EXTENDS Integers, Sequences

CONSTANTS
  N,       \* processes with a privilege structure of their own: 1 .. N
  Bodies,  \* message contents
  Ints     \* the notify ids of the interrupt hooks

Procs == 1 .. N
INTERRUPT == 0   \* the kernel task that notifies of interrupts: lowest priv id
Sources == 0 .. N
ANY == -1
NO_TASK == -2

ASSUME TypesAssumption ==
  /\ N \in Nat
  /\ Bodies \cap {"NOTIFY_MSG", "FAULT", "NONE"} = {}

Message == [source : Sources \cup {NO_TASK},
            body : Bodies \cup {"NOTIFY_MSG", "FAULT", "NONE"},
            ints : SUBSET Ints]
Msg(s, b) == [source |-> s, body |-> b, ints |-> {}]
NoMsg == Msg(NO_TASK, "NONE")   \* what reset_msg() leaves

\* set_notify_msg(): a notification from s; the interrupts go with INTERRUPT's
NotifyMsg(s, ints) ==
  [source |-> s, body |-> "NOTIFY_MSG",
   ints |-> IF s = INTERRUPT THEN ints ELSE {}]
=============================================================================
