--------------------------- MODULE KernelIPCService ---------------------------
(***************************************************************************)
(* KernelIPC implements IPCService: the message of a blocked sender is     *)
(* parked, a process with PF_DELIVER_MSG set has its message in its inbox. *)
(* A sender whose message could not be read has nothing parked.            *)
(***************************************************************************)
EXTENDS KernelIPC

Parked(p) == IF send_msg[p] # NoMsg THEN [to |-> sendto[p], msg |-> send_msg[p]]
             ELSE [to |-> NO_TASK, msg |-> NoMsg]
Inbox(p) == IF "DELIVER_MSG" \in pf[p] THEN deliver_msg[p] ELSE NoMsg

Service == INSTANCE IPCService WITH
  parked <- [p \in Procs |-> Parked(p)],
  log <- async_table,
  bell <- notify_pending,
  raised <- int_pending,
  inbox <- [p \in Procs |-> Inbox(p)]

\* No message is lost, duplicated, changed or given to another process by
\* msg_send(), msg_receive(), msg_notify(), msg_senda() and deliver_msg().
ServiceSpec == Service!Spec
=============================================================================
