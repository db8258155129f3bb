-------------------------------- MODULE MCIpc --------------------------------
(***************************************************************************)
(* Kernel message passing on small instances.  Which processes use which   *)
(* calls is fixed for a behaviour by its setting: the constants of the     *)
(* configuration (clients, a server that is MM, interrupts, page faults    *)
(* and buffers that cannot be copied), asynchronous senders, processes     *)
(* that all send to each other, or one sender of each kind.                *)
(***************************************************************************)
EXTENDS KernelIPCService, FiniteSets

VARIABLE setting

mcVars == <<setting, vars>>

Async == INSTANCE KernelIPC WITH
  BlockSenders <- {1}, NbSenders <- {}, AsyncSenders <- {1, 2}, Notifiers <- {},
  Faulters <- {}, Servers <- {2, 3}, Inhibited <- {}, BadSend <- {}, BadRecv <- {},
  Ints <- {}
Cycle == INSTANCE KernelIPC WITH
  BlockSenders <- {1, 2, 3}, NbSenders <- {}, AsyncSenders <- {}, Notifiers <- {},
  Faulters <- {}, Servers <- {1, 2, 3}, Inhibited <- {}, BadSend <- {}, BadRecv <- {},
  Ints <- {}
Mixed == INSTANCE KernelIPC WITH
  BlockSenders <- {1}, NbSenders <- {}, AsyncSenders <- {2}, Notifiers <- {1, 3},
  Faulters <- {}, Servers <- {1, 2, 3}, Inhibited <- {}, BadSend <- {}, BadRecv <- {},
  Ints <- {}

IpcInit ==
  \/ setting = "sync" /\ Init
  \/ setting = "async" /\ Async!Init
  \/ setting = "cycle" /\ Cycle!Init
  \/ setting = "mixed" /\ Mixed!Init

SyncStep == setting = "sync" /\ Next /\ UNCHANGED setting
AsyncStep == setting = "async" /\ Async!Next /\ UNCHANGED setting
CycleStep == setting = "cycle" /\ Cycle!Next /\ UNCHANGED setting
MixedStep == setting = "mixed" /\ Mixed!Next /\ UNCHANGED setting

IpcNext ==
  \/ SyncStep
  \/ AsyncStep
  \/ CycleStep
  \/ MixedStep

IpcSpec == IpcInit /\ [][IpcNext]_mcVars

-----------------------------------------------------------------------------
(* A property besides those of KernelIPC *)

\* The walk of deadlock() step by step, as a reference for the operator.
Walk(src, dest) ==
  LET at[n \in 0 .. N] == IF n = 0 THEN dest
                          ELSE LET p == at[n - 1]
                               IN IF Sending(p) THEN sendto[p] ELSE p
  IN \E n \in 0 .. N : Sending(at[n]) /\ sendto[at[n]] = src

\* The loop of deadlock(), which follows sendto one process at a time, finds
\* exactly the chains of blocked senders that arrive at the caller.
DeadlockIsWalk ==
  \A p, d \in Procs : InUser(p) /\ p # d => (deadlock(p, d) <=> Walk(p, d))
=============================================================================
