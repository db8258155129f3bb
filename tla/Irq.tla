-------------------------------- MODULE Irq ---------------------------------
(***************************************************************************)
(* Interrupt lines and the drivers outside the kernel (interrupt.c,        *)
(* sys_irqctl.c).  Drivers hook lines, which they may share.  An interrupt *)
(* masks its line and notifies the drivers of all its hooks; the line is   *)
(* unmasked when each has said that it may be, by irq_enable() or by its   *)
(* policy.  A hook belongs to one or more devices of one driver.           *)
(***************************************************************************)
EXTENDS FiniteSets, Sequences, SequencesExt

CONSTANTS
  Lines, Edge,      \* lines; those that are triggered by an edge
  Hooks, LineOf, DriverOf,
  Reenable,         \* hooks with the policy IRQ_REENABLE
  Devices, HookOf,
  MayStop           \* hooks that their driver may disable for good

ASSUME HooksAssumption ==
  /\ Edge \subseteq Lines /\ LineOf \in [Hooks -> Lines] /\ HookOf \in [Devices -> Hooks]

\* A line that is triggered by an edge has one hook.  The kernel does not ask for
\* it; the edge lines are those of the legacy devices, each with its driver.
ASSUME EdgeAssumption ==
  \A g, h \in Hooks : LineOf[g] = LineOf[h] /\ LineOf[g] \in Edge => g = h

VARIABLES
  handler,      \* the chain of hooks of a line
  active_ids,   \* of a line: the hooks that have not enabled it
  masked,       \* lines
  latch,        \* edge lines that have an interrupt to deliver
  asserted,     \* devices that want to be served
  int_pending,  \* of a driver: hooks
  hook          \* of a hook: what its driver does about it

vars == <<handler, active_ids, masked, latch, asserted, int_pending, hook>>

Drivers == {DriverOf[h] : h \in Hooks}
LineOfDevice(d) == LineOf[HookOf[d]]

Init ==
  /\ handler = [l \in Lines |-> <<>>] /\ active_ids = [l \in Lines |-> {}]
  /\ masked = Lines /\ latch = {} /\ asserted = {}
  /\ int_pending = [p \in Drivers |-> {}]
  /\ hook = [h \in Hooks |-> "none"]

-----------------------------------------------------------------------------
(* devices *)

Raise(d) ==
  /\ d \notin asserted /\ asserted' = asserted \cup {d}
  /\ latch' = IF LineOfDevice(d) \in Edge THEN latch \cup {LineOfDevice(d)} ELSE latch
  /\ UNCHANGED <<handler, active_ids, masked, int_pending, hook>>

Wanted(l) ==
  IF l \in Edge THEN l \in latch ELSE \E d \in asserted : LineOfDevice(d) = l

-----------------------------------------------------------------------------
(* the kernel *)

unmask_irq(l) == masked' = masked \ {l}

\* mutant: the policy is applied before the driver is notified
handle_simple_irq_Policy(l) ==
  LET called == ToSet(handler[l])
      active == (active_ids[l] \cup called) \ (called \cap Reenable) IN
  /\ Wanted(l) /\ l \notin masked
  /\ latch' = latch \ {l}
  /\ int_pending' = [p \in Drivers |->
       int_pending[p] \cup {h \in called \ Reenable : DriverOf[h] = p}]
  /\ active_ids' = [active_ids EXCEPT ![l] = active]
  /\ masked' = IF active = {} THEN masked ELSE masked \cup {l}
  /\ UNCHANGED <<handler, asserted, hook>>

\* handle_simple_irq() with generic_irq_handler() of every hook of the line
handle_simple_irq(l) ==
  LET called == ToSet(handler[l])
      active == (active_ids[l] \cup called) \ (called \cap Reenable) IN
  /\ Wanted(l) /\ l \notin masked
  /\ latch' = latch \ {l}
  /\ int_pending' = [p \in Drivers |-> int_pending[p] \cup {h \in called : DriverOf[h] = p}]
  /\ active_ids' = [active_ids EXCEPT ![l] = active]
  /\ masked' = IF active = {} THEN masked ELSE masked \cup {l}
  /\ UNCHANGED <<handler, asserted, hook>>

\* sys_irqctl(IRQ_SETPOLICY): put_irq_handler() puts the hook at the end of the
\* chain, and unmasks the line unless another hook has it masked
irq_setpolicy(h) ==
  LET l == LineOf[h] IN
  /\ hook[h] = "none"
  /\ handler' = [handler EXCEPT ![l] = Append(@, h)]
  /\ active_ids' = [active_ids EXCEPT ![l] = @ \ {h}]
  /\ IF active_ids[l] \ {h} = {} THEN unmask_irq(l) ELSE UNCHANGED masked
  /\ hook' = [hook EXCEPT ![h] = "served"]
  /\ UNCHANGED <<latch, asserted, int_pending>>

\* mutant: the line is unmasked although another hook has not enabled it
irq_enable_Always(h) ==
  LET l == LineOf[h] IN
  /\ hook[h] = "served"
  /\ active_ids' = [active_ids EXCEPT ![l] = @ \ {h}]
  /\ unmask_irq(l)
  /\ hook' = [hook EXCEPT ![h] = "idle"]
  /\ UNCHANGED <<handler, latch, asserted, int_pending>>

\* sys_irqctl(IRQ_ENABLE), when a hook was set and after each interrupt
irq_enable(h) ==
  LET l == LineOf[h] IN
  /\ hook[h] = "served"
  /\ active_ids' = [active_ids EXCEPT ![l] = @ \ {h}]
  /\ IF active_ids[l] \ {h} = {} THEN unmask_irq(l) ELSE UNCHANGED masked
  /\ hook' = [hook EXCEPT ![h] = "idle"]
  /\ UNCHANGED <<handler, latch, asserted, int_pending>>

\* sys_irqctl(IRQ_DISABLE), when a driver gives a device up.  There is no call
\* that takes a hook out of its chain.
irq_disable(h) ==
  LET l == LineOf[h] IN
  /\ h \in MayStop /\ hook[h] = "idle"
  /\ IF h \in active_ids[l]
     THEN UNCHANGED <<active_ids, masked>>
     ELSE active_ids' = [active_ids EXCEPT ![l] = @ \cup {h}] /\ masked' = masked \cup {l}
  /\ hook' = [hook EXCEPT ![h] = "off"]
  /\ UNCHANGED <<handler, latch, asserted, int_pending>>

-----------------------------------------------------------------------------
(* drivers *)

\* A driver receives its notification, with the hooks that are pending.  It
\* has set the hooks that it handles.
Receive(p) ==
  /\ int_pending[p] # {} /\ \A h \in Hooks : DriverOf[h] = p => hook[h] \in {"idle", "off"}
  /\ int_pending' = [int_pending EXCEPT ![p] = {}]
  /\ hook' = [h \in Hooks |-> IF h \in int_pending[p] /\ hook[h] = "idle" THEN "todo" ELSE hook[h]]
  /\ UNCHANGED <<handler, active_ids, masked, latch, asserted>>

\* It serves the devices of a hook, which may not have wanted it, and then
\* enables the line if its policy does not
Serve(h) ==
  /\ hook[h] = "todo"
  /\ asserted' = {d \in asserted : HookOf[d] # h}
  /\ hook' = [hook EXCEPT ![h] = IF h \in Reenable THEN "idle" ELSE "served"]
  /\ UNCHANGED <<handler, active_ids, masked, latch, int_pending>>

-----------------------------------------------------------------------------
Driver(p) ==
  Receive(p) \/ \E h \in Hooks : DriverOf[h] = p /\ (irq_setpolicy(h) \/ Serve(h) \/ irq_enable(h))

Next ==
  \/ \E d \in Devices : Raise(d)
  \/ \E l \in Lines : handle_simple_irq(l)
  \/ \E p \in Drivers : Driver(p)
  \/ \E h \in Hooks : irq_disable(h)

Spec == Init /\ [][Next]_vars

-----------------------------------------------------------------------------
(* properties *)

\* A line is masked exactly while a hook of it has not enabled it, and each
\* such hook will, since its driver is told of the interrupt or at work on it;
\* so a driver never leaves the line of another masked, except by
\* irq_disable().
MasksExact ==
  \A l \in Lines :
    /\ handler[l] # <<>> => (l \in masked <=> active_ids[l] # {})
    /\ \A h \in active_ids[l] :
         h \in int_pending[DriverOf[h]] \/ hook[h] \in {"todo", "served", "off"}

\* A device that wants to be served gets its interrupt: its hook is pending or
\* being served, or the line will interrupt once it is not masked, although
\* the interrupt of one device is shared by others, and devices raise theirs
\* while drivers work and before they have hooked the line.  Only the driver
\* that has called irq_disable() for it does not hear of it.
NoInterruptLost ==
  \A d \in asserted :
    LET h == HookOf[d] IN
    h \in int_pending[DriverOf[h]] \/ hook[h] \in {"todo", "off"} \/ Wanted(LineOf[h])
=============================================================================
