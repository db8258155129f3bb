------------------------------ MODULE IrqProofs ------------------------------
(***************************************************************************)
(* Theorems about Irq, for any number of lines, hooks, drivers and devices *)
(* and any choice of policies.                                             *)
(***************************************************************************)
EXTENDS Irq, SequenceTheorems, TLAPS

-----------------------------------------------------------------------------
(* The chain of a line, through the hooks it holds *)

Chain(l) == ToSet(handler[l])

LEMMA AppendSet ==
  ASSUME NEW S, NEW q \in Seq(S), NEW x \in S
  PROVE  ToSet(Append(q, x)) = ToSet(q) \cup {x}
<1>1. /\ Append(q, x) \in Seq(S) /\ Len(Append(q, x)) = Len(q) + 1 /\ Len(q) \in Nat
      /\ Append(q, x)[Len(q) + 1] = x
      /\ \A i \in 1 .. Len(q) : Append(q, x)[i] = q[i]
  BY AppendProperties, LenProperties
<1>2. DOMAIN Append(q, x) = 1 .. Len(q) + 1 /\ DOMAIN q = 1 .. Len(q)
  BY <1>1, LenProperties
<1>3. \A i : i \in 1 .. Len(q) + 1 <=> i \in 1 .. Len(q) \/ i = Len(q) + 1
  BY <1>1
<1>4. \A y : y \in ToSet(Append(q, x)) <=> y \in ToSet(q) \cup {x}
  <2> DEFINE r == Append(q, x)
  <2> HIDE DEF r
  <2>1. /\ DOMAIN r = 1 .. Len(q) + 1 /\ r[Len(q) + 1] = x
        /\ \A i \in 1 .. Len(q) : r[i] = q[i]
    BY <1>1, <1>2 DEF r
  <2>2. \A y : y \in ToSet(r) <=> y \in ToSet(q) \cup {x}
    BY <1>2, <1>3, <2>1 DEF ToSet
  <2> QED
    BY <2>2 DEF r
<1> QED
  BY <1>4

LEMMA EmptySet == ASSUME NEW S, NEW q \in Seq(S) PROVE q = <<>> <=> ToSet(q) = {}
<1>1. DOMAIN q = 1 .. Len(q) /\ Len(q) \in Nat /\ (Len(q) = 0 <=> q = <<>>)
  BY LenProperties, EmptySeq
<1>2. ToSet(q) = {} <=> 1 .. Len(q) = {}
  BY <1>1 DEF ToSet
<1>3. 1 .. Len(q) = {} <=> Len(q) = 0
  <2>1. CASE Len(q) = 0
    BY <2>1
  <2>2. CASE Len(q) # 0
    <3>1. 1 \in 1 .. Len(q)
      BY <1>1, <2>2
    <3> QED
      BY <2>2, <3>1
  <2> QED
    BY <2>1, <2>2
<1> QED
  BY <1>1, <1>2, <1>3

-----------------------------------------------------------------------------
(* The inductive invariant *)

States == {"none", "idle", "todo", "served", "off"}

Types ==
  /\ handler \in [Lines -> Seq(Hooks)]
  /\ active_ids \in [Lines -> SUBSET Hooks]
  /\ int_pending \in [Drivers -> SUBSET Hooks]
  /\ hook \in [Hooks -> States]
  /\ masked \subseteq Lines /\ asserted \subseteq Devices

\* The chain of a line holds the hooks that were set for it; who is pending or
\* active is in the chain; a line without hooks is masked.
Chains ==
  /\ \A l \in Lines : Chain(l) = {h \in Hooks : LineOf[h] = l /\ hook[h] # "none"}
  /\ \A l \in Lines : active_ids[l] \subseteq Chain(l) /\ (Chain(l) = {} => l \in masked)
  /\ \A p \in Drivers : \A h \in int_pending[p] : DriverOf[h] = p /\ hook[h] # "none"

\* Who has not enabled the line will, and a hook with IRQ_REENABLE is active only
\* if it was disabled.
Masks ==
  /\ \A l \in Lines : Chain(l) # {} => (l \in masked <=> active_ids[l] # {})
  /\ \A l \in Lines : \A h \in active_ids[l] :
       /\ h \in int_pending[DriverOf[h]] \/ hook[h] \in {"todo", "served", "off"}
       /\ h \in Reenable => hook[h] = "off"

IrqInv == Types /\ Chains /\ Masks /\ NoInterruptLost

LEMMA HookTypes ==
  /\ \A h \in Hooks : LineOf[h] \in Lines /\ DriverOf[h] \in Drivers
  /\ \A d \in Devices : HookOf[d] \in Hooks
BY HooksAssumption DEF Drivers

\* No interrupt is lost by a step that leaves the latches alone, asserts
\* no device and keeps the hooks of those that stay asserted pending or to serve.
LEMMA LostSame ==
  ASSUME Types, NoInterruptLost, latch' = latch, asserted' \subseteq asserted,
         \A d \in asserted' : LET h == HookOf[d] IN
           h \in int_pending[DriverOf[h]] \/ hook[h] \in {"todo", "off"} =>
             h \in int_pending'[DriverOf[h]] \/ hook'[h] \in {"todo", "off"}
  PROVE  NoInterruptLost'
<1> SUFFICES ASSUME NEW d \in asserted', NEW h, h = HookOf[d]
             PROVE  \/ h \in int_pending'[DriverOf[h]] \/ hook'[h] \in {"todo", "off"}
                    \/ Wanted(LineOf[h])'
  BY DEF NoInterruptLost
<1>1. CASE Wanted(LineOf[h])
  BY <1>1 DEF Wanted, LineOfDevice
<1>2. CASE h \in int_pending[DriverOf[h]] \/ hook[h] \in {"todo", "off"}
  BY <1>2
<1> QED
  BY <1>1, <1>2 DEF NoInterruptLost

LEMMA RaiseStep ==
  ASSUME IrqInv, NEW d \in Devices, Raise(d)
  PROVE  IrqInv'
<1>1. /\ UNCHANGED <<handler, active_ids, masked, int_pending, hook>>
      /\ asserted' = asserted \cup {d} /\ d \in Devices
      /\ latch' = IF LineOfDevice(d) \in Edge THEN latch \cup {LineOfDevice(d)} ELSE latch
  BY DEF Raise
<1>2. Types' /\ Chains' /\ Masks'
  BY <1>1 DEF IrqInv, Types, Chains, Masks, Chain
<1>3. NoInterruptLost'
  BY <1>1 DEF IrqInv, NoInterruptLost, Wanted, LineOfDevice
<1> QED
  BY <1>2, <1>3 DEF IrqInv

LEMMA InterruptStep ==
  ASSUME IrqInv, NEW l \in Lines, handle_simple_irq(l)
  PROVE  IrqInv'
<1> DEFINE called == Chain(l)
           active == (active_ids[l] \cup called) \ (called \cap Reenable)
<1>1. /\ l \notin masked /\ latch' = latch \ {l}
      /\ int_pending' = [p \in Drivers |-> int_pending[p] \cup {h \in called : DriverOf[h] = p}]
      /\ active_ids' = [active_ids EXCEPT ![l] = active]
      /\ masked' = IF active = {} THEN masked ELSE masked \cup {l}
      /\ UNCHANGED <<handler, asserted, hook>>
  BY DEF handle_simple_irq, Chain
<1>2. /\ called \subseteq Hooks /\ called # {} /\ active_ids[l] = {}
      /\ \A h \in called : LineOf[h] = l /\ hook[h] # "none"
  BY <1>1 DEF IrqInv, Chains, Masks
<1>3. \A k \in Lines : Chain(k)' = Chain(k)
  BY <1>1 DEF Chain
<1>4. /\ active_ids'[l] = active /\ \A k \in Lines \ {l} : active_ids'[k] = active_ids[k]
      /\ \A p \in Drivers : int_pending'[p] = int_pending[p] \cup {h \in called : DriverOf[h] = p}
  BY <1>1 DEF IrqInv, Types
<1>5. active \subseteq called /\ active \cap Reenable = {}
  BY <1>2
<1> HIDE DEF called, active
<1>6. Types'
  BY <1>1, <1>2, <1>5 DEF IrqInv, Types
<1>7. Chains'
  BY <1>1, <1>2, <1>3, <1>4, <1>5 DEF IrqInv, Chains, called
<1>8. Masks'
  <2>1. \A k \in Lines : Chain(k) # {} => (k \in masked' <=> active_ids'[k] # {})
    BY <1>1, <1>4 DEF IrqInv, Masks
  <2>2. \A h \in active : h \in int_pending'[DriverOf[h]]
    BY <1>2, <1>4, <1>5, HookTypes
  <2>3. \A k \in Lines \ {l} : \A h \in active_ids[k] :
          /\ h \in int_pending'[DriverOf[h]] \/ hook[h] \in {"todo", "served", "off"}
          /\ h \in Reenable => hook[h] = "off"
    BY <1>4, HookTypes DEF IrqInv, Types, Masks
  <2> QED
    BY <1>1, <1>3, <1>4, <1>5, <2>1, <2>2, <2>3 DEF Masks
<1>9. NoInterruptLost'
  <2> SUFFICES ASSUME NEW d \in asserted, NEW h, h = HookOf[d]
               PROVE  (h \in int_pending[DriverOf[h]] \/ hook[h] \in {"todo", "off"}
                       \/ Wanted(LineOf[h]))'
    BY <1>1 DEF NoInterruptLost
  <2>1. h \in Hooks /\ d \in Devices
    BY HookTypes DEF IrqInv, Types
  <2>2. CASE LineOf[h] \notin Edge
    BY <1>1, <2>2 DEF Wanted, LineOfDevice
  <2>3. CASE LineOf[h] \in Edge /\ LineOf[h] # l
    BY <1>1, <1>4, <2>1, <2>3, HookTypes DEF IrqInv, NoInterruptLost, Wanted
  <2>4. CASE LineOf[h] \in Edge /\ LineOf[h] = l
    <3>1. h \in called
      BY <1>2, <2>1, <2>4, EdgeAssumption
    <3> QED
      BY <1>4, <2>1, <3>1, HookTypes
  <2> QED
    BY <2>2, <2>3, <2>4
<1> QED
  BY <1>6, <1>7, <1>8, <1>9 DEF IrqInv

LEMMA SetPolicyStep ==
  ASSUME IrqInv, NEW h \in Hooks, irq_setpolicy(h)
  PROVE  IrqInv'
<1> DEFINE l == LineOf[h]
<1>0. l \in Lines /\ hook[h] = "none"
  BY HookTypes DEF irq_setpolicy
<1>1. /\ handler' = [handler EXCEPT ![l] = Append(@, h)]
      /\ active_ids' = [active_ids EXCEPT ![l] = @ \ {h}]
      /\ masked' = IF active_ids[l] \ {h} = {} THEN masked \ {l} ELSE masked
      /\ hook' = [hook EXCEPT ![h] = "served"]
      /\ UNCHANGED <<latch, asserted, int_pending>>
  BY DEF irq_setpolicy, unmask_irq
<1>2. \A k \in Lines : h \notin Chain(k) /\ h \notin active_ids[k]
  BY <1>0 DEF IrqInv, Chains
<1>3. active_ids' = active_ids
  BY <1>0, <1>1, <1>2 DEF IrqInv, Types
<1>4. Chain(l)' = Chain(l) \cup {h} /\ \A k \in Lines \ {l} : Chain(k)' = Chain(k)
  BY <1>0, <1>1, AppendSet DEF IrqInv, Types, Chain
<1>5. hook'[h] = "served" /\ \A g \in Hooks \ {h} : hook'[g] = hook[g]
  BY <1>1 DEF IrqInv, Types
<1>6. masked' = IF active_ids[l] = {} THEN masked \ {l} ELSE masked
  BY <1>0, <1>1, <1>2
<1> HIDE DEF l
<1>7. Types'
  <2>1. handler' \in [Lines -> Seq(Hooks)]
    <3>1. Append(handler[l], h) \in Seq(Hooks)
      BY <1>0, AppendProperties DEF IrqInv, Types
    <3> QED
      BY <1>0, <1>1, <3>1 DEF IrqInv, Types
  <2>2. hook' \in [Hooks -> States]
    BY <1>1 DEF IrqInv, Types, States
  <2> QED
    BY <1>1, <1>3, <1>6, <2>1, <2>2 DEF IrqInv, Types
<1>8. Chains'
  <2>1. \A k \in Lines : Chain(k)' = {g \in Hooks : LineOf[g] = k /\ hook'[g] # "none"}
    <3>1. Chain(l)' = {g \in Hooks : LineOf[g] = l /\ hook'[g] # "none"}
      BY <1>0, <1>4, <1>5 DEF IrqInv, Chains, l
    <3>2. \A k \in Lines \ {l} : Chain(k)' = {g \in Hooks : LineOf[g] = k /\ hook'[g] # "none"}
      BY <1>0, <1>4, <1>5 DEF IrqInv, Chains, l
    <3> QED
      BY <3>1, <3>2
  <2>2. \A k \in Lines : active_ids'[k] \subseteq Chain(k)' /\ (Chain(k)' = {} => k \in masked')
    BY <1>0, <1>3, <1>4, <1>6 DEF IrqInv, Chains
  <2>3. \A p \in Drivers : \A g \in int_pending'[p] : DriverOf[g] = p /\ hook'[g] # "none"
    BY <1>1, <1>5 DEF IrqInv, Chains, Types
  <2> QED
    BY <2>1, <2>2, <2>3 DEF Chains
<1>9. Masks'
  <2>1. \A k \in Lines : Chain(k)' # {} => (k \in masked' <=> active_ids'[k] # {})
    <3>1. l \in masked' <=> active_ids'[l] # {}
      BY <1>0, <1>3, <1>6 DEF IrqInv, Chains, Masks
    <3> QED
      BY <1>3, <1>4, <1>6, <3>1 DEF IrqInv, Masks
  <2>2. \A k \in Lines : \A g \in active_ids[k] : g \in Hooks /\ g # h
    BY <1>2 DEF IrqInv, Types
  <2>3. \A k \in Lines : \A g \in active_ids'[k] :
          /\ g \in int_pending'[DriverOf[g]] \/ hook'[g] \in {"todo", "served", "off"}
          /\ g \in Reenable => hook'[g] = "off"
    BY <1>1, <1>3, <1>5, <2>2 DEF IrqInv, Masks
  <2> QED
    BY <2>1, <2>3 DEF Masks
<1>10. NoInterruptLost'
  BY <1>0, <1>1, <1>5, LostSame, HookTypes DEF IrqInv, Types
<1> QED
  BY <1>7, <1>8, <1>9, <1>10 DEF IrqInv

LEMMA EnableStep ==
  ASSUME IrqInv, NEW h \in Hooks, irq_enable(h)
  PROVE  IrqInv'
<1> DEFINE l == LineOf[h]
<1>0. l \in Lines /\ hook[h] = "served"
  BY HookTypes DEF irq_enable
<1>1. /\ active_ids' = [active_ids EXCEPT ![l] = @ \ {h}]
      /\ masked' = IF active_ids[l] \ {h} = {} THEN masked \ {l} ELSE masked
      /\ hook' = [hook EXCEPT ![h] = "idle"]
      /\ UNCHANGED <<handler, latch, asserted, int_pending>>
  BY DEF irq_enable, unmask_irq
<1>2. /\ active_ids'[l] = active_ids[l] \ {h}
      /\ \A k \in Lines \ {l} : active_ids'[k] = active_ids[k] /\ h \notin active_ids[k]
  BY <1>0, <1>1 DEF IrqInv, Types, Chains
<1>3. \A k \in Lines : Chain(k)' = Chain(k)
  BY <1>1 DEF Chain
<1>4. hook'[h] = "idle" /\ \A g \in Hooks \ {h} : hook'[g] = hook[g]
  BY <1>1 DEF IrqInv, Types
<1>5. h \in Chain(l)
  BY <1>0 DEF IrqInv, Chains
<1> HIDE DEF l
<1>6. Types'
  BY <1>1 DEF IrqInv, Types, States
<1>7. Chains'
  BY <1>0, <1>1, <1>2, <1>3, <1>4, <1>5 DEF IrqInv, Types, Chains
<1>8. Masks'
  <2>1. \A k \in Lines : Chain(k)' # {} => (k \in masked' <=> active_ids'[k] # {})
    <3>1. l \in masked' <=> active_ids'[l] # {}
      BY <1>0, <1>1, <1>2, <1>5 DEF IrqInv, Masks
    <3> QED
      BY <1>1, <1>2, <1>3, <3>1 DEF IrqInv, Masks
  <2>2. \A k \in Lines : \A g \in active_ids'[k] : g \in active_ids[k] /\ g \in Hooks /\ g # h
    BY <1>2 DEF IrqInv, Types
  <2>3. \A k \in Lines : \A g \in active_ids'[k] :
          /\ g \in int_pending'[DriverOf[g]] \/ hook'[g] \in {"todo", "served", "off"}
          /\ g \in Reenable => hook'[g] = "off"
    BY <1>1, <1>4, <2>2 DEF IrqInv, Masks
  <2> QED
    BY <2>1, <2>3 DEF Masks
<1>9. NoInterruptLost'
  BY <1>0, <1>1, <1>4, LostSame, HookTypes DEF IrqInv, Types
<1> QED
  BY <1>6, <1>7, <1>8, <1>9 DEF IrqInv

LEMMA DisableStep ==
  ASSUME IrqInv, NEW h \in Hooks, irq_disable(h)
  PROVE  IrqInv'
<1> DEFINE l == LineOf[h]
<1>0. l \in Lines /\ hook[h] = "idle"
  BY HookTypes DEF irq_disable
<1>1. /\ hook' = [hook EXCEPT ![h] = "off"]
      /\ UNCHANGED <<handler, latch, asserted, int_pending>>
      /\ h \in active_ids[l] => UNCHANGED <<active_ids, masked>>
      /\ h \notin active_ids[l] => /\ active_ids' = [active_ids EXCEPT ![l] = @ \cup {h}]
                                   /\ masked' = masked \cup {l}
  BY DEF irq_disable
<1>2. h \in Chain(l) /\ \A k \in Lines : Chain(k)' = Chain(k)
  BY <1>0, <1>1 DEF IrqInv, Chains, Chain
<1> HIDE DEF l
<1>3. /\ active_ids'[l] = active_ids[l] \cup {h}
      /\ \A k \in Lines \ {l} : active_ids'[k] = active_ids[k]
      /\ active_ids' \in [Lines -> SUBSET Hooks]
  <2>1. CASE h \in active_ids[l]
    BY <1>0, <1>1, <2>1 DEF IrqInv, Types
  <2>2. CASE h \notin active_ids[l]
    BY <1>0, <1>1, <2>2 DEF IrqInv, Types
  <2> QED
    BY <2>1, <2>2
<1>4. masked' = masked \cup {l}
  BY <1>0, <1>1, <1>2 DEF IrqInv, Masks
<1>5. hook'[h] = "off" /\ \A g \in Hooks \ {h} : hook'[g] = hook[g]
  BY <1>1 DEF IrqInv, Types
<1>6. Types'
  BY <1>0, <1>1, <1>3, <1>4 DEF IrqInv, Types, States
<1>7. Chains'
  BY <1>0, <1>1, <1>2, <1>3, <1>4, <1>5 DEF IrqInv, Types, Chains
<1>8. Masks'
  <2>1. \A k \in Lines : Chain(k)' # {} => (k \in masked' <=> active_ids'[k] # {})
    BY <1>2, <1>3, <1>4 DEF IrqInv, Masks
  <2>2. \A k \in Lines : \A g \in active_ids'[k] : g = h \/ (g \in active_ids[k] /\ g \in Hooks)
    BY <1>3 DEF IrqInv, Types
  <2>3. \A k \in Lines : \A g \in active_ids'[k] :
          /\ g \in int_pending'[DriverOf[g]] \/ hook'[g] \in {"todo", "served", "off"}
          /\ g \in Reenable => hook'[g] = "off"
    BY <1>1, <1>5, <2>2 DEF IrqInv, Masks
  <2> QED
    BY <2>1, <2>3 DEF Masks
<1>9. NoInterruptLost'
  BY <1>1, <1>5, LostSame, HookTypes DEF IrqInv, Types
<1> QED
  BY <1>6, <1>7, <1>8, <1>9 DEF IrqInv

LEMMA ReceiveStep ==
  ASSUME IrqInv, NEW p \in Drivers, Receive(p)
  PROVE  IrqInv'
<1>1. /\ \A h \in Hooks : DriverOf[h] = p => hook[h] \in {"idle", "off"}
      /\ UNCHANGED <<handler, active_ids, masked, latch, asserted>>
      /\ int_pending' = [int_pending EXCEPT ![p] = {}]
      /\ hook' = [h \in Hooks |->
           IF h \in int_pending[p] /\ hook[h] = "idle" THEN "todo" ELSE hook[h]]
  BY DEF Receive
<1>2. int_pending'[p] = {} /\ \A q \in Drivers \ {p} : int_pending'[q] = int_pending[q]
  BY <1>1 DEF IrqInv, Types
<1>3. \A h \in Hooks : /\ h \in int_pending[p] => hook'[h] \in {"todo", "off"}
                       /\ h \notin int_pending[p] => hook'[h] = hook[h]
                       /\ hook[h] # "none" <=> hook'[h] # "none"
                       /\ hook[h] = "off" => hook'[h] = "off"
                       /\ hook[h] \in {"todo", "served"} => hook'[h] = hook[h]
  BY <1>1 DEF IrqInv, Chains
<1>4. \A k \in Lines : Chain(k)' = Chain(k)
  BY <1>1 DEF Chain
<1>5. Types'
  <2>1. int_pending' \in [Drivers -> SUBSET Hooks]
    BY <1>1 DEF IrqInv, Types
  <2>2. hook' \in [Hooks -> States]
    BY <1>1 DEF IrqInv, Types, States
  <2> QED
    BY <1>1, <2>1, <2>2 DEF IrqInv, Types
<1>6. Chains'
  <2>1. \A k \in Lines : Chain(k)' = {h \in Hooks : LineOf[h] = k /\ hook'[h] # "none"}
    BY <1>3, <1>4 DEF IrqInv, Chains
  <2>2. \A k \in Lines : active_ids'[k] \subseteq Chain(k)' /\ (Chain(k)' = {} => k \in masked')
    BY <1>1, <1>4 DEF IrqInv, Chains
  <2>3. \A q \in Drivers : \A h \in int_pending'[q] : DriverOf[h] = q /\ hook'[h] # "none"
    BY <1>2, <1>3 DEF IrqInv, Chains, Types
  <2> QED
    BY <2>1, <2>2, <2>3 DEF Chains
<1>7. Masks'
  <2>1. \A k \in Lines : Chain(k)' # {} => (k \in masked' <=> active_ids'[k] # {})
    BY <1>1, <1>4 DEF IrqInv, Masks
  <2>2. \A k \in Lines : \A h \in active_ids'[k] :
          /\ h \in int_pending'[DriverOf[h]] \/ hook'[h] \in {"todo", "served", "off"}
          /\ h \in Reenable => hook'[h] = "off"
    BY <1>1, <1>2, <1>3, HookTypes DEF IrqInv, Masks, Types
  <2> QED
    BY <2>1, <2>2 DEF Masks
<1>8. NoInterruptLost'
  <2>1. \A h \in Hooks :
          h \in int_pending[DriverOf[h]] \/ hook[h] \in {"todo", "off"} =>
            h \in int_pending'[DriverOf[h]] \/ hook'[h] \in {"todo", "off"}
    BY <1>2, <1>3, HookTypes
  <2> QED
    BY <1>1, <2>1, LostSame, HookTypes DEF IrqInv, Types
<1> QED
  BY <1>5, <1>6, <1>7, <1>8 DEF IrqInv

LEMMA ServeStep ==
  ASSUME IrqInv, NEW h \in Hooks, Serve(h)
  PROVE  IrqInv'
<1>1. /\ hook[h] = "todo" /\ asserted' = {d \in asserted : HookOf[d] # h}
      /\ hook' = [hook EXCEPT ![h] = IF h \in Reenable THEN "idle" ELSE "served"]
      /\ UNCHANGED <<handler, active_ids, masked, latch, int_pending>>
  BY DEF Serve
<1>2. /\ h \in Reenable => hook'[h] = "idle"
      /\ h \notin Reenable => hook'[h] = "served"
      /\ \A g \in Hooks \ {h} : hook'[g] = hook[g]
      /\ hook' \in [Hooks -> States]
  BY <1>1 DEF IrqInv, Types, States
<1>3. \A k \in Lines : Chain(k)' = Chain(k)
  BY <1>1 DEF Chain
<1>4. Types'
  BY <1>1, <1>2 DEF IrqInv, Types
<1>5. Chains'
  BY <1>1, <1>2, <1>3 DEF IrqInv, Types, Chains
<1>6. Masks'
  <2>1. \A k \in Lines : Chain(k)' # {} => (k \in masked' <=> active_ids'[k] # {})
    BY <1>1, <1>3 DEF IrqInv, Masks
  <2>2. \A k \in Lines : \A g \in active_ids'[k] :
          /\ g \in int_pending'[DriverOf[g]] \/ hook'[g] \in {"todo", "served", "off"}
          /\ g \in Reenable => hook'[g] = "off"
    BY <1>1, <1>2 DEF IrqInv, Masks, Types
  <2> QED
    BY <2>1, <2>2 DEF Masks
<1>7. NoInterruptLost'
  BY <1>1, <1>2, LostSame, HookTypes DEF IrqInv, Types
<1> QED
  BY <1>4, <1>5, <1>6, <1>7 DEF IrqInv

LEMMA IrqInvariant == Spec => []IrqInv
<1>1. Init => IrqInv
  <2> SUFFICES ASSUME Init PROVE IrqInv
    OBVIOUS
  <2>1. \A l \in Lines : Chain(l) = {}
    BY EmptySet DEF Init, Chain, ToSet
  <2>2. Types
    BY DEF Init, Types, States
  <2>3. Chains /\ Masks /\ NoInterruptLost
    BY <2>1 DEF Init, Chains, Masks, NoInterruptLost
  <2> QED
    BY <2>2, <2>3 DEF IrqInv
<1>2. IrqInv /\ [Next]_vars => IrqInv'
  <2> SUFFICES ASSUME IrqInv, [Next]_vars PROVE IrqInv'
    OBVIOUS
  <2>1. CASE Next
    BY <2>1, RaiseStep, InterruptStep, SetPolicyStep, EnableStep, DisableStep, ReceiveStep,
       ServeStep DEF Next, Driver
  <2>2. CASE UNCHANGED vars
    BY <2>2 DEF vars, IrqInv, Types, Chains, Masks, Chain, NoInterruptLost, Wanted
  <2> QED
    BY <2>1, <2>2
<1> QED
  BY <1>1, <1>2, PTL DEF Spec

-----------------------------------------------------------------------------

\* However many drivers share a line, in whatever order they are notified, serve
\* and call sys_irqctl(): the line is masked exactly while one of its hooks
\* has not enabled it, and that hook's driver is told of it, at work on it or
\* has disabled it.
THEOREM LinesMaskedExactly == Spec => []MasksExact
<1>1. IrqInv => MasksExact
  <2> SUFFICES ASSUME IrqInv PROVE MasksExact
    OBVIOUS
  <2>1. \A l \in Lines : handler[l] # <<>> => Chain(l) # {}
    BY EmptySet DEF IrqInv, Types, Chain
  <2> QED
    BY <2>1 DEF IrqInv, Masks, MasksExact
<1> QED
  BY <1>1, IrqInvariant, PTL

\* A device that wants to be served is not forgotten: its hook is pending or about
\* to be served, or its line still interrupts, unless its driver has given it
\* up.  This needs that the only hook of an edge line is in the chain when the
\* line is not masked, and that a notification is kept until its driver takes it.
THEOREM InterruptsKept == Spec => []NoInterruptLost
BY IrqInvariant, PTL DEF IrqInv
=============================================================================
