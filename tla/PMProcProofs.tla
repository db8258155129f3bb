---------------------------- MODULE PMProcProofs -----------------------------
(***************************************************************************)
(* Theorems about PMProc, for any size of the process table.               *)
(***************************************************************************)
EXTENDS PMProc, FiniteSetTheorems, WellFoundedInduction, TLAPS

Sized == NR_PROCS \in Nat \ {0}

-----------------------------------------------------------------------------
(* The inductive invariant, about any table T *)

Status == {NO_STATUS, "exit", "signal"}

Entry == [flags : SUBSET {"INUSE", "WAITING", "HANGING"}, ep : Nat,
          parent : [slot : Slots, gen : Nat], pid : Nat, wait_pid : Int, status : Status,
          call : {"user", "wait", "dead"}, got : [pid : Int, status : Status]]

Table == [Slots -> Entry]

Living(T, s) == "INUSE" \in T[s].flags /\ "HANGING" \notin T[s].flags

\* Entry by entry: what the flags, the call and the pid say of each other.
Entries(T) ==
  /\ T \in Table
  /\ \A s \in Slots :
       /\ "INUSE" \notin T[s].flags => T[s].flags = {} /\ T[s].pid = 0
       /\ "INUSE" \in T[s].flags => T[s].pid > 0
       /\ Living(T, s) <=> T[s].call # "dead"
       /\ Living(T, s) => ("WAITING" \in T[s].flags <=> T[s].call = "wait")
       /\ T[s].wait_pid >= -1

\* No two processes have the same pid.
Pids(T) ==
  \A s, t \in Slots : s # t /\ T[s].pid = T[t].pid => T[s].pid = 0

\* INIT lives, is its own parent and waits for anyone.
InitLives(T) ==
  /\ Living(T, INIT) /\ T[INIT].ep = 0 /\ T[INIT].parent = Endpoint(INIT, 0)
  /\ "WAITING" \in T[INIT].flags => T[INIT].wait_pid = -1

IsChild(T, c, s) == T[c].parent.slot = s /\ T[c].parent.gen = T[s].ep

\* Who is in use has a living parent, except that the parent of the children
\* of a process that is being taken down, one of gone, may be dead.
Tree(T, gone) ==
  \A c \in Slots : "INUSE" \in T[c].flags =>
    /\ c # INIT => T[c].parent.slot # c
    /\ IsChild(T, c, T[c].parent.slot)
    /\ Living(T, T[c].parent.slot) \/ T[c].parent.slot \in gone

\* Nobody waits beside a zombie.
NoneBeside(T) ==
  \A s, c \in Slots :
    /\ T[s].call = "wait" /\ T[s].wait_pid # 0
    /\ "HANGING" \in T[c].flags /\ IsChild(T, c, s)
    => T[s].wait_pid # -1 /\ T[s].wait_pid # T[c].pid

\* Nobody but p does.
NoneBut(T, p) ==
  \A w, c \in Slots :
    /\ w # p /\ T[w].call = "wait" /\ T[w].wait_pid # 0
    /\ "HANGING" \in T[c].flags /\ IsChild(T, c, w)
    => T[w].wait_pid # -1 /\ T[w].wait_pid # T[c].pid

TableInv(T, gone) == Entries(T) /\ Pids(T) /\ InitLives(T) /\ Tree(T, gone) /\ NoneBeside(T)

PMInv ==
  /\ TableInv(proc, {})
  /\ files \subseteq Slots /\ vfs_up \in BOOLEAN
  /\ vfs_up => files = {s \in Slots : Living(proc, s)}

-----------------------------------------------------------------------------
(* Operators of the library *)

LEMMA Least ==
  ASSUME NEW S, S \subseteq Nat, S # {}
  PROVE  Min(S) \in S
<1>1. IsWellFoundedOn(OpToRel(<, Nat), Nat)
  BY NatLessThanWellFounded
<1>2. PICK x \in S : \A y \in S : ~(<<y, x>> \in OpToRel(<, Nat))
  BY <1>1, WFMin
<1>3. OpToRel(<, Nat) = {ss \in Nat \X Nat : ss[1] < ss[2]}
  BY DEF OpToRel
<1>4. \A y \in S : x <= y
  <2> SUFFICES ASSUME NEW y \in S, y < x PROVE FALSE
    OBVIOUS
  <2> DEFINE ss == <<y, x>>
  <2>1. ss \in Nat \X Nat /\ ss[1] = y /\ ss[2] = x
    OBVIOUS
  <2>2. ss \in OpToRel(<, Nat)
    BY <1>3, <2>1
  <2> QED
    BY <1>2, <2>2
<1> QED
  BY <1>4 DEF Min

LEMMA SlotsFinite ==
  ASSUME Sized
  PROVE  IsFiniteSet(Slots) /\ Cardinality(Slots) = NR_PROCS /\ Slots \subseteq Nat /\ INIT \in Slots
BY FS_Interval DEF Sized, Slots, INIT

\* find_free_pid(): a table of NR_PROCS entries leaves one of NR_PROCS + 1 pids.
LEMMA FreePid ==
  ASSUME Sized, proc \in Table
  PROVE  find_free_pid \in Nat /\ find_free_pid > INIT_PID /\ \A s \in Slots : proc[s].pid # find_free_pid
<1> DEFINE pids == INIT_PID + 2 .. INIT_PID + 2 + NR_PROCS
           used == {proc[s].pid : s \in Slots}
           free == {n \in pids : \A s \in Slots : proc[s].pid # n}
<1>1. IsFiniteSet(used) /\ Cardinality(used) <= NR_PROCS
  <2> DEFINE f == [s \in Slots |-> proc[s].pid]
  <2>1. f \in Surjection(Slots, used)
    BY DEF Surjection
  <2> QED
    BY <2>1, SlotsFinite, FS_Surjection
<1>2. Cardinality(pids) = NR_PROCS + 1
  BY FS_Interval DEF INIT_PID, Sized
<1>3. ~(pids \subseteq used)
  <2> HIDE DEF pids, used
  <2>1. ASSUME pids \subseteq used PROVE FALSE
    <3>1. Cardinality(pids) <= Cardinality(used) /\ Cardinality(used) \in Nat
      BY <1>1, <2>1, FS_Subset, FS_CardinalityType
    <3> QED
      BY <1>1, <1>2, <3>1 DEF Sized
  <2> QED
    BY <2>1
<1>4. free # {} /\ free \subseteq Nat
  <2>1. PICK n \in pids : n \notin used
    BY <1>3
  <2>2. n \in free
    BY <2>1
  <2>3. pids \subseteq Nat
    BY DEF INIT_PID, Sized
  <2> QED
    BY <2>2, <2>3
<1>5. Min(free) \in free
  BY <1>4, Least
<1> QED
  BY <1>5 DEF find_free_pid, INIT_PID, Sized

-----------------------------------------------------------------------------
(* What the functions of forkexit.c change in a table, field by field *)

LEMMA EntryAt ==
  ASSUME NEW T \in Table, NEW x \in Slots, NEW e \in Entry
  PROVE  /\ [T EXCEPT ![x] = e] \in Table /\ [T EXCEPT ![x] = e][x] = e
         /\ \A y \in Slots \ {x} : [T EXCEPT ![x] = e][y] = T[y]
BY DEF Table

\* Of an entry they keep the endpoint and what its wait() asked for.
Keeps(T, R) == R \in Table /\ \A x \in Slots : R[x].ep = T[x].ep /\ R[x].wait_pid = T[x].wait_pid

\* The zombie c is told to its parent p and released.
Reaped(T, R, c, p) ==
  /\ R[c].flags = {} /\ R[c].pid = 0 /\ R[c].call = T[c].call
  /\ R[p].flags = T[p].flags \ {"WAITING"} /\ R[p].pid = T[p].pid
  /\ R[p].call = (IF T[p].call = "wait" THEN "user" ELSE T[p].call)
  /\ R[p].got = [pid |-> T[c].pid, status |-> T[c].status] /\ R[c].got = T[c].got
  /\ R[p].parent = T[p].parent /\ R[p].status = T[p].status
  /\ R[c].parent = T[c].parent /\ R[c].status = T[c].status
  /\ \A x \in Slots \ {c, p} : R[x] = T[x]

LEMMA ReapFields ==
  ASSUME NEW T \in Table, NEW c \in Slots, NEW p \in Slots, p = T[c].parent.slot, c # p
  PROVE  LET R == cleanup(tell_parent(T, c), c) IN Keeps(T, R) /\ Reaped(T, R, c, p)
<1> DEFINE told == [pid |-> T[c].pid, status |-> T[c].status]
           P == [T[p] EXCEPT !.flags = @ \ {"WAITING"}, !.call = IF @ = "wait" THEN "user" ELSE @,
                             !.got = told]
           C == [T[c] EXCEPT !.flags = {}, !.pid = 0]
           R == cleanup(tell_parent(T, c), c)
<1>1. T[c] \in Entry /\ T[p] \in Entry
  BY DEF Table
<1>2. told \in [pid : Int, status : Status]
  BY <1>1 DEF Entry
<1>3. P \in Entry /\ C \in Entry
  BY <1>1, <1>2 DEF Entry
<1>4. tell_parent(T, c) = [T EXCEPT ![p] = P]
  BY DEF tell_parent, Table
<1>5. R = [[T EXCEPT ![p] = P] EXCEPT ![c] = C]
  BY <1>4 DEF cleanup, Table
<1>6. R \in Table /\ R[p] = P /\ R[c] = C /\ \A x \in Slots \ {c, p} : R[x] = T[x]
  <2> HIDE DEF P, C, R
  <2>1. /\ [T EXCEPT ![p] = P] \in Table /\ [T EXCEPT ![p] = P][p] = P
        /\ \A x \in Slots \ {p} : [T EXCEPT ![p] = P][x] = T[x]
    BY <1>3, EntryAt
  <2> DEFINE U == [T EXCEPT ![p] = P]
  <2>2. U \in Table /\ U[p] = P /\ \A x \in Slots \ {p} : U[x] = T[x]
    BY <2>1
  <2>3. R = [U EXCEPT ![c] = C]
    BY <1>5
  <2> HIDE DEF U
  <2>4. R \in Table /\ R[c] = C /\ \A x \in Slots \ {c} : R[x] = U[x]
    <3>1. /\ [U EXCEPT ![c] = C] \in Table /\ [U EXCEPT ![c] = C][c] = C
          /\ \A x \in Slots \ {c} : [U EXCEPT ![c] = C][x] = U[x]
      BY <1>3, <2>2, EntryAt
    <3> QED
      BY <2>3, <3>1
  <2> QED
    BY <2>2, <2>4
<1> HIDE DEF R
<1>7. Keeps(T, R)
  <2>1. P.ep = T[p].ep /\ P.wait_pid = T[p].wait_pid /\ C.ep = T[c].ep /\ C.wait_pid = T[c].wait_pid
    BY <1>1 DEF Entry
  <2> HIDE DEF P, C
  <2>2. ASSUME NEW x \in Slots
        PROVE  R[x].ep = T[x].ep /\ R[x].wait_pid = T[x].wait_pid
    <3>1. CASE x = c
      BY <1>6, <2>1, <3>1
    <3>2. CASE x = p
      BY <1>6, <2>1, <3>2
    <3>3. CASE x \notin {c, p}
      BY <1>6, <2>2, <3>3
    <3> QED
      BY <3>1, <3>2, <3>3
  <2> QED
    BY <1>6, <2>2 DEF Keeps
<1>8. Reaped(T, R, c, p)
  BY <1>1, <1>6 DEF Reaped, Entry
<1> QED
  BY <1>7, <1>8 DEF R

\* exit_proc() up to check_parent(): process s, whose parent is p, is dead.  It
\* is told to p and released, or left for p's wait().
Dead(T, R, s, p, status) ==
  /\ Keeps(T, R)
  /\ R[s].call = "dead" /\ R[s].status = status /\ R[s].parent = T[s].parent
  /\ \A x \in Slots \ {s, p} : R[x] = T[x]
  /\ IF waiting_for(T, p, s)
       THEN /\ R[s].flags = {} /\ R[s].pid = 0
            /\ R[p].flags = T[p].flags \ {"WAITING"} /\ R[p].pid = T[p].pid
            /\ R[p].call = (IF T[p].call = "wait" THEN "user" ELSE T[p].call)
            /\ R[p].got = [pid |-> T[s].pid, status |-> status] /\ R[p].parent = T[p].parent
       ELSE /\ R[s].flags = T[s].flags \cup {"HANGING"} /\ R[s].pid = T[s].pid
            /\ R[p] = T[p]

LEMMA DeadFields ==
  ASSUME NEW T \in Table, NEW s \in Slots, NEW p \in Slots, p = T[s].parent.slot, s # p,
         NEW status \in {"exit", "signal"}
  PROVE  Dead(T, check_parent([T EXCEPT ![s].status = status, ![s].call = "dead"], s), s, p, status)
<1> DEFINE D == [T[s] EXCEPT !.status = status, !.call = "dead"]
           U == [T EXCEPT ![s].status = status, ![s].call = "dead"]
           R == check_parent(U, s)
<1> SUFFICES Dead(T, R, s, p, status)
  OBVIOUS
<1>0. T[s] \in Entry
  BY DEF Table
<1>1. T[s] \in Entry /\ D \in Entry
  BY <1>0 DEF Entry, Status
<1>2. U = [T EXCEPT ![s] = D]
  BY DEF Table
<1>3. /\ D.flags = T[s].flags /\ D.pid = T[s].pid /\ D.parent = T[s].parent /\ D.call = "dead"
      /\ D.status = status /\ D.ep = T[s].ep /\ D.wait_pid = T[s].wait_pid
  BY <1>1 DEF Entry
<1>4. U \in Table /\ U[s] = D /\ \A x \in Slots \ {s} : U[x] = T[x]
  <2> HIDE DEF D
  <2>1. /\ [T EXCEPT ![s] = D] \in Table /\ [T EXCEPT ![s] = D][s] = D
        /\ \A x \in Slots \ {s} : [T EXCEPT ![s] = D][x] = T[x]
    BY <1>1, EntryAt
  <2> QED
    BY <1>2, <2>1
<1> HIDE DEF D, U
<1>5. U[s].parent.slot = p /\ (waiting_for(U, p, s) <=> waiting_for(T, p, s))
  BY <1>3, <1>4 DEF waiting_for
<1>6. CASE waiting_for(T, p, s)
  <2>1. R = cleanup(tell_parent(U, s), s)
    BY <1>5, <1>6 DEF check_parent
  <2>2. Keeps(U, R) /\ Reaped(U, R, s, p)
    BY <1>4, <1>5, <2>1, ReapFields
  <2> HIDE DEF R
  <2>3. Keeps(T, R)
    BY <1>3, <1>4, <2>2 DEF Keeps
  <2>4. /\ R[s].call = "dead" /\ R[s].status = status /\ R[s].parent = T[s].parent
        /\ R[s].flags = {} /\ R[s].pid = 0
    BY <1>3, <1>4, <2>2 DEF Reaped
  <2>5. \A x \in Slots \ {s, p} : R[x] = T[x]
    BY <1>4, <2>2 DEF Reaped
  <2>6. U[p] = T[p]
    BY <1>4
  <2>7. /\ R[p].flags = T[p].flags \ {"WAITING"} /\ R[p].pid = T[p].pid
        /\ R[p].call = IF T[p].call = "wait" THEN "user" ELSE T[p].call
        /\ R[p].got = [pid |-> T[s].pid, status |-> status] /\ R[p].parent = T[p].parent
    BY <1>3, <1>4, <2>2, <2>6 DEF Reaped
  <2> QED
    BY <1>6, <2>3, <2>4, <2>5, <2>7 DEF Dead
<1>7. CASE ~waiting_for(T, p, s)
  <2> DEFINE H == [U[s] EXCEPT !.flags = @ \cup {"HANGING"}]
  <2>1. R = [U EXCEPT ![s] = H]
    BY <1>4, <1>5, <1>7 DEF check_parent, Table
  <2>2. U[s] \in Entry
    BY <1>4 DEF Table
  <2>3. /\ H \in Entry /\ H.flags = U[s].flags \cup {"HANGING"} /\ H.pid = U[s].pid
        /\ H.call = U[s].call /\ H.status = U[s].status /\ H.parent = U[s].parent
        /\ H.ep = U[s].ep /\ H.wait_pid = U[s].wait_pid
    BY <2>2 DEF Entry
  <2> HIDE DEF H
  <2>4. /\ [U EXCEPT ![s] = H] \in Table /\ [U EXCEPT ![s] = H][s] = H
        /\ \A x \in Slots \ {s} : [U EXCEPT ![s] = H][x] = U[x]
    BY <1>4, <2>3, EntryAt
  <2>5. R \in Table /\ R[s] = H /\ \A x \in Slots \ {s} : R[x] = U[x]
    BY <2>1, <2>4
  <2> HIDE DEF R
  <2>6. Keeps(T, R)
    BY <1>3, <1>4, <2>3, <2>5 DEF Keeps
  <2> QED
    BY <1>3, <1>4, <1>7, <2>3, <2>5, <2>6 DEF Dead
<1> QED
  BY <1>6, <1>7

\* Its children are given to INIT.
Given(T, U, s) ==
  /\ Keeps(T, U)
  /\ \A x \in Slots :
       /\ U[x].flags = T[x].flags /\ U[x].pid = T[x].pid /\ U[x].call = T[x].call
       /\ U[x].status = T[x].status /\ U[x].got = T[x].got
       /\ IsChild(T, x, s) => U[x].parent = Endpoint(INIT, 0)
       /\ ~IsChild(T, x, s) => U[x].parent = T[x].parent

LEMMA IsKid ==
  ASSUME NEW T \in Table, NEW s \in Slots
  PROVE  Children(T, s) = {c \in Slots : IsChild(T, c, s)}
<1>1. ASSUME NEW c \in Slots PROVE T[c].parent = Endpoint(s, T[s].ep) <=> IsChild(T, c, s)
  <2>1. T[c].parent \in [slot : Slots, gen : Nat]
    BY DEF Table, Entry
  <2> QED
    BY <2>1 DEF Endpoint, IsChild
<1> QED
  BY <1>1 DEF Children

LEMMA GivenFields ==
  ASSUME Sized, NEW T \in Table, NEW s \in Slots
  PROVE  Given(T, [c \in Slots |-> IF c \in Children(T, s)
                                     THEN [T[c] EXCEPT !.parent = Endpoint(INIT, 0)]
                                     ELSE T[c]], s)
<1> DEFINE U == [c \in Slots |-> IF c \in Children(T, s)
                                   THEN [T[c] EXCEPT !.parent = Endpoint(INIT, 0)] ELSE T[c]]
<1>1. Endpoint(INIT, 0) \in [slot : Slots, gen : Nat]
  BY SlotsFinite DEF Endpoint
<1>2. ASSUME NEW x \in Slots
      PROVE  /\ U[x] \in Entry /\ U[x].ep = T[x].ep /\ U[x].wait_pid = T[x].wait_pid
             /\ U[x].flags = T[x].flags /\ U[x].pid = T[x].pid /\ U[x].call = T[x].call
             /\ U[x].status = T[x].status /\ U[x].got = T[x].got
             /\ IsChild(T, x, s) => U[x].parent = Endpoint(INIT, 0)
             /\ ~IsChild(T, x, s) => U[x].parent = T[x].parent
  <2>1. T[x] \in Entry
    BY DEF Table
  <2>2. CASE IsChild(T, x, s)
    <3>1. U[x] = [T[x] EXCEPT !.parent = Endpoint(INIT, 0)]
      BY <2>2, IsKid
    <3> HIDE DEF U
    <3> QED
      BY <1>1, <2>1, <2>2, <3>1 DEF Entry
  <2>3. CASE ~IsChild(T, x, s)
    <3>1. U[x] = T[x]
      BY <2>3, IsKid
    <3> HIDE DEF U
    <3> QED
      BY <2>1, <2>3, <3>1
  <2> QED
    BY <2>2, <2>3
<1>3. U \in Table
  BY <1>2 DEF Table
<1> QED
  BY <1>2, <1>3 DEF Given, Keeps

-----------------------------------------------------------------------------
(* They keep the invariant *)

LEMMA ParentLives ==
  ASSUME NEW T, TableInv(T, {}), NEW s \in Slots, s # INIT, "INUSE" \in T[s].flags
  PROVE  /\ T[s].parent.slot \in Slots /\ T[s].parent.slot # s /\ Living(T, T[s].parent.slot)
         /\ IsChild(T, s, T[s].parent.slot)
<1>1. T[s].parent \in [slot : Slots, gen : Nat]
  BY DEF TableInv, Entries, Table, Entry
<1> QED
  BY <1>1 DEF TableInv, Tree

LEMMA Fields ==
  ASSUME NEW T \in Table, NEW x \in Slots
  PROVE  /\ T[x].flags \subseteq {"INUSE", "WAITING", "HANGING"} /\ T[x].ep \in Nat
         /\ T[x].parent.slot \in Slots /\ T[x].parent.gen \in Nat /\ T[x].pid \in Nat
         /\ T[x].wait_pid \in Int /\ T[x].status \in Status
         /\ T[x].call \in {"user", "wait", "dead"}
BY DEF Table, Entry

LEMMA DeadKept ==
  ASSUME Sized, NEW T, TableInv(T, {}), NEW s \in Slots, s # INIT, "INUSE" \in T[s].flags,
         NEW p, p = T[s].parent.slot, NEW status, NEW R, Dead(T, R, s, p, status)
  PROVE  TableInv(R, {s}) /\ ~Living(R, s)
<1>1. /\ T \in Table /\ R \in Table /\ INIT \in Slots /\ p \in Slots /\ p # s
      /\ Living(T, p) /\ IsChild(T, s, p)
      /\ \A x \in Slots : R[x].ep = T[x].ep /\ R[x].wait_pid = T[x].wait_pid
      /\ \A x \in Slots : R[x].parent = T[x].parent
  BY SlotsFinite, ParentLives DEF TableInv, Entries, Dead, Keeps
<1>2. /\ R[s].call = "dead" /\ ~Living(R, s)
      /\ \/ R[s].flags = {} /\ R[s].pid = 0
         \/ R[s].flags = T[s].flags \cup {"HANGING"} /\ R[s].pid = T[s].pid
  <2>1. CASE waiting_for(T, p, s)
    BY <2>1 DEF Dead, Living
  <2>2. CASE ~waiting_for(T, p, s)
    BY <2>2 DEF Dead, Living
  <2> QED
    BY <2>1, <2>2
<1>3. \A x \in Slots \ {s} :
        /\ R[x].pid = T[x].pid /\ (Living(R, x) <=> Living(T, x))
        /\ "INUSE" \in R[x].flags <=> "INUSE" \in T[x].flags
        /\ "HANGING" \in R[x].flags <=> "HANGING" \in T[x].flags
        /\ R[x].flags \subseteq T[x].flags
        /\ R[x].call = T[x].call \/ (R[x].call = "user" /\ T[x].call = "wait")
  BY <1>1, Fields DEF Dead, Living
<1>4. Entries(R)
  <2>1. ASSUME NEW x \in Slots \ {s, p}
        PROVE  R[x] = T[x]
    BY DEF Dead
  <2>2. Living(R, p) /\ ("WAITING" \in R[p].flags <=> R[p].call = "wait") /\ R[p].call # "dead"
    <3>1. Living(T, p) /\ ("WAITING" \in T[p].flags <=> T[p].call = "wait") /\ T[p].call # "dead"
      BY <1>1 DEF TableInv, Entries
    <3>2. CASE waiting_for(T, p, s)
      BY <3>1, <3>2 DEF Dead, Living
    <3>3. CASE ~waiting_for(T, p, s)
      BY <3>1, <3>3 DEF Dead, Living
    <3> QED
      BY <3>2, <3>3
  <2>3. \A x \in Slots :
       /\ "INUSE" \notin R[x].flags => R[x].flags = {} /\ R[x].pid = 0
       /\ "INUSE" \in R[x].flags => R[x].pid > 0
    BY <1>1, <1>2, <1>3, Fields DEF TableInv, Entries
  <2>4. \A x \in Slots :
       /\ Living(R, x) <=> R[x].call # "dead"
       /\ Living(R, x) => ("WAITING" \in R[x].flags <=> R[x].call = "wait")
    BY <1>2, <2>1, <2>2 DEF TableInv, Entries, Living
  <2> QED
    BY <1>1, <2>3, <2>4 DEF TableInv, Entries
<1>5. Pids(R)
  BY <1>2, <1>3, Fields, <1>1 DEF TableInv, Pids
<1>6. InitLives(R)
  BY <1>1, <1>3 DEF TableInv, InitLives
<1>7. Tree(R, {s})
  <2> SUFFICES ASSUME NEW c \in Slots, "INUSE" \in R[c].flags
               PROVE  /\ c # INIT => R[c].parent.slot # c
                      /\ IsChild(R, c, R[c].parent.slot)
                      /\ Living(R, R[c].parent.slot) \/ R[c].parent.slot \in {s}
    BY DEF Tree
  <2>1. "INUSE" \in T[c].flags
    BY <1>2, <1>3
  <2>2. T[c].parent.slot \in Slots
    BY <1>1, Fields
  <2> QED
    BY <1>1, <1>3, <2>1, <2>2 DEF TableInv, Tree, IsChild
<1>8. NoneBeside(R)
  <2> SUFFICES ASSUME NEW w \in Slots, NEW c \in Slots, R[w].call = "wait", R[w].wait_pid # 0,
                      "HANGING" \in R[c].flags, IsChild(R, c, w)
               PROVE  R[w].wait_pid # -1 /\ R[w].wait_pid # R[c].pid
    BY DEF NoneBeside
  <2>1. w # s /\ T[w].call = "wait" /\ IsChild(T, c, w)
    BY <1>1, <1>2, <1>3 DEF IsChild
  <2>2. CASE c # s
    BY <1>1, <1>3, <2>1, <2>2 DEF TableInv, NoneBeside
  <2>3. CASE c = s
    <3>1. w = p /\ "WAITING" \in T[p].flags /\ R[p].call = "wait"
      BY <1>1, <2>1, <2>3 DEF IsChild, TableInv, Entries
    <3>2. ~waiting_for(T, p, s)
      BY <3>1, <2>1 DEF Dead
    <3> QED
      BY <1>1, <2>3, <3>1, <3>2 DEF Dead, waiting_for
  <2> QED
    BY <2>2, <2>3
<1> QED
  BY <1>2, <1>4, <1>5, <1>6, <1>7, <1>8 DEF TableInv

\* A zombie z that is told to its parent p, which waits, and released
OnlyReaps(U, R, z, p) ==
  /\ R[p].call = "user"
  /\ \A x \in Slots : (Living(R, x) <=> Living(U, x)) /\ R[x].status = U[x].status
  /\ \A x \in Slots \ {z} : "INUSE" \in U[x].flags => "INUSE" \in R[x].flags
  /\ \A x \in Slots \ {p} : R[x].got = U[x].got /\ R[x].call = U[x].call

LEMMA ReapedKept ==
  ASSUME Sized, NEW U, Entries(U), Pids(U), InitLives(U), Tree(U, {}),
         NEW z \in Slots, NEW p \in Slots, "HANGING" \in U[z].flags, Living(U, p),
         U[p].call = "wait", NoneBut(U, p),
         NEW R, Keeps(U, R), Reaped(U, R, z, p)
  PROVE  TableInv(R, {}) /\ OnlyReaps(U, R, z, p)
<1>1. /\ U \in Table /\ R \in Table /\ INIT \in Slots /\ z # p /\ ~Living(U, z)
      /\ U[z].call = "dead" /\ z # INIT
  BY SlotsFinite DEF Entries, Keeps, Living, InitLives
<1>2. /\ R[z].flags = {} /\ R[z].pid = 0 /\ R[z].call = "dead"
      /\ R[p].flags = U[p].flags \ {"WAITING"} /\ R[p].call = "user" /\ R[p].pid = U[p].pid
      /\ \A x \in Slots : R[x].ep = U[x].ep /\ R[x].wait_pid = U[x].wait_pid
      /\ \A x \in Slots : R[x].parent = U[x].parent /\ R[x].status = U[x].status
      /\ \A x \in Slots \ {z, p} : R[x] = U[x]
  BY <1>1 DEF Keeps, Reaped
<1>3. \A x \in Slots : Living(R, x) <=> Living(U, x)
  <2>1. ~Living(R, z) /\ Living(R, p)
    BY <1>2 DEF Living
  <2>2. \A x \in Slots \ {z, p} : Living(R, x) <=> Living(U, x)
    BY <1>2 DEF Living
  <2> QED
    BY <1>1, <2>1, <2>2
<1>4. Entries(R)
  <2>1. Living(R, p) /\ ~Living(R, z)
    BY <1>1, <1>3
  <2>2. "INUSE" \in R[p].flags /\ R[p].pid > 0
    BY <1>2 DEF Entries, Living
  <2>3. \A x \in Slots : R[x].wait_pid >= -1
    BY <1>2 DEF Entries
  <2> QED
    BY <1>1, <1>2, <2>1, <2>2, <2>3 DEF Entries, Living
<1>5. Pids(R)
  <2>1. \A x \in Slots : R[x].pid = U[x].pid \/ R[x].pid = 0
    BY <1>2
  <2> QED
    BY <2>1 DEF Pids
<1>6. InitLives(R)
  <2>1. "WAITING" \in R[INIT].flags => "WAITING" \in U[INIT].flags
    BY <1>1, <1>2
  <2> QED
    BY <1>1, <1>2, <1>3, <2>1 DEF InitLives
<1>7. Tree(R, {})
  <2> SUFFICES ASSUME NEW c \in Slots, "INUSE" \in R[c].flags
               PROVE  /\ c # INIT => R[c].parent.slot # c
                      /\ IsChild(R, c, R[c].parent.slot) /\ Living(R, R[c].parent.slot)
    BY DEF Tree
  <2>1. "INUSE" \in U[c].flags /\ U[c].parent.slot \in Slots
    BY <1>1, <1>2, Fields
  <2> QED
    BY <1>2, <1>3, <2>1 DEF Tree, IsChild
<1>8. NoneBeside(R)
  <2> SUFFICES ASSUME NEW w \in Slots, NEW c \in Slots, R[w].call = "wait", R[w].wait_pid # 0,
                      "HANGING" \in R[c].flags, IsChild(R, c, w)
               PROVE  R[w].wait_pid # -1 /\ R[w].wait_pid # R[c].pid
    BY DEF NoneBeside
  <2>1. w # p /\ w # z /\ c # z /\ c # p
    BY <1>1, <1>2, <1>3 DEF Living
  <2>2. R[w] = U[w] /\ R[c] = U[c] /\ IsChild(U, c, w)
    BY <1>2, <2>1 DEF IsChild
  <2> QED
    BY <2>1, <2>2 DEF NoneBut
<1>9. \A x \in Slots \ {p} : R[x].got = U[x].got /\ R[x].call = U[x].call
  <2>1. R[z].got = U[z].got /\ R[z].call = U[z].call
    BY DEF Reaped
  <2> QED
    BY <1>2, <2>1
<1> QED
  BY <1>2, <1>3, <1>4, <1>5, <1>6, <1>7, <1>8, <1>9 DEF TableInv, OnlyReaps

\* What the adoption does that others see: INIT may be told of a zombie.
Adopts(T, R) ==
  /\ \A x \in Slots : (Living(R, x) <=> Living(T, x)) /\ R[x].status = T[x].status
  /\ \A x \in Slots : "INUSE" \in T[x].flags /\ "INUSE" \notin R[x].flags =>
       /\ "WAITING" \in T[INIT].flags /\ R[INIT].call = "user"
       /\ R[INIT].got = [pid |-> T[x].pid, status |-> T[x].status]
  /\ \A x \in Slots : x # INIT \/ "WAITING" \notin T[INIT].flags =>
       R[x].got = T[x].got /\ R[x].call = T[x].call

LEMMA AdoptKept ==
  ASSUME Sized, NEW T, NEW s \in Slots, TableInv(T, {s}), ~Living(T, s)
  PROVE  TableInv(Adopted(T, s), {}) /\ Adopts(T, Adopted(T, s))
<1> DEFINE kids == Children(T, s)
           U == [c \in Slots |-> IF c \in kids THEN [T[c] EXCEPT !.parent = Endpoint(INIT, 0)]
                                 ELSE T[c]]
           zombies == {c \in kids : "HANGING" \in T[c].flags}
           R == Adopted(T, s)
<1>0. T \in Table /\ INIT \in Slots
  BY SlotsFinite DEF TableInv, Entries
<1>1. Given(T, U, s) /\ kids = {c \in Slots : IsChild(T, c, s)}
  BY <1>0, GivenFields, IsKid
<1>2. R = IF "WAITING" \in T[INIT].flags /\ zombies # {} THEN check_parent(U, Min(zombies)) ELSE U
  BY DEF Adopted
<1> HIDE DEF U, R, kids
<1>3. /\ U \in Table
      /\ \A x \in Slots :
           /\ U[x].ep = T[x].ep /\ U[x].wait_pid = T[x].wait_pid
           /\ U[x].flags = T[x].flags /\ U[x].pid = T[x].pid /\ U[x].call = T[x].call
           /\ U[x].status = T[x].status /\ U[x].got = T[x].got
           /\ IsChild(T, x, s) => U[x].parent.slot = INIT /\ U[x].parent.gen = 0
           /\ ~IsChild(T, x, s) => U[x].parent = T[x].parent
  BY <1>1 DEF Given, Keeps, Endpoint
<1>4. s # INIT /\ Living(T, INIT) /\ T[INIT].ep = 0
  BY DEF TableInv, InitLives
<1>5. Entries(U) /\ Pids(U)
  BY <1>3 DEF TableInv, Entries, Pids, Living
<1>6. InitLives(U)
  <2>1. ~IsChild(T, INIT, s)
    BY <1>4 DEF TableInv, InitLives, Endpoint, IsChild
  <2> QED
    BY <1>0, <1>3, <2>1 DEF TableInv, InitLives, Living
<1>7. Tree(U, {})
  <2> SUFFICES ASSUME NEW c \in Slots, "INUSE" \in U[c].flags
               PROVE  /\ c # INIT => U[c].parent.slot # c
                      /\ IsChild(U, c, U[c].parent.slot) /\ Living(U, U[c].parent.slot)
    BY DEF Tree
  <2>1. /\ "INUSE" \in T[c].flags /\ T[c].parent.slot \in Slots
        /\ c # INIT => T[c].parent.slot # c
        /\ IsChild(T, c, T[c].parent.slot)
        /\ Living(T, T[c].parent.slot) \/ T[c].parent.slot = s
    BY <1>0, <1>3, Fields DEF TableInv, Tree
  <2>2. CASE IsChild(T, c, s)
    BY <1>0, <1>3, <1>4, <2>2 DEF IsChild, Living
  <2>3. CASE ~IsChild(T, c, s)
    BY <1>3, <2>1, <2>3 DEF IsChild, Living
  <2> QED
    BY <2>2, <2>3
<1>8. \A w, c \in Slots :
        /\ w # INIT \/ ~(IsChild(T, c, s) /\ "HANGING" \in T[c].flags)
        /\ U[w].call = "wait" /\ U[w].wait_pid # 0
        /\ "HANGING" \in U[c].flags /\ IsChild(U, c, w)
        => U[w].wait_pid # -1 /\ U[w].wait_pid # U[c].pid
  <2> SUFFICES ASSUME NEW w \in Slots, NEW c \in Slots,
                      w # INIT \/ ~(IsChild(T, c, s) /\ "HANGING" \in T[c].flags),
                      U[w].call = "wait", U[w].wait_pid # 0,
                      "HANGING" \in U[c].flags, IsChild(U, c, w)
               PROVE  U[w].wait_pid # -1 /\ U[w].wait_pid # U[c].pid
    OBVIOUS
  <2>1. ~IsChild(T, c, s)
    BY <1>3 DEF IsChild
  <2>2. IsChild(T, c, w)
    BY <1>3, <2>1 DEF IsChild
  <2> QED
    BY <1>3, <2>2 DEF TableInv, NoneBeside
<1>9. CASE ~("WAITING" \in T[INIT].flags /\ zombies # {})
  <2>1. R = U
    BY <1>2, <1>9
  <2>2. NoneBeside(U)
    <3>1. CASE "WAITING" \notin T[INIT].flags
      <4>1. U[INIT].call # "wait"
        BY <1>0, <1>3, <1>4, <3>1 DEF TableInv, Entries
      <4> QED
        BY <1>8, <4>1 DEF NoneBeside
    <3>2. CASE zombies = {}
      <4>1. \A c \in Slots : ~(IsChild(T, c, s) /\ "HANGING" \in T[c].flags)
        BY <1>1, <3>2
      <4> QED
        BY <1>8, <4>1 DEF NoneBeside
    <3> QED
      BY <1>9, <3>1, <3>2
  <2>3. Adopts(T, U)
    BY <1>3 DEF Adopts, Living
  <2> QED
    BY <1>5, <1>6, <1>7, <2>1, <2>2, <2>3 DEF TableInv, R
<1>10. CASE "WAITING" \in T[INIT].flags /\ zombies # {}
  <2> DEFINE z == Min(zombies)
  <2>1. z \in zombies
    BY <1>1, <1>10, SlotsFinite, Least
  <2> HIDE DEF z
  <2>2. /\ z \in Slots /\ IsChild(T, z, s) /\ "HANGING" \in T[z].flags /\ "INUSE" \in T[z].flags
        /\ z # INIT /\ U[z].parent.slot = INIT
    BY <1>1, <1>3, <1>4, <2>1 DEF TableInv, Entries, Living
  <2>3. waiting_for(U, INIT, z)
    BY <1>0, <1>3, <1>10 DEF waiting_for, TableInv, InitLives
  <2>4. R = cleanup(tell_parent(U, z), z)
    BY <1>2, <1>10, <2>2, <2>3 DEF check_parent, z
  <2>5. Keeps(U, R) /\ Reaped(U, R, z, INIT)
    BY <1>0, <1>3, <2>2, <2>4, ReapFields
  <2>6. U[INIT].call = "wait" /\ Living(U, INIT) /\ "HANGING" \in U[z].flags
    BY <1>0, <1>3, <1>4, <1>10, <2>2 DEF TableInv, Entries, Living
  <2>7. NoneBut(U, INIT)
    BY <1>8 DEF NoneBut
  <2>8. /\ TableInv(R, {}) /\ R[INIT].call = "user"
        /\ \A x \in Slots : (Living(R, x) <=> Living(U, x)) /\ R[x].status = U[x].status
        /\ \A x \in Slots \ {z} : "INUSE" \in U[x].flags => "INUSE" \in R[x].flags
        /\ \A x \in Slots \ {INIT} : R[x].got = U[x].got /\ R[x].call = U[x].call
    <3>1. TableInv(R, {}) /\ OnlyReaps(U, R, z, INIT)
      BY <1>0, <1>5, <1>6, <1>7, <2>2, <2>5, <2>6, <2>7, ReapedKept
    <3> QED
      BY <3>1 DEF OnlyReaps
  <2>9. R[INIT].got = [pid |-> T[z].pid, status |-> T[z].status]
    BY <1>3, <2>2, <2>5 DEF Reaped
  <2>10. \A x \in Slots : Living(U, x) <=> Living(T, x)
    BY <1>3 DEF Living
  <2>11. Adopts(T, R)
    BY <1>0, <1>3, <1>10, <2>8, <2>9, <2>10 DEF Adopts
  <2> QED
    BY <2>8, <2>11 DEF R
<1> QED
  BY <1>9, <1>10 DEF R

\* Who is released has its end told to somebody who asked.
Releases(T, R) ==
  \A t \in Slots : "INUSE" \in T[t].flags /\ "INUSE" \notin R[t].flags =>
    \E p \in Slots : /\ R[p].got = [pid |-> T[t].pid, status |-> R[t].status]
                     /\ T[p].call \in {"user", "wait"} /\ R[p].call = "user"

LEMMA ExitKept ==
  ASSUME Sized, NEW T, TableInv(T, {}), NEW s \in Slots, s # INIT, "INUSE" \in T[s].flags,
         NEW status \in {"exit", "signal"}
  PROVE  LET R == exit_proc(T, s, status) IN
         /\ TableInv(R, {}) /\ Releases(T, R)
         /\ \A x \in Slots : Living(R, x) <=> Living(T, x) /\ x # s
<1> DEFINE p == T[s].parent.slot
           M == check_parent([T EXCEPT ![s].status = status, ![s].call = "dead"], s)
           R == Adopted(M, s)
<1>1. p \in Slots /\ p # s /\ Living(T, p) /\ T \in Table /\ INIT \in Slots /\ Living(T, INIT)
  BY ParentLives, SlotsFinite DEF TableInv, Entries, InitLives
<1>2. Dead(T, M, s, p, status)
  BY <1>1, DeadFields
<1>3. exit_proc(T, s, status) = R
  BY DEF exit_proc
<1> HIDE DEF M, R
<1>4. TableInv(M, {s}) /\ ~Living(M, s)
  BY <1>2, DeadKept
<1>5. TableInv(R, {}) /\ Adopts(M, R)
  BY <1>4, AdoptKept DEF R
<1> HIDE DEF p
<1>6. \A x \in Slots \ {s} :
        /\ Living(M, x) <=> Living(T, x)
        /\ "INUSE" \in M[x].flags <=> "INUSE" \in T[x].flags
        /\ M[x].pid = T[x].pid
  BY <1>1, <1>2 DEF Dead, Living
<1>7. \A x \in Slots : Living(R, x) <=> Living(T, x) /\ x # s
  <2>1. \A x \in Slots : Living(R, x) <=> Living(M, x)
    BY <1>5 DEF Adopts
  <2>2. ~Living(R, s)
    BY <1>4, <2>1
  <2>3. \A x \in Slots \ {s} : Living(R, x) <=> Living(T, x)
    BY <1>6, <2>1
  <2> QED
    BY <2>2, <2>3
<1>8. Releases(T, R)
  <2> SUFFICES ASSUME NEW t \in Slots, "INUSE" \in T[t].flags, "INUSE" \notin R[t].flags
               PROVE  \E q \in Slots :
                        /\ R[q].got = [pid |-> T[t].pid, status |-> R[t].status]
                        /\ T[q].call \in {"user", "wait"} /\ R[q].call = "user"
    BY DEF Releases
  <2>0. \A q \in Slots : Living(T, q) => T[q].call \in {"user", "wait"}
    BY <1>1, Fields DEF TableInv, Entries
  <2>1. CASE "INUSE" \notin M[t].flags
    <3>1. t = s /\ waiting_for(T, p, s)
      BY <1>2, <1>6, <2>1 DEF Dead
    <3>2. /\ M[p].got = [pid |-> T[t].pid, status |-> status] /\ M[s].status = status
          /\ "WAITING" \notin M[p].flags
      BY <1>2, <3>1 DEF Dead
    <3>3. M[p].call = "user"
      <4>1. T[p].call = "wait"
        BY <1>1, <3>1 DEF waiting_for, TableInv, Entries
      <4> QED
        BY <1>2, <3>1, <4>1 DEF Dead
    <3>4. R[p].got = M[p].got /\ R[p].call = M[p].call /\ R[s].status = M[s].status
      BY <1>1, <1>5, <3>2 DEF Adopts
    <3> QED
      BY <1>1, <2>0, <3>1, <3>2, <3>3, <3>4
  <2>2. CASE "INUSE" \in M[t].flags
    <3>1. M[t].pid = T[t].pid
      BY <1>2, <1>6, <2>2 DEF Dead
    <3>2. /\ R[INIT].got = [pid |-> M[t].pid, status |-> M[t].status] /\ R[INIT].call = "user"
          /\ R[t].status = M[t].status
      BY <1>5, <2>2 DEF Adopts
    <3> QED
      BY <1>1, <2>0, <3>1, <3>2
  <2> QED
    BY <2>1, <2>2
<1> QED
  BY <1>3, <1>5, <1>7, <1>8

-----------------------------------------------------------------------------
(* The requests *)

\* Only the answer to s changes.
Answered(T, R) ==
  /\ R \in Table
  /\ \A x \in Slots :
        /\ R[x].flags = T[x].flags /\ R[x].ep = T[x].ep /\ R[x].parent = T[x].parent
        /\ R[x].pid = T[x].pid /\ R[x].wait_pid = T[x].wait_pid /\ R[x].status = T[x].status
        /\ R[x].call = T[x].call

LEMMA AnsweredFields ==
  ASSUME NEW T \in Table, NEW s \in Slots, NEW g \in [pid : Int, status : Status]
  PROVE  Answered(T, [T EXCEPT ![s].got = g])
<1> DEFINE E == [T[s] EXCEPT !.got = g]
           R == [T EXCEPT ![s].got = g]
<1> SUFFICES Answered(T, R)
  OBVIOUS
<1>1. T[s] \in Entry
  BY DEF Table
<1>2. /\ E \in Entry /\ E.flags = T[s].flags /\ E.ep = T[s].ep /\ E.parent = T[s].parent
      /\ E.pid = T[s].pid /\ E.wait_pid = T[s].wait_pid /\ E.status = T[s].status
      /\ E.call = T[s].call
  BY <1>1 DEF Entry
<1>3. R = [T EXCEPT ![s] = E]
  BY DEF Table
<1> HIDE DEF E, R
<1>4. /\ [T EXCEPT ![s] = E] \in Table /\ [T EXCEPT ![s] = E][s] = E
      /\ \A y \in Slots \ {s} : [T EXCEPT ![s] = E][y] = T[y]
  BY <1>2, EntryAt
<1>5. R \in Table /\ R[s] = E /\ \A y \in Slots \ {s} : R[y] = T[y]
  BY <1>3, <1>4
<1> QED
  BY <1>2, <1>5 DEF Answered

LEMMA AnsweredKept ==
  ASSUME Sized, NEW T, TableInv(T, {}), NEW R, Answered(T, R)
  PROVE  /\ TableInv(R, {}) /\ Releases(T, R)
         /\ \A x \in Slots : Living(R, x) <=> Living(T, x)
<1>1. T \in Table /\ R \in Table /\ INIT \in Slots
  BY SlotsFinite DEF TableInv, Entries, Answered
<1>2. \A x \in Slots :
        /\ R[x].flags = T[x].flags /\ R[x].ep = T[x].ep /\ R[x].parent = T[x].parent
        /\ R[x].pid = T[x].pid /\ R[x].wait_pid = T[x].wait_pid /\ R[x].call = T[x].call
  BY DEF Answered
<1>3. \A x \in Slots : Living(R, x) <=> Living(T, x)
  BY <1>2 DEF Living
<1>4. Entries(R)
  BY <1>1, <1>2, <1>3 DEF TableInv, Entries
<1>5. Pids(R)
  BY <1>2 DEF TableInv, Pids
<1>6. NoneBeside(R)
  BY <1>2 DEF TableInv, NoneBeside, IsChild
<1>7. InitLives(R)
  BY <1>1, <1>2, <1>3 DEF TableInv, InitLives
<1>8. Tree(R, {})
  <2>1. \A c \in Slots : T[c].parent.slot \in Slots
    BY <1>1, Fields
  <2> QED
    BY <1>2, <1>3, <2>1 DEF TableInv, Tree, IsChild
<1> QED
  BY <1>2, <1>3, <1>4, <1>5, <1>6, <1>7, <1>8 DEF TableInv, Releases

\* What wait() asks for, by INIT and by others
LEMMA ArgsOf ==
  ASSUME TableInv(proc, {}), NEW s \in Slots, NEW n \in Args(s)
  PROVE  n \in Int /\ n >= -1 /\ (s = INIT => n = -1)
<1>1. proc \in Table
  BY DEF TableInv, Entries
<1> QED
  BY <1>1, Fields DEF Args

LEMMA ZombiesOf ==
  ASSUME TableInv(proc, {}), NEW s \in Slots, NEW n
  PROVE  Zombies(s, n) = {c \in Slots : /\ IsChild(proc, c, s) /\ "HANGING" \in proc[c].flags
                                        /\ n > 0 => proc[c].pid = n}
<1>1. proc \in Table /\ \A c \in Slots : "HANGING" \in proc[c].flags => "INUSE" \in proc[c].flags
  BY DEF TableInv, Entries
<1> QED
  BY <1>1, IsKid DEF Zombies, Selected, InUse

\* The caller s of wait() is blocked in it.
Blocked(T, V, s, n) ==
  /\ V \in Table /\ \A x \in Slots \ {s} : V[x] = T[x]
  /\ V[s].flags = T[s].flags \cup {"WAITING"} /\ V[s].wait_pid = n /\ V[s].call = "wait"
  /\ V[s].ep = T[s].ep /\ V[s].parent = T[s].parent /\ V[s].pid = T[s].pid
  /\ V[s].status = T[s].status

LEMMA WaitingFields ==
  ASSUME proc \in Table, NEW s \in Slots, NEW n \in Int
  PROVE  Blocked(proc, Waiting(s, n), s, n)
<1> DEFINE E == [proc[s] EXCEPT !.flags = @ \cup {"WAITING"}, !.wait_pid = n, !.call = "wait"]
           V == Waiting(s, n)
<1>1. proc[s] \in Entry
  BY DEF Table
<1>2. /\ E \in Entry /\ E.flags = proc[s].flags \cup {"WAITING"} /\ E.wait_pid = n
      /\ E.call = "wait" /\ E.ep = proc[s].ep /\ E.parent = proc[s].parent
      /\ E.pid = proc[s].pid /\ E.status = proc[s].status
  BY <1>1 DEF Entry
<1>3. V = [proc EXCEPT ![s] = E]
  BY DEF Waiting, Table
<1> HIDE DEF E, V
<1>4. /\ [proc EXCEPT ![s] = E] \in Table /\ [proc EXCEPT ![s] = E][s] = E
      /\ \A y \in Slots \ {s} : [proc EXCEPT ![s] = E][y] = proc[y]
  BY <1>2, EntryAt
<1>5. V \in Table /\ V[s] = E /\ \A y \in Slots \ {s} : V[y] = proc[y]
  BY <1>3, <1>4
<1> QED
  BY <1>2, <1>5 DEF Blocked, V

\* It is blocked: the invariant holds, except that a zombie may be beside it.
LEMMA BlockedKept ==
  ASSUME Sized, NEW T, TableInv(T, {}), NEW s \in Slots, T[s].call = "user", NEW n \in Int,
         n >= -1, s = INIT => n = -1, NEW V, Blocked(T, V, s, n)
  PROVE  /\ Entries(V) /\ Pids(V) /\ InitLives(V) /\ Tree(V, {})
         /\ NoneBut(V, s)
         /\ \A x \in Slots : Living(V, x) <=> Living(T, x)
         /\ \A x \in Slots : "INUSE" \in V[x].flags <=> "INUSE" \in T[x].flags
<1>1. /\ T \in Table /\ V \in Table /\ Living(T, s)
      /\ \A x \in Slots \ {s} : V[x] = T[x]
      /\ \A x \in Slots : V[x].ep = T[x].ep /\ V[x].parent = T[x].parent /\ V[x].pid = T[x].pid
  BY DEF TableInv, Entries, Blocked
<1>2. \A x \in Slots : /\ Living(V, x) <=> Living(T, x)
                       /\ "INUSE" \in V[x].flags <=> "INUSE" \in T[x].flags
                       /\ "HANGING" \in V[x].flags <=> "HANGING" \in T[x].flags
  BY DEF Blocked, Living
<1>3. Entries(V)
  <2>1. /\ "INUSE" \in V[s].flags /\ V[s].pid > 0 /\ Living(V, s) /\ V[s].call = "wait"
        /\ "WAITING" \in V[s].flags /\ V[s].wait_pid >= -1
    BY <1>1, <1>2 DEF Blocked, TableInv, Entries, Living
  <2>2. \A x \in Slots \ {s} : V[x] = T[x]
    BY <1>1
  <2> QED
    BY <1>1, <2>1, <2>2 DEF TableInv, Entries, Living
<1>4. Pids(V)
  BY <1>1 DEF TableInv, Pids
<1>5. InitLives(V)
  <2>1. INIT \in Slots
    BY SlotsFinite
  <2>2. Living(V, INIT) /\ V[INIT].ep = 0 /\ V[INIT].parent = Endpoint(INIT, 0)
    BY <1>1, <1>2, <2>1 DEF TableInv, InitLives
  <2>3. CASE s = INIT
    <3>1. V[INIT].wait_pid = -1
      BY <2>3 DEF Blocked
    <3> QED
      BY <2>2, <3>1 DEF InitLives
  <2>4. CASE s # INIT
    <3>1. V[INIT] = T[INIT]
      BY <1>1, <2>1, <2>4
    <3> QED
      BY <2>2, <3>1 DEF TableInv, InitLives
  <2> QED
    BY <2>3, <2>4
<1>6. Tree(V, {})
  BY <1>1, <1>2, Fields DEF TableInv, Tree, IsChild
<1>7. NoneBut(V, s)
  <2> SUFFICES ASSUME NEW w \in Slots, NEW c \in Slots,
                      w # s, V[w].call = "wait", V[w].wait_pid # 0,
                      "HANGING" \in V[c].flags, IsChild(V, c, w)
               PROVE  V[w].wait_pid # -1 /\ V[w].wait_pid # V[c].pid
    BY DEF NoneBut
  <2>1. V[w] = T[w] /\ V[c].pid = T[c].pid /\ "HANGING" \in T[c].flags
    BY <1>1, <1>2
  <2>2. IsChild(T, c, w)
    BY <1>1 DEF IsChild
  <2> QED
    BY <2>1, <2>2 DEF TableInv, NoneBeside
<1> QED
  BY <1>2, <1>3, <1>4, <1>5, <1>6, <1>7

\* What every request does to the table, but for who lives after it
Kept == TableInv(proc', {}) /\ Releases(proc, proc')

LEMMA BlocksStep ==
  ASSUME Sized, PMInv, NEW s \in Slots, NEW n \in Args(s), WaitBlocks(s, n)
  PROVE  Kept /\ \A x \in Slots : Living(proc', x) <=> Living(proc, x)
<1> DEFINE V == Waiting(s, n)
<1>1. proc' = V /\ proc[s].call = "user" /\ Zombies(s, n) = {} /\ TableInv(proc, {})
  BY DEF WaitBlocks, Asks, PMInv
<1>2. n \in Int /\ n >= -1 /\ (s = INIT => n = -1) /\ proc \in Table
  BY <1>1, ArgsOf DEF TableInv, Entries
<1>3. Blocked(proc, V, s, n)
  BY <1>2, WaitingFields
<1> HIDE DEF V
<1>4. /\ Entries(V) /\ Pids(V) /\ InitLives(V) /\ Tree(V, {})
      /\ NoneBut(V, s)
      /\ \A x \in Slots : Living(V, x) <=> Living(proc, x)
      /\ \A x \in Slots : "INUSE" \in V[x].flags <=> "INUSE" \in proc[x].flags
  BY <1>1, <1>2, <1>3, BlockedKept
<1>5. ASSUME NEW c \in Slots, V[s].wait_pid # 0, "HANGING" \in V[c].flags, IsChild(V, c, s)
      PROVE  V[s].wait_pid # -1 /\ V[s].wait_pid # V[c].pid
  <2>1. /\ V[s].wait_pid = n /\ "HANGING" \in proc[c].flags /\ V[c].pid = proc[c].pid
        /\ IsChild(proc, c, s)
    BY <1>3, <1>5 DEF Blocked, IsChild
  <2>2. ~(n > 0 => proc[c].pid = n)
    BY <1>1, <2>1, ZombiesOf
  <2> QED
    BY <1>2, <2>1, <2>2
<1>6. NoneBeside(V)
  BY <1>4, <1>5 DEF NoneBeside, NoneBut
<1> QED
  BY <1>1, <1>4, <1>6 DEF Kept, TableInv, Releases

LEMMA ReapsStep ==
  ASSUME Sized, PMInv, NEW s \in Slots, NEW n \in Args(s), WaitReaps(s, n)
  PROVE  Kept /\ \A x \in Slots : Living(proc', x) <=> Living(proc, x)
<1> DEFINE V == Waiting(s, n)
           z == Min(Zombies(s, n))
<1>1. /\ proc' = check_parent(V, z) /\ proc[s].call = "user" /\ Zombies(s, n) # {}
      /\ TableInv(proc, {})
  BY DEF WaitReaps, Asks, PMInv
<1>2. /\ n \in Int /\ n >= -1 /\ (s = INIT => n = -1) /\ proc \in Table /\ Living(proc, s)
  BY <1>1, ArgsOf DEF TableInv, Entries
<1>3. Blocked(proc, V, s, n)
  BY <1>2, WaitingFields
<1>4. z \in Zombies(s, n)
  <2>1. Zombies(s, n) \subseteq Nat
    BY <1>1, ZombiesOf, SlotsFinite
  <2> QED
    BY <1>1, <2>1, Least
<1>5. /\ z \in Slots /\ IsChild(proc, z, s) /\ "HANGING" \in proc[z].flags
      /\ n > 0 => proc[z].pid = n
  BY <1>1, <1>4, ZombiesOf
<1> HIDE DEF V, z
<1>6. /\ Entries(V) /\ Pids(V) /\ InitLives(V) /\ Tree(V, {})
      /\ NoneBut(V, s)
      /\ \A x \in Slots : Living(V, x) <=> Living(proc, x)
      /\ \A x \in Slots : "INUSE" \in V[x].flags <=> "INUSE" \in proc[x].flags
  BY <1>1, <1>2, <1>3, BlockedKept
<1>7. /\ z # s /\ V[z] = proc[z] /\ V[z].parent.slot = s /\ V \in Table
      /\ V[s].call = "wait" /\ Living(V, s) /\ "HANGING" \in V[z].flags
      /\ "WAITING" \in V[s].flags /\ V[s].wait_pid = n
  BY <1>2, <1>3, <1>5, <1>6 DEF Blocked, IsChild, Living
<1>8. CASE n # 0
  <2>1. waiting_for(V, s, z)
    BY <1>2, <1>5, <1>7, <1>8 DEF waiting_for
  <2>2. proc' = cleanup(tell_parent(V, z), z)
    BY <1>1, <1>7, <2>1 DEF check_parent
  <2>3. Keeps(V, proc') /\ Reaped(V, proc', z, s)
    BY <1>5, <1>7, <2>2, ReapFields
  <2>4. /\ TableInv(proc', {}) /\ proc'[s].call = "user"
        /\ \A x \in Slots : (Living(proc', x) <=> Living(V, x)) /\ proc'[x].status = V[x].status
        /\ \A x \in Slots \ {z} : "INUSE" \in V[x].flags => "INUSE" \in proc'[x].flags
    <3>1. TableInv(proc', {}) /\ OnlyReaps(V, proc', z, s)
      BY <1>5, <1>6, <1>7, <2>3, ReapedKept
    <3> QED
      BY <3>1 DEF OnlyReaps
  <2>5. /\ proc'[s].got = [pid |-> proc[z].pid, status |-> proc'[z].status]
        /\ proc[s].call \in {"user", "wait"}
    BY <1>1, <1>5, <1>7, <2>3, <2>4 DEF Reaped
  <2>6. Releases(proc, proc')
    BY <1>6, <2>4, <2>5 DEF Releases
  <2> QED
    BY <1>6, <2>4, <2>6 DEF Kept
<1>9. CASE n = 0
  <2>1. ~waiting_for(V, s, z)
    <3>1. proc[z].pid > 0
      BY <1>5, <1>1 DEF TableInv, Entries
    <3> QED
      BY <1>7, <1>9, <3>1 DEF waiting_for
  <2>2. proc' = [V EXCEPT ![z].flags = @ \cup {"HANGING"}]
    BY <1>1, <1>7, <2>1 DEF check_parent
  <2>3. V[z].flags \cup {"HANGING"} = V[z].flags
    BY <1>7
  <2>4. proc' = [V EXCEPT ![z].flags = V[z].flags]
    BY <2>2, <2>3
  <2>5. proc' = V
    BY <1>5, <1>7, <2>4 DEF Table, Entry
  <2>6. NoneBeside(V)
    BY <1>6, <1>7, <1>9 DEF NoneBeside, NoneBut
  <2> QED
    BY <1>6, <2>5, <2>6 DEF Kept, TableInv, Releases
<1> QED
  BY <1>8, <1>9

LEMMA WaitStep ==
  ASSUME Sized, PMInv, NEW s \in Slots, NEW n \in Args(s), do_wait(s, n)
  PROVE  PMInv' /\ Releases(proc, proc')
<1>1. /\ Kept /\ \A x \in Slots : Living(proc', x) <=> Living(proc, x)
  <2>1. CASE WaitReaps(s, n)
    BY <2>1, ReapsStep
  <2>2. CASE WaitBlocks(s, n)
    BY <2>2, BlocksStep
  <2>3. CASE WaitNoHang(s, n) \/ WaitFails(s, n)
    <3>1. TableInv(proc, {}) /\ proc \in Table /\ n \in Int
      BY ArgsOf DEF PMInv, TableInv, Entries
    <3>2. PICK g \in [pid : Int, status : Status] : proc' = [proc EXCEPT ![s].got = g]
      <4>1. \A k \in Int : [pid |-> k, status |-> NO_STATUS] \in [pid : Int, status : Status]
        BY DEF Status
      <4>2. CASE WaitNoHang(s, n)
        BY <3>1, <4>1, <4>2 DEF WaitNoHang
      <4>3. CASE WaitFails(s, n)
        <5>1. -1 \in Int
          OBVIOUS
        <5>2. proc' = [proc EXCEPT ![s].got = [pid |-> -1, status |-> NO_STATUS]]
          BY <4>3 DEF WaitFails
        <5> QED
          BY <4>1, <5>1, <5>2
      <4> QED
        BY <2>3, <4>2, <4>3
    <3>3. Answered(proc, [proc EXCEPT ![s].got = g])
      BY <3>1, AnsweredFields
    <3>4. Answered(proc, proc')
      BY <3>2, <3>3
    <3> QED
      BY <3>1, <3>4, AnsweredKept DEF Kept
  <2> QED
    BY <2>1, <2>2, <2>3 DEF do_wait
<1>2. files' = files /\ vfs_up' = vfs_up
  BY DEF do_wait, WaitReaps, WaitBlocks, WaitNoHang, WaitFails
<1> QED
  BY <1>1, <1>2 DEF PMInv, Kept

LEMMA ForkStep ==
  ASSUME Sized, PMInv, NEW s \in Slots, do_fork(s)
  PROVE  PMInv' /\ Releases(proc, proc')
<1> DEFINE free == {k \in Slots : ~InUse(proc, k)}
           c == Min(free)
           E == [Free(proc[c].ep + 1) EXCEPT !.flags = {"INUSE"}, !.call = "user",
                   !.parent = Endpoint(s, proc[s].ep), !.pid = find_free_pid]
<1>1. /\ TableInv(proc, {}) /\ proc \in Table /\ proc[s].call = "user" /\ free # {}
      /\ proc' = [proc EXCEPT ![c] = E] /\ files' = files \cup {c} /\ vfs_up' = vfs_up /\ vfs_up
      /\ files = {x \in Slots : Living(proc, x)}
  BY DEF do_fork, Asks, PMInv, TableInv, Entries
<1>2. c \in Slots /\ "INUSE" \notin proc[c].flags
  <2>1. c \in free
    BY <1>1, SlotsFinite, Least
  <2> QED
    BY <2>1 DEF InUse
<1> HIDE DEF c
<1>3. /\ Living(proc, s) /\ s # c /\ INIT # c /\ INIT \in Slots /\ proc[c].ep \in Nat
      /\ proc[s].ep \in Nat /\ ~Living(proc, c)
  BY <1>1, <1>2, Fields, SlotsFinite DEF TableInv, Entries, Living, InitLives
<1>4. /\ find_free_pid \in Nat /\ find_free_pid > 0
      /\ \A x \in Slots : proc[x].pid # find_free_pid
  BY <1>1, FreePid DEF INIT_PID
<1>5. /\ E.flags = {"INUSE"} /\ E.call = "user" /\ E.parent = [slot |-> s, gen |-> proc[s].ep]
      /\ E.pid = find_free_pid /\ E.ep = proc[c].ep + 1 /\ E.wait_pid = 0
      /\ E.status = NO_STATUS /\ E.got = [pid |-> 0, status |-> NO_STATUS]
  BY DEF Free, Endpoint
<1>6. E \in Entry
  <2>1. Endpoint(s, proc[s].ep) \in [slot : Slots, gen : Nat]
    BY <1>3 DEF Endpoint
  <2>2. Endpoint(INIT, 0) \in [slot : Slots, gen : Nat]
    BY <1>3 DEF Endpoint
  <2>3. [pid |-> 0, status |-> NO_STATUS] \in [pid : Int, status : Status]
    BY DEF Status
  <2>4. Free(proc[c].ep + 1) \in Entry
    BY <1>3, <2>2, <2>3 DEF Free, Entry, Status
  <2> QED
    BY <1>4, <2>1, <2>4 DEF Entry
<1> HIDE DEF E
<1>7. proc' \in Table /\ proc'[c] = E /\ \A x \in Slots \ {c} : proc'[x] = proc[x]
  <2>1. proc \in Table
    BY <1>1
  <2>2. /\ [proc EXCEPT ![c] = E] \in Table /\ [proc EXCEPT ![c] = E][c] = E
        /\ \A y \in Slots \ {c} : [proc EXCEPT ![c] = E][y] = proc[y]
    BY <1>2, <1>6, <2>1, EntryAt
  <2> QED
    BY <1>1, <2>2
<1>8. Living(proc', c) /\ \A x \in Slots \ {c} : Living(proc', x) <=> Living(proc, x)
  BY <1>5, <1>7 DEF Living
<1>9. Entries(proc')
  <2>1. ASSUME NEW x \in Slots
        PROVE  /\ "INUSE" \notin proc'[x].flags => proc'[x].flags = {} /\ proc'[x].pid = 0
               /\ "INUSE" \in proc'[x].flags => proc'[x].pid > 0
               /\ Living(proc', x) <=> proc'[x].call # "dead"
               /\ Living(proc', x) => ("WAITING" \in proc'[x].flags <=> proc'[x].call = "wait")
               /\ proc'[x].wait_pid >= -1
    <3>1. CASE x = c
      BY <1>4, <1>5, <1>7, <1>8, <3>1
    <3>2. CASE x # c
      BY <1>1, <1>7, <1>8, <3>2 DEF TableInv, Entries
    <3> QED
      BY <3>1, <3>2
  <2> QED
    BY <1>7, <2>1 DEF Entries
<1>10. Pids(proc')
  <2>1. \A x \in Slots \ {c} : proc'[x].pid = proc[x].pid
    BY <1>7
  <2>2. proc'[c].pid = find_free_pid
    BY <1>5, <1>7
  <2> QED
    BY <1>1, <1>2, <1>4, <2>1, <2>2 DEF TableInv, Pids
<1>11. InitLives(proc')
  BY <1>1, <1>3, <1>7, <1>8 DEF TableInv, InitLives
<1>12. Tree(proc', {})
  <2> SUFFICES ASSUME NEW x \in Slots, "INUSE" \in proc'[x].flags
               PROVE  /\ x # INIT => proc'[x].parent.slot # x
                      /\ IsChild(proc', x, proc'[x].parent.slot)
                      /\ Living(proc', proc'[x].parent.slot)
    BY DEF Tree
  <2>1. CASE x = c
    BY <1>3, <1>5, <1>7, <1>8, <2>1 DEF IsChild
  <2>2. CASE x # c
    <3>1. proc'[x] = proc[x] /\ proc[x].parent.slot \in Slots /\ "INUSE" \in proc[x].flags
      BY <1>1, <1>7, <2>2, Fields
    <3>2. Living(proc, proc[x].parent.slot)
      BY <1>1, <3>1 DEF TableInv, Tree
    <3>3. proc[x].parent.slot # c
      BY <1>3, <3>2
    <3>4. proc'[proc[x].parent.slot] = proc[proc[x].parent.slot]
      BY <1>7, <3>1, <3>3
    <3>5. (x # INIT => proc[x].parent.slot # x) /\ IsChild(proc, x, proc[x].parent.slot)
      BY <1>1, <3>1 DEF TableInv, Tree
    <3> QED
      BY <1>8, <3>1, <3>2, <3>3, <3>4, <3>5 DEF IsChild
  <2> QED
    BY <2>1, <2>2
<1>13. NoneBeside(proc')
  <2> SUFFICES ASSUME NEW w \in Slots, NEW x \in Slots, proc'[w].call = "wait",
                      proc'[w].wait_pid # 0, "HANGING" \in proc'[x].flags, IsChild(proc', x, w)
               PROVE  proc'[w].wait_pid # -1 /\ proc'[w].wait_pid # proc'[x].pid
    BY DEF NoneBeside
  <2>1. w # c /\ x # c
    BY <1>5, <1>7
  <2>2. proc'[w] = proc[w] /\ proc'[x] = proc[x] /\ IsChild(proc, x, w)
    BY <1>7, <2>1 DEF IsChild
  <2> QED
    BY <1>1, <2>2 DEF TableInv, NoneBeside
<1>14. Releases(proc, proc')
  BY <1>2, <1>7 DEF Releases
<1>15. files' = {x \in Slots : Living(proc', x)}
  BY <1>1, <1>2, <1>8
<1> QED
  BY <1>1, <1>9, <1>10, <1>11, <1>12, <1>13, <1>14, <1>15 DEF PMInv, TableInv

\* exit() and a signal that ends process d, whatever it does
LEMMA EndStep ==
  ASSUME Sized, PMInv, NEW d \in Slots, d # INIT, "INUSE" \in proc[d].flags, vfs_up,
         NEW status \in {"exit", "signal"}, fs_exit(d), proc' = exit_proc(proc, d, status)
  PROVE  PMInv' /\ Releases(proc, proc')
<1>1. /\ TableInv(proc', {}) /\ Releases(proc, proc')
      /\ \A x \in Slots : Living(proc', x) <=> Living(proc, x) /\ x # d
  <2>1. TableInv(proc, {})
    BY DEF PMInv
  <2> QED
    BY <2>1, ExitKept
<1>2. files' = files \ {d} /\ vfs_up' = (d \in files) /\ files = {x \in Slots : Living(proc, x)}
  BY DEF fs_exit, PMInv
<1>3. files' = {x \in Slots : Living(proc', x)}
  BY <1>1, <1>2
<1>4. vfs_up' \in BOOLEAN /\ files' \subseteq Slots
  BY <1>2, <1>3
<1> QED
  BY <1>1, <1>3, <1>4 DEF PMInv

\* A step that changes nothing
LEMMA RestStep ==
  ASSUME PMInv, UNCHANGED vars
  PROVE  PMInv' /\ Releases(proc, proc')
<1>1. proc' = proc /\ files' = files /\ vfs_up' = vfs_up
  BY DEF vars
<1>2. TableInv(proc', {})
  BY <1>1 DEF PMInv
<1>3. Releases(proc, proc')
  BY <1>1 DEF Releases
<1> QED
  BY <1>1, <1>2, <1>3 DEF PMInv

LEMMA RequestStep ==
  ASSUME Sized, PMInv, Next
  PROVE  PMInv' /\ Releases(proc, proc')
<1>1. PICK s \in Slots : \/ do_fork(s) \/ ForkFails(s) \/ do_exit(s)
                         \/ \E d \in Slots : do_kill(s, d)
                         \/ \E n \in Args(s) : do_wait(s, n)
  BY DEF Next
<1>2. CASE do_fork(s)
  BY <1>2, ForkStep
<1>3. CASE ForkFails(s)
  <2>1. UNCHANGED vars
    BY <1>3 DEF ForkFails
  <2> QED
    BY <2>1, RestStep
<1>4. CASE do_exit(s)
  <2>1. "INUSE" \in proc[s].flags
    BY <1>4 DEF do_exit, Asks, PMInv, TableInv, Entries, Living
  <2> QED
    BY <1>4, <2>1, EndStep DEF do_exit, Asks
<1>5. ASSUME NEW d \in Slots, do_kill(s, d)
      PROVE  PMInv' /\ Releases(proc, proc')
  BY <1>5, EndStep DEF do_kill, Asks, InUse
<1>6. ASSUME NEW n \in Args(s), do_wait(s, n)
      PROVE  PMInv' /\ Releases(proc, proc')
  BY <1>6, WaitStep
<1> QED
  BY <1>1, <1>2, <1>3, <1>4, <1>5, <1>6

LEMMA PMInvariant ==
  ASSUME Sized
  PROVE  Spec => []PMInv
<1>1. Init => PMInv
  <2> SUFFICES ASSUME Init PROVE PMInv
    OBVIOUS
  <2> DEFINE F == Free(0)
             I == [F EXCEPT !.flags = {"INUSE"}, !.pid = INIT_PID, !.call = "user"]
  <2>1. INIT \in Slots
    BY SlotsFinite
  <2>2. /\ F.flags = {} /\ F.ep = 0 /\ F.parent = [slot |-> INIT, gen |-> 0] /\ F.pid = 0
        /\ F.wait_pid = 0 /\ F.call = "dead"
    BY DEF Free, Endpoint
  <2>3. F \in Entry
    <3>1. Endpoint(INIT, 0) \in [slot : Slots, gen : Nat]
      BY <2>1 DEF Endpoint
    <3>2. [pid |-> 0, status |-> NO_STATUS] \in [pid : Int, status : Status]
      BY DEF Status
    <3> QED
      BY <3>1, <3>2 DEF Free, Entry, Status
  <2>4. /\ I.flags = {"INUSE"} /\ I.ep = 0 /\ I.parent = [slot |-> INIT, gen |-> 0] /\ I.pid = 1
        /\ I.wait_pid = 0 /\ I.call = "user"
    BY DEF INIT_PID, Free, Endpoint
  <2>5. I \in Entry
    BY <2>3 DEF Entry, INIT_PID
  <2>6. proc = [s \in Slots |-> IF s # INIT THEN F ELSE I] /\ files = {INIT} /\ vfs_up = TRUE
    BY DEF Init
  <2> HIDE DEF F, I
  <2>7. proc \in Table /\ proc[INIT] = I /\ \A s \in Slots \ {INIT} : proc[s] = F
    BY <2>1, <2>3, <2>5, <2>6 DEF Table
  <2>8. Living(proc, INIT) /\ \A s \in Slots \ {INIT} : ~Living(proc, s)
    BY <2>2, <2>4, <2>7 DEF Living
  <2>9. Entries(proc)
    BY <2>2, <2>4, <2>7, <2>8 DEF Entries
  <2>10. Pids(proc) /\ NoneBeside(proc)
    BY <2>2, <2>4, <2>7 DEF Pids, NoneBeside
  <2>11. InitLives(proc)
    BY <2>4, <2>7, <2>8 DEF InitLives, Endpoint
  <2>12. Tree(proc, {})
    BY <2>1, <2>2, <2>4, <2>7, <2>8 DEF Tree, IsChild
  <2> QED
    BY <2>1, <2>6, <2>8, <2>9, <2>10, <2>11, <2>12 DEF PMInv, TableInv
<1>2. PMInv /\ [Next]_vars => PMInv'
  <2>1. ASSUME PMInv, UNCHANGED vars PROVE PMInv'
    BY <2>1, RestStep
  <2> QED
    BY <2>1, RequestStep
<1> QED
  BY <1>1, <1>2, PTL DEF Spec

-----------------------------------------------------------------------------

\* The variables of PM and VFS keep their types, and an entry has a pid exactly
\* while it is in use.
THEOREM PMTypes ==
  ASSUME Sized
  PROVE  Spec => []TypeOK
<1>1. PMInv => TypeOK
  <2> SUFFICES ASSUME PMInv PROVE TypeOK
    OBVIOUS
  <2>1. proc \in Table
    BY DEF PMInv, TableInv, Entries
  <2>2. ASSUME NEW s \in Slots
        PROVE  /\ proc[s].flags \subseteq {"INUSE", "WAITING", "HANGING"}
               /\ proc[s].pid \in (IF InUse(proc, s) THEN Nat \ {0} ELSE {0})
               /\ proc[s].wait_pid \in Int /\ proc[s].call \in {"user", "wait", "dead"}
    BY <2>1, Fields DEF PMInv, TableInv, Entries, InUse
  <2> QED
    BY <2>2 DEF PMInv, TypeOK
<1> QED
  BY <1>1, PMInvariant, PTL

\* exit_proc() leaves no orphan, for any size of the table: the parent of every
\* process, alive or zombie, is alive, under the endpoint that the child knows.
THEOREM NoOrphans ==
  ASSUME Sized
  PROVE  Spec => []OrphansAdopted
<1>1. PMInv => OrphansAdopted
  BY DEF PMInv, TableInv, Tree, OrphansAdopted, InUse, Alive, Living, IsChild
<1> QED
  BY <1>1, PMInvariant, PTL

\* do_wait() and exit_proc() do not miss each other, whichever comes first: who
\* waits for any child or for one by its pid has no such child that is a zombie.
THEOREM ZombiesNoticed ==
  ASSUME Sized
  PROVE  Spec => []NoSleepBesideZombie
<1>1. PMInv => NoSleepBesideZombie
  <2> SUFFICES ASSUME PMInv, NEW s \in Slots, proc[s].call = "wait", proc[s].wait_pid # 0,
                      NEW c \in Zombies(s, proc[s].wait_pid)
               PROVE  FALSE
    BY DEF NoSleepBesideZombie
  <2>1. TableInv(proc, {}) /\ proc[s].wait_pid \in Int /\ proc[s].wait_pid >= -1
    BY Fields DEF PMInv, TableInv, Entries
  <2>2. /\ c \in Slots /\ IsChild(proc, c, s) /\ "HANGING" \in proc[c].flags
        /\ proc[s].wait_pid > 0 => proc[c].pid = proc[s].wait_pid
    BY <2>1, ZombiesOf
  <2> QED
    BY <2>1, <2>2 DEF TableInv, NoneBeside
<1> QED
  BY <1>1, PMInvariant, PTL

\* PMPF_WAITING is set exactly while a process that lives is blocked in wait().
THEOREM WaitersFlagged ==
  ASSUME Sized
  PROVE  Spec => []WaitingIsBlocked
<1>1. PMInv => WaitingIsBlocked
  BY DEF PMInv, TableInv, Entries, WaitingIsBlocked, InUse, Alive, Living
<1> QED
  BY <1>1, PMInvariant, PTL

\* PM and VFS agree on who lives, as long as VFS runs, and no two processes have
\* the same pid: find_free_pid() always finds one that is free.
THEOREM PMAndVfsAgree ==
  ASSUME Sized
  PROVE  Spec => []TablesAgree
<1>1. PMInv => TablesAgree
  BY DEF PMInv, TableInv, Entries, Pids, TablesAgree, InUse, Alive, Living
<1> QED
  BY <1>1, PMInvariant, PTL

\* An entry of the table is released only in the step that tells a process that
\* was running or waiting the pid and the status of the one that ended.
THEOREM EndsAreTold ==
  ASSUME Sized
  PROVE  Spec => [][ReleasedWhenTold]_vars
<1>1. PMInv /\ [Next]_vars => [ReleasedWhenTold]_vars
  <2>1. ASSUME PMInv, Next PROVE ReleasedWhenTold
    BY <2>1, RequestStep DEF Releases, ReleasedWhenTold, InUse
  <2> QED
    BY <2>1
<1> QED
  BY <1>1, PMInvariant, PTL DEF Spec
=============================================================================
