------------------------------ MODULE PMSignal ------------------------------
(***************************************************************************)
(* Signals in the process manager, for one process without a tracer: its   *)
(* masks and dispositions, sigprocmask(), sigaction(), sigsuspend(), the   *)
(* frames that send_sig() pushes on its stack, and sigreturn().  PM is one *)
(* thread, so each call is one step.  A process that is sent several       *)
(* signals at once has several frames, and runs the newest first.          *)
(***************************************************************************)
EXTENDS Integers, Sequences, SequencesExt, FiniteSets

CONSTANTS Sigs,          \* signal numbers
          SIGKILL,
          ign_set, noign_set,
          Masks,         \* the sets that the program passes
          SaMasks,       \* the masks of its handlers
          MaxFrames

VARIABLES
  p       \* the pmproc, with the masks in the frames on its stack (frames),
          \* whether it is blocked in sigsuspend(), whether PM has sent it a
          \* reply it did not wait for (stray), how often it exited (exits), and
          \* the mask that each of its handlers set or began with (want)

vars == <<p>>

Init ==
  /\ p = [pending |-> {}, mask |-> {}, saved |-> {}, ignore |-> {}, catch |-> {},
          sa_mask |-> [s \in Sigs |-> {}], suspended |-> FALSE,
          frames |-> <<>>, blocked |-> FALSE, stray |-> FALSE, exits |-> 0,
          want |-> <<{}>>]

Alive == p.exits = 0

\* the order in which check_pending() looks at the signals
InOrder == SetToSortSeq(Sigs, <)

-----------------------------------------------------------------------------
(* What happens to a process q that is sent the signal s: each operator    *)
(* gives the process after it.                                             *)

\* mutant: the handler goes back to the mask of sigsuspend()
FrameMask_Now(q) == q.mask

\* si.mask
FrameMask(q) == IF q.suspended THEN q.saved ELSE q.mask

\* mutant: the flag stays set
Unsuspended_Flag(q) ==
  IF q.suspended THEN [q EXCEPT !.blocked = FALSE, !.stray = @ \/ ~q.blocked]
  ELSE q

\* a process in sigsuspend() is answered; nobody looks at sig_mask_saved after it
Unsuspended(q) ==
  IF q.suspended
  THEN [q EXCEPT !.suspended = FALSE, !.saved = {},
                 !.blocked = FALSE, !.stray = @ \/ ~q.blocked]
  ELSE q

\* sys_sigsend(): the frame, with the mask for sigreturn(), goes on the stack
Pushed(q) == Append(q.frames, FrameMask(q))

send_sig(q, s) ==
  Unsuspended([q EXCEPT
    !.frames = Pushed(q),
    !.mask = @ \cup q.sa_mask[s],
    !.want = Append(@, q.mask \cup q.sa_mask[s])])

\* bad_ignore
BadIgnore(q, s) == s \in noign_set /\ s \in q.ignore \cup q.mask

exit_proc(q) == [q EXCEPT !.exits = @ + 1, !.blocked = FALSE]

sig_proc(q, s) ==
  IF BadIgnore(q, s) THEN exit_proc(q)
  ELSE IF s \in q.ignore THEN q
  ELSE IF s \in q.mask THEN [q EXCEPT !.pending = @ \cup {s}]
  ELSE IF s \in q.catch THEN send_sig(q, s)
  ELSE IF s \in ign_set THEN q
  ELSE exit_proc(q)

\* mutant: one pending signal is handled, the others are left
check_pending_One(q) ==
  LET due == q.pending \ q.mask IN
  IF due = {} THEN q
  ELSE LET s == CHOOSE x \in due : \A y \in due : x <= y IN
       sig_proc([q EXCEPT !.pending = @ \ {s}], s)

\* one turn per signal, in the order of their numbers; the mask may grow and
\* the process may exit on the way
check_pending(q) ==
  FoldLeft(LAMBDA r, s : IF s \in r.pending \ r.mask
                         THEN sig_proc([r EXCEPT !.pending = @ \ {s}], s) ELSE r,
           q, InOrder)

-----------------------------------------------------------------------------
(* The calls of the process                                                *)

Runs == Alive /\ ~p.blocked

Ignored(q, s) ==
  [q EXCEPT !.ignore = @ \cup {s}, !.pending = @ \ {s}, !.catch = @ \ {s}]

do_sigaction(s, how, m) ==
  /\ Runs
  /\ s # SIGKILL
  /\ LET q == CASE how = "ign" -> Ignored(p, s)
                [] how = "dfl" -> [p EXCEPT !.ignore = @ \ {s}, !.catch = @ \ {s}]
                [] how = "handler" -> [p EXCEPT !.ignore = @ \ {s}, !.catch = @ \cup {s}] IN
     p' = [q EXCEPT !.sa_mask[s] = m \ {SIGKILL}]

\* the mask becomes m by the will of the program itself
Masked(m) == [p EXCEPT !.mask = m, !.want[Len(p.want)] = m]

SigprocmaskBlock(set) ==
  /\ Runs /\ set # {}
  /\ p' = Masked(p.mask \cup (set \ {SIGKILL}))

SigprocmaskUnblock(set) ==
  /\ Runs /\ set # {}
  /\ p' = check_pending(Masked(p.mask \ set))

SigprocmaskSet(set) ==
  /\ Runs /\ set # {}
  /\ p' = Masked(set \ {SIGKILL})

\* do_sigprocmask() with the empty set: the call asks for the mask
SigprocmaskGet == Runs /\ UNCHANGED vars

\* mutant: what is pending is not looked at
do_sigsuspend_Blind(m) ==
  /\ Runs
  /\ p' = [p EXCEPT !.saved = p.mask, !.mask = m \ {SIGKILL},
                    !.suspended = TRUE, !.blocked = TRUE]

do_sigsuspend(m) ==
  /\ Runs
  /\ p' = check_pending([p EXCEPT !.saved = p.mask, !.mask = m \ {SIGKILL},
                                  !.suspended = TRUE, !.blocked = TRUE])

\* The handler returns to __sigreturn, which passes the mask of the frame.
do_sigreturn ==
  /\ Runs /\ p.frames # <<>>
  /\ p' = [p EXCEPT !.mask = Last(p.frames) \ {SIGKILL},
                    !.frames = Front(@), !.want = Front(@)]

\* do_exec(): no handler survives, masks and ignored signals do
do_exec ==
  /\ Runs
  /\ p' = [p EXCEPT !.catch = {},
                    !.sa_mask = [s \in Sigs |-> IF s \in p.catch THEN {} ELSE @[s]],
                    !.frames = <<>>, !.want = <<p.mask>>]

\* do_kill() by any process, or process_ksig(): kill_sig() finds this one.
Kill(s) ==
  /\ Alive
  /\ Len(p.frames) < MaxFrames
  /\ p' = sig_proc(p, s)

Next ==
  \/ \E s \in Sigs : Kill(s)
  \/ \E s \in Sigs, how \in {"ign", "dfl"} : do_sigaction(s, how, {})
  \/ \E s \in Sigs, m \in SaMasks : do_sigaction(s, "handler", m)
  \/ \E m \in Masks : SigprocmaskBlock(m)
  \/ \E m \in Masks : SigprocmaskUnblock(m)
  \/ \E m \in Masks : SigprocmaskSet(m)
  \/ SigprocmaskGet
  \/ \E m \in Masks : do_sigsuspend(m)
  \/ do_sigreturn
  \/ do_exec

Spec == Init /\ [][Next]_vars

-----------------------------------------------------------------------------
\* The process is as do_sigaction(), do_sigprocmask() and send_sig() write it;
\* every frame and the program itself have a mask.
TypeOK ==
  /\ p.pending \subseteq Sigs /\ p.mask \subseteq Sigs /\ p.saved \subseteq Sigs
  /\ p.ignore \subseteq Sigs /\ p.catch \subseteq Sigs \ p.ignore
  /\ p.sa_mask \in [Sigs -> SUBSET Sigs]
  /\ Len(p.want) = Len(p.frames) + 1
  /\ p.exits \in Nat

\* Whatever handlers ran, were interrupted by others, or came out of
\* sigsuspend(), a handler that returns gives back the mask that the code it
\* interrupted had (send_sig(), do_sigreturn()).
MaskRestored ==
  Alive /\ ~p.suspended =>
    /\ p.mask = Last(p.want)
    /\ \A k \in DOMAIN p.frames : p.frames[k] = p.want[k]

\* No call, and no handler, leaves SIGKILL blocked (do_sigprocmask(),
\* do_sigsuspend(), do_sigaction(), do_sigreturn()).
KillNotBlocked ==
  /\ SIGKILL \notin p.mask \cup p.pending
  /\ \A k \in DOMAIN p.frames : SIGKILL \notin p.frames[k]

\* A process is answered by send_sig() exactly once for each sigsuspend(), so
\* that the blocking send of PM always finds it receiving.
AnsweredOnce == Alive => p.suspended = p.blocked /\ ~p.stray

\* No process sleeps in sigsuspend() beside a pending signal that would end
\* the sleep, whichever came first (do_sigsuspend(), check_pending()).
NoSleepBesideSignal == Alive /\ p.suspended => p.pending \subseteq p.mask

\* What is pending is neither ignored nor one of the signals of the hardware,
\* which are not held back (do_sigaction(), sig_proc()).
IgnoredNotPending == p.pending \cap (p.ignore \cup noign_set) = {}

\* SIG_UNBLOCK leaves no signal pending that the new mask lets through, even
\* when handlers started on the way block some again (check_pending()).
UnblockHandles ==
  \A m \in Masks : SigprocmaskUnblock(m) /\ p'.exits = 0 => p'.pending \subseteq p'.mask
=============================================================================
