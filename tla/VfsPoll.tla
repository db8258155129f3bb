------------------------------- MODULE VfsPoll -------------------------------
(***************************************************************************)
(* do_poll() and do_select() of the file system server                     *)
(* (servers/vfs/select.c): one process polls files 1 .. N in turn.  A file *)
(* of the server itself (a pipe, a counter) answers at once; a device file *)
(* asks its driver (cdev_poll(), sock_poll()) and the worker sleeps until  *)
(* the driver replies.  Drivers notify once what they were asked to watch. *)
(* The main loop takes messages and other calls only while the worker      *)
(* sleeps and was not woken (MainRuns).                                    *)
(***************************************************************************)
EXTENDS Integers, Sequences, FiniteSets

CONSTANTS
  N,
  Local,      \* the files of the server itself
  MaxEntries, \* MAX_INLINE_POLL_ENTRIES
  Select,     \* TRUE for do_select(), FALSE for do_poll()
  Timeout,    \* "none", "zero" or "some"
  MaxEvents   \* bound: how many times files become ready

Files == 1 .. N
Devices == Files \ Local

VARIABLES
  ready, watch, chan, events,   \* the files, and the messages of each driver
  pc, i, found,                 \* the call: where it is, the file, what is ready
  entries, qproc, triggered,    \* struct poll_wqueues
  timer, expired, timed_out,
  woken                         \* the worker is in the run queue

fileVars == <<ready, watch, chan, events>>
pollVars == <<found, entries, qproc>>
timeVars == <<timer, expired, timed_out>>
vars == <<fileVars, pc, i, pollVars, triggered, timeVars, woken>>

Init ==
  /\ ready \in [Files -> BOOLEAN] /\ watch = {} /\ events = 0
  /\ chan = [f \in Devices |-> <<>>]
  /\ pc = "idle" /\ i = 1 /\ found = {} /\ entries = {} /\ qproc = FALSE
  /\ triggered = FALSE /\ timer = FALSE /\ expired = FALSE /\ timed_out = FALSE
  /\ woken = FALSE

MainRuns == pc \in {"idle", "driver", "poll"} /\ ~woken

-----------------------------------------------------------------------------
(* the call *)

\* poll_initwait(); with a zero timeout nothing is queued
Call ==
  /\ pc = "idle" /\ pc' = "scan" /\ i' = 1 /\ found' = {} /\ entries' = {}
  /\ qproc' = (Timeout # "zero") /\ timed_out' = (Timeout = "zero")
  /\ triggered' = FALSE
  /\ UNCHANGED <<fileVars, timer, expired, woken>>

\* __pollwait(), which gives up silently when the entries are used
poll_wait(f) == IF qproc /\ Cardinality(entries) < MaxEntries THEN entries \cup {f}
                ELSE entries

\* what the file answered; the first that is ready ends the queueing
Answer(f, r) ==
  /\ found' = IF r THEN found \cup {f} ELSE found
  /\ qproc' = (qproc /\ ~r)
  /\ i' = f + 1

\* mutant: the file is looked at before the entry is queued
ScanLocal_NoQueue ==
  /\ pc = "scan" /\ i \in Local
  /\ Answer(i, ready[i])
  /\ UNCHANGED <<fileVars, pc, entries, triggered, timeVars, woken>>

ScanLocal ==
  /\ pc = "scan" /\ i \in Local
  /\ entries' = poll_wait(i) /\ Answer(i, ready[i])
  /\ UNCHANGED <<fileVars, pc, triggered, timeVars, woken>>

\* the request to the driver; the driver's process answers in its own time
ScanDevice ==
  /\ pc = "scan" /\ i \in Devices
  /\ entries' = poll_wait(i) /\ pc' = "driver"
  /\ UNCHANGED <<fileVars, i, found, qproc, triggered, timeVars, woken>>

\* poll_freewait()
Return == /\ pc' = "idle" /\ entries' = {}

\* the end of the loop over the files
EndScan ==
  /\ pc = "scan" /\ i = N + 1 /\ qproc' = FALSE
  /\ CASE found # {} \/ timed_out ->
            Return /\ UNCHANGED <<i, timer, expired>>
       [] found = {} /\ ~timed_out /\ ~triggered ->
            /\ pc' = "poll" /\ timer' = (Timeout = "some") /\ expired' = FALSE
            /\ UNCHANGED <<i, entries>>
       [] OTHER -> i' = 1 /\ UNCHANGED <<pc, entries, timer, expired>>
  /\ UNCHANGED <<fileVars, found, triggered, timed_out, woken>>

\* worker_wait() returns; cancel_timer()
Resume ==
  /\ pc = "poll" /\ woken
  /\ pc' = "scan" /\ i' = 1 /\ woken' = FALSE
  /\ timed_out' = expired /\ timer' = FALSE
  /\ triggered' = (Select /\ triggered)
  /\ UNCHANGED <<fileVars, pollVars, expired>>

-----------------------------------------------------------------------------
(* messages and events *)

\* pollwake() of the entry of file f
pollwake(f) ==
  IF f \in entries /\ pc = "poll" THEN triggered' = TRUE /\ woken' = TRUE
  ELSE UNCHANGED <<triggered, woken>>

\* select_timeout_check()
select_timeout_check ==
  /\ MainRuns /\ timer
  /\ timer' = FALSE /\ expired' = TRUE /\ woken' = (pc = "poll")
  /\ UNCHANGED <<fileVars, pc, i, pollVars, triggered, timed_out>>

\* another process writes to a pipe, a counter ...
LocalReady(f) ==
  /\ MainRuns /\ ~ready[f] /\ events < MaxEvents
  /\ ready' = [ready EXCEPT ![f] = TRUE] /\ events' = events + 1
  /\ pollwake(f)
  /\ UNCHANGED <<watch, chan, pc, i, pollVars, timeVars>>

\* ... or takes what was there
LocalTaken(f) ==
  /\ MainRuns /\ ready[f] /\ ready' = [ready EXCEPT ![f] = FALSE]
  /\ UNCHANGED <<watch, chan, events, pc, i, pollVars, triggered, timeVars, woken>>

\* ... or writes what a reader that is woken first takes at once
LocalInVain(f) ==
  /\ MainRuns /\ ~ready[f] /\ events < MaxEvents /\ events' = events + 1
  /\ pollwake(f)
  /\ UNCHANGED <<ready, watch, chan, pc, i, pollVars, timeVars>>

\* The driver answers the request for its file, and watches it if asked to.
DriverAnswers(f) ==
  /\ pc = "driver" /\ i = f /\ "reply" \notin {chan[f][k] : k \in DOMAIN chan[f]}
  /\ ~\E k \in DOMAIN chan[f] : chan[f][k] = "ready"
  /\ chan' = [chan EXCEPT ![f] = Append(@, IF ready[f] THEN "ready" ELSE "reply")]
  /\ watch' = IF ready[f] \/ timed_out THEN watch ELSE watch \cup {f}
  /\ UNCHANGED <<ready, events, pc, i, pollVars, triggered, timeVars, woken>>

DeviceReady(f) ==
  /\ ~ready[f] /\ events < MaxEvents /\ events' = events + 1
  /\ ready' = [ready EXCEPT ![f] = TRUE]
  /\ watch' = watch \ {f}
  /\ chan' = IF f \in watch THEN [chan EXCEPT ![f] = Append(@, "notify")] ELSE chan
  /\ UNCHANGED <<pc, i, pollVars, triggered, timeVars, woken>>

DeviceTaken(f) ==
  /\ ready[f] /\ ready' = [ready EXCEPT ![f] = FALSE]
  /\ UNCHANGED <<watch, chan, events, pc, i, pollVars, triggered, timeVars, woken>>

Taken(f) == chan' = [chan EXCEPT ![f] = Tail(@)]

\* cdev_reply_generic(), and the rest of cdev_poll() in the worker
cdev_reply(f) ==
  /\ MainRuns /\ chan[f] # <<>> /\ Head(chan[f]) \in {"reply", "ready"} /\ Taken(f)
  /\ pc = "driver" /\ i = f /\ pc' = "scan"
  /\ Answer(f, Head(chan[f]) = "ready")
  /\ UNCHANGED <<ready, watch, events, entries, triggered, timeVars, woken>>

\* cdev_poll_notify()
cdev_poll_notify(f) ==
  /\ MainRuns /\ chan[f] # <<>> /\ Head(chan[f]) = "notify" /\ Taken(f)
  /\ pollwake(f)
  /\ UNCHANGED <<ready, watch, events, pc, i, pollVars, timeVars>>

Worker == ScanLocal \/ ScanDevice \/ EndScan \/ Resume
Main == \/ select_timeout_check
        \/ \E f \in Devices : cdev_reply(f) \/ cdev_poll_notify(f)
Driver == \E f \in Devices : DriverAnswers(f)

Next ==
  \/ Call \/ Worker \/ Main \/ Driver
  \/ \E f \in Local : LocalReady(f) \/ LocalTaken(f) \/ LocalInVain(f)
  \/ \E f \in Devices : DeviceReady(f) \/ DeviceTaken(f)

Spec == Init /\ [][Next]_vars

-----------------------------------------------------------------------------

TypeOK ==
  /\ ready \in [Files -> BOOLEAN] /\ watch \subseteq Devices /\ events \in 0 .. MaxEvents
  /\ chan \in [Devices -> Seq({"reply", "ready", "notify"})]
  /\ pc \in {"idle", "scan", "driver", "poll"} /\ i \in 1 .. N + 1
  /\ found \subseteq Files /\ entries \subseteq Files
  /\ {qproc, triggered, timer, expired, timed_out, woken} \subseteq BOOLEAN

Notified(f) == "notify" \in {chan[f][k] : k \in DOMAIN chan[f]}

\* poll() sleeps only while nothing it polls is ready: a file became ready either
\* before the worker looked at it or after it could be woken by it.
SleepsUnready ==
  MainRuns /\ pc = "poll" =>
    /\ \A f \in Local : ~ready[f]
    /\ \A f \in Devices : ready[f] => Notified(f)

\* The entries and the timer are on the stack of the call: when it returns, no
\* wait queue and no timer list holds them.
StackUnlinked == (timer => pc = "poll") /\ (pc = "idle" => entries = {})
=============================================================================
