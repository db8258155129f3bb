------------------------------- MODULE MCPm ---------------------------------
(***************************************************************************)
(* The process manager on small instances: the process table with fork,    *)
(* exit, wait and kill; the signals of a process; and what PM and the file *)
(* system server tell each other.  The three look at different fields, so  *)
(* a behaviour is about one of them, part, which the initial state         *)
(* chooses; the variables of the others are not used.                      *)
(***************************************************************************)
EXTENDS Integers, Sequences, FiniteSets

CONSTANTS p1, p2, p3, PM, FS, MM, ANY, NONE

VARIABLES
  part,
  proc, files, vfs_up, forks, kills,
  p,
  recvfrom, queue, msg, async, todo, work, asleep, in_pm, in_fs, call, made

procVars == <<proc, files, vfs_up, forks, kills>>
talkVars == <<recvfrom, queue, msg, async, todo, work, asleep, in_pm, in_fs, call, made>>
pmVars == <<part, procVars, p, talkVars>>

-----------------------------------------------------------------------------
(* The instances: three processes besides INIT; a process with a signal of   *)
(* each class (caught or fatal, ignored by default, of the hardware, and     *)
(* SIGKILL) and handlers that nest three deep; one that passes two masks;    *)
(* two processes that make four calls between them; and one alone, whose     *)
(* setuid() no call of another process crosses.                              *)

Table == INSTANCE PMProc WITH
  NR_PROCS <- 4, NO_STATUS <- NONE, MaxForks <- 3, MaxKills <- 2, Groups <- TRUE
Signals == INSTANCE PMSignal WITH
  Sigs <- {1, 2, 3, 4}, SIGKILL <- 4, ign_set <- {2}, noign_set <- {3},
  Masks <- {{1, 2, 3, 4}}, SaMasks <- {{}, {1, 4}},
  MaxFrames <- 3
TwoMasks == INSTANCE PMSignal WITH
  Sigs <- {1, 2, 4}, SIGKILL <- 4, ign_set <- {2}, noign_set <- {},
  Masks <- {{2, 4}, {1, 2}}, SaMasks <- {{1, 4}},
  MaxFrames <- 2
Talk == INSTANCE PmVfs WITH
  Procs <- {p1, p2, p3}, Born <- {p1, p2}, Calls <- {"fork", "exit", "exec", "signalfd", "kill"},
  MaxCalls <- 4
Alone == INSTANCE PmVfs WITH
  Procs <- {p1}, Born <- {p1}, Calls <- {"setid", "exec", "signalfd", "kill"}, MaxCalls <- 8

Unused == "unused"
ProcRests ==
  /\ proc = Unused /\ files = Unused /\ vfs_up = Unused /\ forks = Unused /\ kills = Unused
TalkRests ==
  /\ recvfrom = Unused /\ queue = Unused /\ msg = Unused /\ async = Unused /\ todo = Unused
  /\ work = Unused /\ asleep = Unused /\ in_pm = Unused /\ in_fs = Unused /\ call = Unused
  /\ made = Unused

PmInit ==
  \/ /\ part = "procs" /\ Table!Init /\ p = Unused /\ TalkRests
  \/ /\ part = "signals" /\ Signals!Init /\ ProcRests /\ TalkRests
  \/ /\ part = "masks" /\ TwoMasks!Init /\ ProcRests /\ TalkRests
  \/ /\ part = "talk" /\ Talk!Init /\ ProcRests /\ p = Unused
  \/ /\ part = "alone" /\ Alone!Init /\ ProcRests /\ p = Unused

TableStep == part = "procs" /\ Table!Next /\ UNCHANGED <<part, p, talkVars>>
SignalsStep == part = "signals" /\ Signals!Next /\ UNCHANGED <<part, procVars, talkVars>>
TwoMasksStep == part = "masks" /\ TwoMasks!Next /\ UNCHANGED <<part, procVars, talkVars>>
TalkStep == part = "talk" /\ Talk!Next /\ UNCHANGED <<part, procVars, p>>
AloneStep == part = "alone" /\ Alone!Next /\ UNCHANGED <<part, procVars, p>>

PmNext ==
  \/ TableStep
  \/ SignalsStep
  \/ TwoMasksStep
  \/ TalkStep
  \/ AloneStep

PmSpec == PmInit /\ [][PmNext]_pmVars

-----------------------------------------------------------------------------
(* Properties *)

\* PM and VFS agree on who exists: the files of a process are there from before
\* it runs until PM has finished with it.  Every process, zombies included, has
\* a living parent, which exit_proc() finds for orphans, and PMPF_WAITING is set
\* exactly while a process is blocked in wait().  What PM takes as the answer of
\* VFS to a request is that answer.
TablesAgree ==
  /\ part = "procs" =>
       Table!TypeOK /\ Table!WaitingIsBlocked /\ Table!TablesAgree /\ Table!OrphansAdopted
  /\ part = "talk" => Talk!TypeOK /\ Talk!FilesCleanedUp /\ Talk!ChildKnown /\ Talk!AnswerIsAnswer
  /\ part = "alone" =>
       Alone!TypeOK /\ Alone!FilesCleanedUp /\ Alone!ChildKnown /\ Alone!AnswerIsAnswer

\* Nobody sleeps beside what they wait for, whichever came first: wait() beside
\* a zombie, sigsuspend() beside a signal that its mask lets through.  The one
\* answer of sigsuspend() finds the process receiving.
NoSleepBesideEvent ==
  /\ part = "procs" => Table!NoSleepBesideZombie
  /\ part = "signals" => Signals!NoSleepBesideSignal /\ Signals!AnsweredOnce
  /\ part = "masks" => TwoMasks!NoSleepBesideSignal /\ TwoMasks!AnsweredOnce

\* Whatever handlers ran and nested, the mask is the one of the code that runs;
\* SIGKILL is never blocked, and ignored signals are not held.
MaskRestored ==
  /\ part = "signals" =>
       /\ Signals!TypeOK /\ Signals!MaskRestored
       /\ Signals!KillNotBlocked /\ Signals!IgnoredNotPending
  /\ part = "masks" =>
       /\ TwoMasks!TypeOK /\ TwoMasks!MaskRestored
       /\ TwoMasks!KillNotBlocked /\ TwoMasks!IgnoredNotPending

\* A table entry is released in the step that tells the parent how the process
\* ended, and SIG_UNBLOCK leaves no signal pending that the new mask lets through.
DoneAtOnce ==
  [][/\ part = "procs" => Table!ReleasedWhenTold
     /\ part = "signals" => Signals!UnblockHandles
     /\ part = "masks" => TwoMasks!UnblockHandles]_pmVars
=============================================================================
