----------------------------- MODULE EventLoop -----------------------------
(***************************************************************************)
(* The run time every service of the gateway is built on: the command      *)
(* queue of core::Executer, the epoll loop of core::Synchronizer with its  *)
(* eventfd "skipper", and the threads that post into them.                 *)
(*                                                                         *)
(* One thread, Main, runs Application::exec.  The callback threads of the  *)
(* MQTT library post commands with Application::schedule, which pushes     *)
(* under a lock and then writes the eventfd; Main posts too, from inside   *)
(* the commands and the descriptor callbacks it executes.  Exit requests   *)
(* come from a signal handler and from the MQTT threads, without the lock  *)
(* and without a wakeup.                                                   *)
(***************************************************************************)
EXTENDS Integers, Sequences, FiniteSets, Functions

CONSTANTS
  Threads,   \* callback threads of the MQTT library
  Main,      \* the thread in Application::exec
  Signal,    \* the SIGINT handler
  Free,      \* the lock's owner when nobody holds it
  Commands,  \* command objects, each created and scheduled once
  Source     \* who creates a command: a thread, the execution of another
             \* command, or (Main) a descriptor's callback

ASSUME ActorsAssumption ==
  /\ Main \notin Threads /\ Signal \notin Threads /\ Free \notin Threads
  /\ Main # Signal /\ Main # Free /\ Signal # Free
  /\ Main \notin Commands

ASSUME SourceAssumption ==
  Source \in [Commands -> Threads \cup {Main} \cup Commands]

\* A process has finitely many threads; finitely many commands is the bound
\* that keeps the eventfd's counter finite.
ASSUME FiniteAssumption == IsFiniteSet(Commands) /\ IsFiniteSet(Threads)

Posters == Threads \cup {Main}
Exiters == Threads \cup {Signal}
Actors  == Threads \cup {Main, Signal}

VARIABLES
  commands,   \* Executer::_commands
  primary,    \* Executer::_primary holds the Synchronize command
  locker,     \* owner of Executer::_locker, or Free
  running,    \* Executer::_running
  code,       \* Executer::_code
  skipper,    \* value of the eventfd
  open,       \* the Synchronizer exists, its eventfd is open
  connected,  \* the channels are connected: MQTT threads deliver
  pc,         \* where each actor is
  posting,    \* the command each poster is scheduling
  batch,      \* step()'s copy of the queue, what is left of it
  taken,      \* step()'s local primary
  current,    \* whose callback Main is in: a command, or Main for a descriptor
  ready,      \* what epoll_wait reported and is not dispatched yet
  result,     \* what Executer::exec returned
  fresh,      \* commands not created yet
  executed,   \* commands executed, in order
  exits       \* exit requests made: not yet, while starting, or later

loopVars == <<commands, primary, locker, running, code, skipper, open, connected>>
mainVars == <<batch, taken, current, ready, result>>
history  == <<fresh, executed, exits>>
vars == <<loopVars, mainVars, pc, posting, history>>

ConnectionLost == -10
ExitCode(e) == IF e = Signal THEN 0 ELSE ConnectionLost

InStep == {"copy", "clear", "run", "call", "lock", "push", "skip",
           "take", "wait", "dispatch", "restore"}
InLoop == InStep \cup {"test"}
MainLabels == {"initialize", "exec", "reset", "release", "stop", "done"} \cup InLoop
Labels == MainLabels \cup {"idle", "exit"}

Goto(a, label) == pc' = [pc EXCEPT ![a] = label]
MainAt(label)  == pc[Main] = label

----------------------------------------------------------------------------
\* Executer::_running and _code are not set by the constructor: _running may
\* hold anything before exec(); _code is never read before exec() resets it.
Init ==
  /\ commands = <<>> /\ primary = FALSE /\ locker = Free
  /\ running \in BOOLEAN /\ code = 0
  /\ skipper = 0 /\ open = FALSE /\ connected = FALSE
  /\ pc = [a \in Actors |-> IF a = Main THEN "initialize" ELSE "idle"]
  /\ posting = [t \in Posters |-> Free]
  /\ batch = <<>> /\ taken = FALSE /\ current = Main /\ ready = {}
  /\ result = 0
  /\ fresh = Commands /\ executed = <<>>
  /\ exits = [e \in Exiters |-> "no"]

(***************************************************************************)
(* Starting.  Synchronizer::start opens the eventfd and schedules the      *)
(* Synchronize command as the primary one; the application's initialize    *)
(* connects the channels, so the MQTT threads deliver from here on.        *)
(***************************************************************************)
Initialize ==
  /\ MainAt("initialize")
  /\ open' = TRUE /\ skipper' = 0
  /\ primary' = TRUE
  /\ connected' = TRUE
  /\ Goto(Main, "exec")
  /\ UNCHANGED <<commands, locker, running, code, mainVars, posting, history>>

ExecKeepsRunning ==   \* mutant: _running is not set
  /\ MainAt("exec")
  /\ Goto(Main, "reset")
  /\ UNCHANGED <<loopVars, mainVars, posting, history>>

Exec ==
  /\ MainAt("exec")
  /\ running' = TRUE
  /\ Goto(Main, "reset")
  /\ UNCHANGED <<commands, primary, locker, code, skipper, open, connected,
                 mainVars, posting, history>>

ResetCode ==
  /\ MainAt("reset")
  /\ code' = 0
  /\ Goto(Main, "test")
  /\ UNCHANGED <<commands, primary, locker, running, skipper, open, connected,
                 mainVars, posting, history>>

----------------------------------------------------------------------------
(***************************************************************************)
(* Executer::step.                                                         *)
(***************************************************************************)
\* while (_running): next step(), or, when exit() was called, drop the queue
\* without the lock and return the code.
Test ==
  /\ MainAt("test")
  /\ IF running
     THEN Goto(Main, "copy") /\ UNCHANGED <<commands, result>>
     ELSE Goto(Main, "release") /\ commands' = <<>> /\ result' = code
  /\ UNCHANGED <<primary, locker, running, code, skipper, open, connected,
                 batch, taken, current, ready, posting, history>>

CopyUnlocked ==   \* mutant: the lock is not taken around copy and clear
  /\ MainAt("copy")
  /\ batch' = commands
  /\ Goto(Main, "clear")
  /\ UNCHANGED <<loopVars, taken, current, ready, result, posting, history>>

Copy ==
  /\ MainAt("copy")
  /\ locker = Free
  /\ locker' = Main
  /\ batch' = commands
  /\ Goto(Main, "clear")
  /\ UNCHANGED <<commands, primary, running, code, skipper, open, connected,
                 taken, current, ready, result, posting, history>>

Clear ==
  /\ MainAt("clear")
  /\ commands' = <<>>
  /\ locker' = Free
  /\ Goto(Main, "run")
  /\ UNCHANGED <<primary, running, code, skipper, open, connected,
                 mainVars, posting, history>>

\* commands.front()->execute(), and the pop that follows.
Execute ==
  /\ MainAt("run")
  /\ batch # <<>>
  /\ executed' = Append(executed, Head(batch))
  /\ current' = Head(batch)
  /\ batch' = Tail(batch)
  /\ Goto(Main, "call")
  /\ UNCHANGED <<loopVars, taken, ready, result, posting, fresh, exits>>

\* The callback Main is in returns to the batch or to the event list.
Return ==
  /\ MainAt("call")
  /\ Goto(Main, IF current = Main THEN "dispatch" ELSE "run")
  /\ UNCHANGED <<loopVars, mainVars, posting, history>>

BatchDone ==
  /\ MainAt("run")
  /\ batch = <<>>
  /\ Goto(Main, "take")
  /\ UNCHANGED <<loopVars, mainVars, posting, history>>

\* The primary command leaves its slot while it executes.
Take ==
  /\ MainAt("take")
  /\ locker = Free
  /\ taken' = primary
  /\ primary' = FALSE
  /\ Goto(Main, IF primary THEN "wait" ELSE "test")
  /\ UNCHANGED <<commands, locker, running, code, skipper, open, connected,
                 batch, current, ready, result, posting, history>>

RestoreNothing ==   \* mutant: the primary command is not put back
  /\ MainAt("restore")
  /\ locker = Free
  /\ taken' = FALSE
  /\ Goto(Main, "test")
  /\ UNCHANGED <<loopVars, batch, current, ready, result, posting, history>>

Restore ==
  /\ MainAt("restore")
  /\ locker = Free
  /\ primary' = (primary \/ taken)
  /\ taken' = FALSE
  /\ Goto(Main, "test")
  /\ UNCHANGED <<commands, locker, running, code, skipper, open, connected,
                 batch, current, ready, result, posting, history>>

----------------------------------------------------------------------------
(***************************************************************************)
(* Synchronizer::synchronize: epoll_wait on the eventfd and on the other   *)
(* descriptors, then the callbacks of what is ready, in any order.         *)
(***************************************************************************)
Skipped ==
  /\ MainAt("wait")
  /\ skipper > 0
  /\ ready' \in {{"skipper"}, {"skipper", "descriptor"}}
  /\ Goto(Main, "dispatch")
  /\ UNCHANGED <<loopVars, batch, taken, current, result, posting, history>>

DescriptorReady ==
  /\ MainAt("wait")
  /\ skipper = 0
  /\ ready' = {"descriptor"}
  /\ Goto(Main, "dispatch")
  /\ UNCHANGED <<loopVars, batch, taken, current, result, posting, history>>

TimeoutNever == FALSE   \* mutant: epoll_wait blocks until something is ready

TimeoutDispatches ==   \* mutant: the event array is dispatched on a timeout too
  /\ MainAt("wait")
  /\ skipper = 0
  /\ ready' = {"skipper"}
  /\ Goto(Main, "dispatch")
  /\ UNCHANGED <<loopVars, batch, taken, current, result, posting, history>>

\* Nothing was ready for the configured time; no callback is called.
Timeout ==
  /\ MainAt("wait")
  /\ skipper = 0
  /\ Goto(Main, "restore")
  /\ UNCHANGED <<loopVars, mainVars, posting, history>>

\* The skipper's read(): eventfd_read returns the counter and clears it.
ReadSkipper ==
  /\ MainAt("dispatch")
  /\ "skipper" \in ready
  /\ skipper' = 0
  /\ ready' = ready \ {"skipper"}
  /\ UNCHANGED <<commands, primary, locker, running, code, open, connected,
                 batch, taken, current, result, pc, posting, history>>

CallDescriptor ==
  /\ MainAt("dispatch")
  /\ "descriptor" \in ready
  /\ ready' = ready \ {"descriptor"}
  /\ current' = Main
  /\ Goto(Main, "call")
  /\ UNCHANGED <<loopVars, batch, taken, result, posting, history>>

Dispatched ==
  /\ MainAt("dispatch")
  /\ ready = {}
  /\ Goto(Main, "restore")
  /\ UNCHANGED <<loopVars, mainVars, posting, history>>

----------------------------------------------------------------------------
(***************************************************************************)
(* Application::schedule, on any thread: lock, push, unlock, skip.         *)
(***************************************************************************)
\* An MQTT thread delivers a message or a delivery token.
Arrive(t, c) ==
  /\ pc[t] = "idle"
  /\ connected
  /\ c \in fresh /\ Source[c] = t
  /\ fresh' = fresh \ {c}
  /\ posting' = [posting EXCEPT ![t] = c]
  /\ Goto(t, "lock")
  /\ UNCHANGED <<loopVars, mainVars, executed, exits>>

\* The callback Main is in creates a command of its own.
CallbackPosts(c) ==
  /\ MainAt("call")
  /\ c \in fresh /\ Source[c] = current
  /\ fresh' = fresh \ {c}
  /\ posting' = [posting EXCEPT ![Main] = c]
  /\ Goto(Main, "lock")
  /\ UNCHANGED <<loopVars, mainVars, executed, exits>>

Lock(t) ==
  /\ pc[t] = "lock"
  /\ locker = Free
  /\ locker' = t
  /\ Goto(t, "push")
  /\ UNCHANGED <<commands, primary, running, code, skipper, open, connected,
                 mainVars, posting, history>>

PushNoSkip(t) ==   \* mutant: a thread does not write the eventfd
  /\ pc[t] = "push"
  /\ commands' = Append(commands, posting[t])
  /\ locker' = Free
  /\ Goto(t, IF t = Main THEN "call" ELSE "idle")
  /\ UNCHANGED <<primary, running, code, skipper, open, connected,
                 mainVars, posting, history>>

Push(t) ==
  /\ pc[t] = "push"
  /\ commands' = Append(commands, posting[t])
  /\ locker' = Free
  /\ Goto(t, "skip")
  /\ UNCHANGED <<primary, running, code, skipper, open, connected,
                 mainVars, posting, history>>

SkipTwice(t) ==   \* mutant: the eventfd is written twice
  /\ pc[t] = "skip"
  /\ skipper' = skipper + 2
  /\ posting' = [posting EXCEPT ![t] = Free]
  /\ Goto(t, IF t = Main THEN "call" ELSE "idle")
  /\ UNCHANGED <<commands, primary, locker, running, code, open, connected,
                 mainVars, history>>

Skip(t) ==
  /\ pc[t] = "skip"
  /\ skipper' = skipper + 1
  /\ posting' = [posting EXCEPT ![t] = Free]
  /\ Goto(t, IF t = Main THEN "call" ELSE "idle")
  /\ UNCHANGED <<commands, primary, locker, running, code, open, connected,
                 mainVars, history>>

----------------------------------------------------------------------------
(***************************************************************************)
(* Exit requests: two plain writes, no lock, no wakeup.  One request per   *)
(* exiter is the bound of the model.                                       *)
(***************************************************************************)
Exit(e) ==
  /\ pc[e] = "idle"
  /\ exits[e] = "no"
  /\ IF e = Signal THEN ~MainAt("initialize") ELSE connected
  /\ code' = ExitCode(e)
  /\ exits' = [exits EXCEPT ![e] = IF pc[Main] \in {"exec", "reset"}
                                   THEN "starting" ELSE "later"]
  /\ Goto(e, "exit")
  /\ UNCHANGED <<commands, primary, locker, running, skipper, open, connected,
                 mainVars, posting, fresh, executed>>

StopRunning(e) ==
  /\ pc[e] = "exit"
  /\ running' = FALSE
  /\ Goto(e, "idle")
  /\ UNCHANGED <<commands, primary, locker, code, skipper, open, connected,
                 mainVars, posting, history>>

----------------------------------------------------------------------------
(***************************************************************************)
(* Stopping.  The application's release destroys the channels: the MQTT    *)
(* library waits for the callback it is in, then its threads deliver no    *)
(* more.  Only then is the synchronizer stopped and deleted.               *)
(***************************************************************************)
ReleaseAtOnce ==   \* mutant: the channels' threads are not waited for
  /\ MainAt("release")
  /\ connected' = FALSE
  /\ Goto(Main, "stop")
  /\ UNCHANGED <<commands, primary, locker, running, code, skipper, open,
                 mainVars, posting, history>>

Release ==
  /\ MainAt("release")
  /\ \A t \in Threads : pc[t] = "idle"
  /\ connected' = FALSE
  /\ Goto(Main, "stop")
  /\ UNCHANGED <<commands, primary, locker, running, code, skipper, open,
                 mainVars, posting, history>>

Stop ==
  /\ MainAt("stop")
  /\ open' = FALSE
  /\ Goto(Main, "done")
  /\ UNCHANGED <<commands, primary, locker, running, code, skipper, connected,
                 mainVars, posting, history>>

\* exec() has returned: the process has nothing left to do.
Done == MainAt("done") /\ UNCHANGED vars

----------------------------------------------------------------------------
MainStep ==
  \/ Initialize \/ Exec \/ ResetCode \/ Test \/ Copy \/ Clear
  \/ Execute \/ Return \/ BatchDone \/ Take \/ Restore
  \/ Skipped \/ ReadSkipper \/ CallDescriptor \/ Dispatched
  \/ Release \/ Stop

PosterStep(t) == Lock(t) \/ Push(t) \/ Skip(t)

Next ==
  \/ MainStep
  \/ DescriptorReady
  \/ Timeout
  \/ \E t \in Posters : PosterStep(t)
  \/ \E t \in Threads, c \in Commands : Arrive(t, c)
  \/ \E c \in Commands : CallbackPosts(c)
  \/ \E e \in Exiters : Exit(e) \/ StopRunning(e)
  \/ Done

Spec == Init /\ [][Next]_vars

(***************************************************************************)
(* Fairness.  Main and a thread inside schedule() or exit() keep running.  *)
(* A thread that waits for the lock gets it: Main, its only steady         *)
(* competitor, holds it for one list copy per iteration and then blocks in *)
(* epoll_wait.  Nothing makes a message arrive, a descriptor ready, an     *)
(* exit happen or epoll_wait time out; the property that needs the timeout *)
(* assumes it.                                                             *)
(***************************************************************************)
FairSpec ==
  /\ Spec
  /\ WF_vars(MainStep)
  /\ \A t \in Posters : SF_vars(Lock(t)) /\ WF_vars(Push(t) \/ Skip(t))
  /\ \A e \in Exiters : WF_vars(StopRunning(e))

----------------------------------------------------------------------------
(***************************************************************************)
(* Properties.                                                             *)
(***************************************************************************)
\* Types and ranges.  The eventfd stays below the number of commands ever
\* scheduled, far from the 2^64 - 2 at which eventfd_write would block.
TypeOK ==
  /\ commands \in Seq(Commands) /\ batch \in Seq(Commands)
  /\ primary \in BOOLEAN /\ taken \in BOOLEAN
  /\ locker \in Posters \cup {Free}
  /\ running \in BOOLEAN /\ code \in {0, ConnectionLost}
  /\ skipper \in 0 .. Cardinality(Commands)
  /\ open \in BOOLEAN /\ connected \in BOOLEAN
  /\ pc \in [Actors -> Labels]
  /\ posting \in [Posters -> Commands \cup {Free}]
  /\ current \in Commands \cup {Main}
  /\ ready \subseteq {"skipper", "descriptor"}
  /\ result \in {0, ConnectionLost}
  /\ fresh \subseteq Commands /\ executed \in Seq(Commands)
  /\ exits \in [Exiters -> {"no", "starting", "later"}]

\* Where a queued command still relies on the eventfd to be noticed: from the
\* moment step() emptied the queue until Main has read the eventfd again.
Unaware ==
  \/ pc[Main] \in {"run", "take", "wait"}
  \/ pc[Main] \in {"call", "lock", "push", "skip"} /\ current # Main
  \/ "skipper" \in ready

\* No lost wakeup: while Main is in, or on its way into, epoll_wait, a queued
\* command has its eventfd write behind it or about to be made, so the
\* command does not sit there until the timeout (Application::schedule pushes
\* first and skips second; step() copies the queue before it waits).
NoLostWakeup ==
  commands # <<>> /\ Unaware =>
    skipper > 0 \/ \E t \in Posters : pc[t] = "skip"

\* Main never blocks in eventfd_read: the eventfd is blocking, and read() is
\* called only for a report that some other callback cannot have consumed.
ReadNeverBlocks == "skipper" \in ready => skipper > 0

\* Nobody schedules through a synchronizer that was stopped and deleted:
\* Application::schedule uses _synchronizer after it released the lock.
SynchronizerAlive ==
  \A t \in Posters : pc[t] \in {"lock", "push", "skip"} => open

\* The loop keeps its epoll_wait: the Synchronize command is in its slot or in
\* step()'s hands, never in neither, or the loop would spin without waiting.
PrimaryKept == MainAt("initialize") \/ (primary # taken)

\* The loop ends only for an exit request, and returns the code of one that
\* was made once it ran.  (A request made while exec() starts can be lost.)
EndsOnRequest ==
  pc[Main] \in {"release", "stop", "done"} =>
    \E e \in Exiters : \/ exits[e] = "starting"
                       \/ exits[e] = "later" /\ result = ExitCode(e)

\* While Main is between copy and clear, the queue and its copy are the same
\* commands; otherwise the batch comes before the queue.
Pending == IF MainAt("clear") THEN commands ELSE batch \o commands
Closed  == pc[Main] \in {"release", "stop", "done"}

Queue == INSTANCE CommandQueue WITH queue <- Pending, closed <- Closed

\* Every command is executed at most once and in the order schedule()
\* accepted them across all threads, and none after the loop has stopped.
ImplementsQueue == Queue!Spec

\* A command that schedule() queued is executed, or the loop was told to end,
\* even if epoll_wait never times out: the skipper alone is enough.
EveryCommandRuns ==
  \A c \in Commands :
    c \in Range(commands) ~> \/ c \in Range(executed)
                             \/ pc[Main] \in InLoop /\ ~running
                             \/ Closed

\* An exit request that the loop can see ends it and is followed by the whole
\* release.  exit() wakes nobody: without the epoll timeout it could be seen
\* never, with the timeout it is.
ExitEndsLoop ==
  WF_vars(Timeout) => ((pc[Main] \in InLoop /\ ~running) ~> MainAt("done"))

============================================================================
