-------------------------- MODULE EventLoopProofs --------------------------
(***************************************************************************)
(* Proofs about EventLoop, for any number of threads and commands.         *)
(***************************************************************************)
EXTENDS EventLoop, FiniteSetTheorems, TLAPS

ThreadLabels == {"idle", "lock", "push", "skip", "exit"}
SignalLabels == {"idle", "exit"}

\* Types, with the labels each actor can be at.
Types ==
  /\ commands \in Seq(Commands) /\ batch \in Seq(Commands)
  /\ primary \in BOOLEAN /\ taken \in BOOLEAN
  /\ locker \in Posters \cup {Free}
  /\ running \in BOOLEAN /\ code \in {0, ConnectionLost}
  /\ skipper \in Nat
  /\ open \in BOOLEAN /\ connected \in BOOLEAN
  /\ pc \in [Actors -> Labels]
  /\ pc[Main] \in MainLabels
  /\ pc[Signal] \in SignalLabels
  /\ \A t \in Threads : pc[t] \in ThreadLabels
  /\ posting \in [Posters -> Commands \cup {Free}]
  /\ \A t \in Posters : pc[t] \in {"lock", "push"} => posting[t] \in Commands
  /\ current \in Commands \cup {Main}
  /\ ready \subseteq {"skipper", "descriptor"}
  /\ result \in {0, ConnectionLost}
  /\ fresh \subseteq Commands /\ executed \in Seq(Commands)
  /\ exits \in [Exiters -> {"no", "starting", "later"}]

\* The variables have their types before initialize() runs.
LEMMA TypesInit == Init => Types
<1> SUFFICES ASSUME Init PROVE Types
  OBVIOUS
<1> USE ActorsAssumption DEF Init, Types, Posters, Actors, Exiters, Labels,
        MainLabels, InLoop, InStep, ThreadLabels, SignalLabels
<1>1. /\ commands \in Seq(Commands) /\ batch \in Seq(Commands)
      /\ executed \in Seq(Commands)
  OBVIOUS
<1>2. /\ pc \in [Actors -> Labels]
      /\ pc[Main] \in MainLabels /\ pc[Signal] \in SignalLabels
      /\ \A t \in Threads : pc[t] \in ThreadLabels
      /\ \A t \in Posters : pc[t] \notin {"lock", "push"}
  OBVIOUS
<1>3. /\ posting \in [Posters -> Commands \cup {Free}]
      /\ exits \in [Exiters -> {"no", "starting", "later"}]
  OBVIOUS
<1> QED
  BY <1>1, <1>2, <1>3

\* Every step of the main thread, of a schedule() call, of an arrival and of an
\* exit request keeps the types.
LEMMA TypesNext == Types /\ [Next]_vars => Types'
<1> SUFFICES ASSUME Types, [Next]_vars PROVE Types'
  OBVIOUS
<1> USE ActorsAssumption DEF Types, Posters, Actors, Exiters, Labels, MainLabels,
        InLoop, InStep, ThreadLabels, SignalLabels, ExitCode,
        Goto, MainAt, loopVars, mainVars, history
<1>1. CASE Initialize BY <1>1 DEF Initialize
<1>2. CASE Exec BY <1>2 DEF Exec
<1>3. CASE ResetCode BY <1>3 DEF ResetCode
<1>4. CASE Test
  <2>1. CASE running BY <1>4, <2>1 DEF Test
  <2>2. CASE ~running
    <3>1. pc' = [pc EXCEPT ![Main] = "release"] /\ commands' = <<>> /\ result' = code
      BY <1>4, <2>2 DEF Test
    <3>2. UNCHANGED <<primary, locker, running, code, skipper, open, connected,
                      batch, taken, current, ready, posting, history>>
      BY <1>4 DEF Test
    <3>3. result' \in {0, ConnectionLost}
      BY <3>1
    <3> QED
      BY <3>1, <3>2, <3>3
  <2> QED BY <2>1, <2>2
<1>5. CASE Copy BY <1>5 DEF Copy
<1>6. CASE Clear BY <1>6 DEF Clear
<1>7. CASE Execute BY <1>7 DEF Execute
<1>8. CASE Return BY <1>8 DEF Return
<1>9. CASE BatchDone BY <1>9 DEF BatchDone
<1>10. CASE Take BY <1>10 DEF Take
<1>11. CASE Restore BY <1>11 DEF Restore
<1>12. CASE Skipped
  <2>1. ready' \subseteq {"skipper", "descriptor"}
    BY <1>12 DEF Skipped
  <2> QED
    BY <1>12, <2>1 DEF Skipped
<1>13. CASE ReadSkipper BY <1>13 DEF ReadSkipper
<1>14. CASE CallDescriptor BY <1>14 DEF CallDescriptor
<1>15. CASE Dispatched BY <1>15 DEF Dispatched
<1>16. CASE Release BY <1>16 DEF Release
<1>17. CASE Stop BY <1>17 DEF Stop
<1>18. CASE DescriptorReady BY <1>18 DEF DescriptorReady
<1>19. CASE Timeout BY <1>19 DEF Timeout
<1>20. ASSUME NEW t \in Threads, NEW c \in Commands, Arrive(t, c) PROVE Types'
  BY <1>20 DEF Arrive
<1>21. ASSUME NEW c \in Commands, CallbackPosts(c) PROVE Types'
  BY <1>21 DEF CallbackPosts
<1>22. ASSUME NEW t \in Posters, Lock(t) PROVE Types'
  BY <1>22 DEF Lock
<1>23. ASSUME NEW t \in Posters, Push(t) PROVE Types'
  BY <1>23 DEF Push
<1>24. ASSUME NEW t \in Posters, Skip(t) PROVE Types'
  BY <1>24 DEF Skip
<1>25. ASSUME NEW e \in Exiters, Exit(e) PROVE Types'
  BY <1>25 DEF Exit
<1>26. ASSUME NEW e \in Exiters, StopRunning(e) PROVE Types'
  <2>1. pc' = [pc EXCEPT ![e] = "idle"] /\ running' = FALSE
    BY <1>26 DEF StopRunning
  <2>2. UNCHANGED <<commands, primary, locker, code, skipper, open, connected,
                    mainVars, posting, history>>
    BY <1>26 DEF StopRunning
  <2>3. /\ pc' \in [Actors -> Labels] /\ pc'[Main] \in MainLabels
        /\ pc'[Signal] \in SignalLabels /\ \A t \in Threads : pc'[t] \in ThreadLabels
        /\ \A t \in Posters : pc'[t] \in {"lock", "push"} => posting[t] \in Commands
    BY <2>1
  <2>4. /\ running' \in BOOLEAN /\ commands' \in Seq(Commands) /\ batch' \in Seq(Commands)
        /\ executed' \in Seq(Commands)
    BY <2>1, <2>2
  <2> QED BY <2>2, <2>3, <2>4
<1>27. CASE UNCHANGED vars BY <1>27 DEF vars
<1> QED
  BY <1>1, <1>2, <1>3, <1>4, <1>5, <1>6, <1>7, <1>8, <1>9, <1>10, <1>11, <1>12,
     <1>13, <1>14, <1>15, <1>16, <1>17, <1>18, <1>19, <1>20, <1>21, <1>22, <1>23,
     <1>24, <1>25, <1>26, <1>27
  DEF Next, MainStep, PosterStep, Done


\* In every reachable state the variables have their types (the eventfd's
\* counter as yet without its bound).
THEOREM TypesCorrect == Spec => []Types
BY TypesInit, TypesNext, PTL DEF Spec

----------------------------------------------------------------------------
(***************************************************************************)
(* The lock, and where Main may be while it holds what.                    *)
(***************************************************************************)
InCallback == pc[Main] \in {"call", "lock", "push", "skip"}

\* The lock's owner is the one actor inside a critical section.
LockOwner ==
  /\ \A t \in Threads : locker = t <=> pc[t] = "push"
  /\ locker = Main <=> pc[Main] \in {"clear", "push"}

\* The batch, the primary command and the event list belong to the part of
\* step() that works on them; threads are idle unless the channels are
\* connected.
Phases ==
  /\ ready # {} => pc[Main] = "dispatch" \/ (InCallback /\ current = Main)
  /\ "skipper" \in ready => skipper > 0
  /\ taken <=> \/ pc[Main] \in {"wait", "dispatch", "restore"}
               \/ (InCallback /\ current = Main)
  /\ IF pc[Main] = "initialize" THEN ~primary ELSE primary # taken
  /\ connected <=> pc[Main] \notin {"initialize", "stop", "done"}
  /\ open <=> pc[Main] \notin {"initialize", "done"}
  /\ ~connected => \A t \in Threads : pc[t] = "idle"
  /\ batch # <<>> => \/ pc[Main] \in {"clear", "run"}
                     \/ (InCallback /\ current # Main)
  /\ pc[Main] = "clear" => batch = commands

Shape == LockOwner /\ Phases

\* At first nobody holds the executor's lock and the loop is not entered.
LEMMA ShapeInit == Init => Shape
<1> SUFFICES ASSUME Init PROVE Shape
  OBVIOUS
<1>1. LockOwner
  BY ActorsAssumption DEF Init, LockOwner, Actors
<1>2. Phases
  BY ActorsAssumption DEF Init, Phases, InCallback, Actors
<1> QED
  BY <1>1, <1>2 DEF Shape

\* Every step keeps the lock's owner (Executer::_locker) and what the main
\* thread's place in exec(), step() and synchronize() says of the other variables.
LEMMA ShapeNext == Types /\ Shape /\ [Next]_vars => Shape'
<1> SUFFICES ASSUME Types, Shape, [Next]_vars PROVE Shape'
  OBVIOUS
<1> USE ActorsAssumption DEF Types, Shape, LockOwner, Phases, InCallback, Posters,
        Actors, Exiters, MainLabels, InLoop, InStep, ThreadLabels, SignalLabels,
        Goto, MainAt, loopVars, mainVars, history
<1>1. CASE Initialize BY <1>1 DEF Initialize
<1>2. CASE Exec BY <1>2 DEF Exec
<1>3. CASE ResetCode BY <1>3 DEF ResetCode
<1>4. CASE Test BY <1>4 DEF Test
<1>5. CASE Copy BY <1>5 DEF Copy
<1>6. CASE Clear BY <1>6 DEF Clear
<1>7. CASE Execute BY <1>7 DEF Execute
<1>8. CASE Return BY <1>8 DEF Return
<1>9. CASE BatchDone BY <1>9 DEF BatchDone
<1>10. CASE Take BY <1>10 DEF Take
<1>11. CASE Restore BY <1>11 DEF Restore
<1>12. CASE Skipped BY <1>12 DEF Skipped
<1>13. CASE ReadSkipper BY <1>13 DEF ReadSkipper
<1>14. CASE CallDescriptor BY <1>14 DEF CallDescriptor
<1>15. CASE Dispatched BY <1>15 DEF Dispatched
<1>16. CASE Release BY <1>16 DEF Release
<1>17. CASE Stop BY <1>17 DEF Stop
<1>18. CASE DescriptorReady BY <1>18 DEF DescriptorReady
<1>19. CASE Timeout BY <1>19 DEF Timeout
<1>20. ASSUME NEW t \in Threads, NEW c \in Commands, Arrive(t, c) PROVE Shape'
  BY <1>20 DEF Arrive
<1>21. ASSUME NEW c \in Commands, CallbackPosts(c) PROVE Shape'
  BY <1>21 DEF CallbackPosts
<1>22. ASSUME NEW t \in Posters, Lock(t) PROVE Shape'
  BY <1>22 DEF Lock
<1>23. ASSUME NEW t \in Posters, Push(t) PROVE Shape'
  BY <1>23 DEF Push
<1>24. ASSUME NEW t \in Posters, Skip(t) PROVE Shape'
  BY <1>24 DEF Skip
<1>25. ASSUME NEW e \in Exiters, Exit(e) PROVE Shape'
  BY <1>25 DEF Exit
<1>26. ASSUME NEW e \in Exiters, StopRunning(e) PROVE Shape'
  BY <1>26 DEF StopRunning
<1>27. CASE UNCHANGED vars BY <1>27 DEF vars
<1> QED
  BY <1>1, <1>2, <1>3, <1>4, <1>5, <1>6, <1>7, <1>8, <1>9, <1>10, <1>11, <1>12,
     <1>13, <1>14, <1>15, <1>16, <1>17, <1>18, <1>19, <1>20, <1>21, <1>22, <1>23,
     <1>24, <1>25, <1>26, <1>27
  DEF Next, MainStep, PosterStep, Done

\* The structural invariant holds in every reachable state.
LEMMA ShapeCorrect == Spec => [](Types /\ Shape)
<1>1. Init => Shape BY ShapeInit
<1>2. Types /\ Shape /\ [Next]_vars => Shape' BY ShapeNext
<1> QED BY <1>1, <1>2, TypesCorrect, PTL DEF Spec

\* The main thread never blocks in the skipper's read(): it never reads an
\* eventfd that is zero.
THEOREM ReadNeverBlocksCorrect == Spec => []ReadNeverBlocks
<1>1. Types /\ Shape => ReadNeverBlocks BY DEF Shape, Phases, ReadNeverBlocks
<1> QED BY <1>1, ShapeCorrect, PTL

\* Nobody is inside Application::schedule once Synchronizer::stop was called.
THEOREM SynchronizerAliveCorrect == Spec => []SynchronizerAlive
<1>1. Types /\ Shape => SynchronizerAlive
  BY ActorsAssumption DEF Types, Shape, Phases, SynchronizerAlive, Posters
<1> QED BY <1>1, ShapeCorrect, PTL

\* The Synchronize command is never lost and never in two places.
THEOREM PrimaryKeptCorrect == Spec => []PrimaryKept
<1>1. Types /\ Shape => PrimaryKept
  BY DEF Shape, Phases, PrimaryKept, MainAt
<1> QED BY <1>1, ShapeCorrect, PTL

----------------------------------------------------------------------------
(***************************************************************************)
(* No lost wakeup.  Given the structural invariant, NoLostWakeup is        *)
(* inductive: Clear makes it hold trivially, each Push is followed by its  *)
(* own Skip, and ReadSkipper, the only step that consumes the eventfd,     *)
(* also ends the span in which Main relies on it.                          *)
(***************************************************************************)
\* Every step keeps NoLostWakeup: push-then-skip in schedule() against
\* copy-then-wait in step().
LEMMA WakeupNext ==
  Types /\ Shape /\ NoLostWakeup /\ [Next]_vars => NoLostWakeup'
<1> SUFFICES ASSUME Types, Shape, NoLostWakeup, [Next]_vars PROVE NoLostWakeup'
  OBVIOUS
<1> USE ActorsAssumption DEF Types, Shape, LockOwner, Phases, InCallback, Posters,
        Actors, Exiters, NoLostWakeup, Unaware, Goto, MainAt,
        loopVars, mainVars, history
<1>1. CASE Initialize BY <1>1 DEF Initialize
<1>2. CASE Exec BY <1>2 DEF Exec
<1>3. CASE ResetCode BY <1>3 DEF ResetCode
<1>4. CASE Test BY <1>4 DEF Test
<1>5. CASE Copy BY <1>5 DEF Copy
<1>6. CASE Clear BY <1>6 DEF Clear
<1>7. CASE Execute BY <1>7 DEF Execute
<1>8. CASE Return BY <1>8 DEF Return
<1>9. CASE BatchDone BY <1>9 DEF BatchDone
<1>10. CASE Take BY <1>10 DEF Take
<1>11. CASE Restore BY <1>11 DEF Restore
<1>12. CASE Skipped BY <1>12 DEF Skipped
<1>13. CASE ReadSkipper BY <1>13 DEF ReadSkipper
<1>14. CASE CallDescriptor BY <1>14 DEF CallDescriptor
<1>15. CASE Dispatched BY <1>15 DEF Dispatched
<1>16. CASE Release BY <1>16 DEF Release
<1>17. CASE Stop BY <1>17 DEF Stop
<1>18. CASE DescriptorReady BY <1>18 DEF DescriptorReady
<1>19. CASE Timeout BY <1>19 DEF Timeout
<1>20. ASSUME NEW t \in Threads, NEW c \in Commands, Arrive(t, c) PROVE NoLostWakeup'
  BY <1>20 DEF Arrive
<1>21. ASSUME NEW c \in Commands, CallbackPosts(c) PROVE NoLostWakeup'
  BY <1>21 DEF CallbackPosts
<1>22. ASSUME NEW t \in Posters, Lock(t) PROVE NoLostWakeup'
  BY <1>22 DEF Lock
<1>23. ASSUME NEW t \in Posters, Push(t) PROVE NoLostWakeup'
  BY <1>23 DEF Push
<1>24. ASSUME NEW t \in Posters, Skip(t) PROVE NoLostWakeup'
  BY <1>24 DEF Skip
<1>25. ASSUME NEW e \in Exiters, Exit(e) PROVE NoLostWakeup'
  BY <1>25 DEF Exit
<1>26. ASSUME NEW e \in Exiters, StopRunning(e) PROVE NoLostWakeup'
  BY <1>26 DEF StopRunning
<1>27. CASE UNCHANGED vars BY <1>27 DEF vars
<1> QED
  BY <1>1, <1>2, <1>3, <1>4, <1>5, <1>6, <1>7, <1>8, <1>9, <1>10, <1>11, <1>12,
     <1>13, <1>14, <1>15, <1>16, <1>17, <1>18, <1>19, <1>20, <1>21, <1>22, <1>23,
     <1>24, <1>25, <1>26, <1>27
  DEF Next, MainStep, PosterStep, Done

\* A queued command never waits for the epoll timeout.
THEOREM NoLostWakeupCorrect == Spec => []NoLostWakeup
<1>1. Init => NoLostWakeup BY DEF Init, NoLostWakeup
<1> QED BY <1>1, WakeupNext, ShapeCorrect, PTL DEF Spec

----------------------------------------------------------------------------
(***************************************************************************)
(* Exit requests.  An exiter between its two writes is on record; the code *)
(* is that of a later request once there is one, because only requests     *)
(* write it after exec() reset it.                                         *)
(***************************************************************************)
Requested ==
  \E e \in Exiters : \/ exits[e] = "starting"
                     \/ exits[e] = "later" /\ code = ExitCode(e)

Requests ==
  /\ \A e \in Exiters : pc[e] = "exit" => exits[e] # "no"
  /\ pc[Main] \in {"initialize", "exec", "reset"} =>
       \A e \in Exiters : exits[e] # "later"
  /\ (\E e \in Exiters : exits[e] = "later") => Requested
  /\ pc[Main] \in InLoop \cup {"reset"} /\ ~running =>
       \E e \in Exiters : exits[e] # "no"
  /\ EndsOnRequest

\* Every step keeps the record of exit requests in accord with _running and
\* _code, the two plain variables exit() writes.
LEMMA RequestsNext ==
  Types /\ Shape /\ Requests /\ [Next]_vars => Requests'
<1> SUFFICES ASSUME Types, Shape, Requests, [Next]_vars PROVE Requests'
  OBVIOUS
<1> USE ActorsAssumption DEF Types, Shape, Phases, Posters, Actors, Exiters,
        Requests, Requested, EndsOnRequest, InLoop, InStep, Goto, MainAt,
        loopVars, mainVars, history
<1>1. CASE Initialize BY <1>1 DEF Initialize
<1>2. CASE Exec BY <1>2 DEF Exec
<1>3. CASE ResetCode BY <1>3 DEF ResetCode
<1>4. CASE Test BY <1>4 DEF Test
<1>5. CASE Copy BY <1>5 DEF Copy
<1>6. CASE Clear BY <1>6 DEF Clear
<1>7. CASE Execute BY <1>7 DEF Execute
<1>8. CASE Return BY <1>8 DEF Return
<1>9. CASE BatchDone BY <1>9 DEF BatchDone
<1>10. CASE Take BY <1>10 DEF Take
<1>11. CASE Restore BY <1>11 DEF Restore
<1>12. CASE Skipped BY <1>12 DEF Skipped
<1>13. CASE ReadSkipper BY <1>13 DEF ReadSkipper
<1>14. CASE CallDescriptor BY <1>14 DEF CallDescriptor
<1>15. CASE Dispatched BY <1>15 DEF Dispatched
<1>16. CASE Release BY <1>16 DEF Release
<1>17. CASE Stop BY <1>17 DEF Stop
<1>18. CASE DescriptorReady BY <1>18 DEF DescriptorReady
<1>19. CASE Timeout BY <1>19 DEF Timeout
<1>20. ASSUME NEW t \in Threads, NEW c \in Commands, Arrive(t, c) PROVE Requests'
  BY <1>20 DEF Arrive
<1>21. ASSUME NEW c \in Commands, CallbackPosts(c) PROVE Requests'
  BY <1>21 DEF CallbackPosts
<1>22. ASSUME NEW t \in Posters, Lock(t) PROVE Requests'
  BY <1>22 DEF Lock
<1>23. ASSUME NEW t \in Posters, Push(t) PROVE Requests'
  BY <1>23 DEF Push
<1>24. ASSUME NEW t \in Posters, Skip(t) PROVE Requests'
  BY <1>24 DEF Skip
<1>25. ASSUME NEW e \in Exiters, Exit(e) PROVE Requests'
  BY <1>25 DEF Exit
<1>26. ASSUME NEW e \in Exiters, StopRunning(e) PROVE Requests'
  BY <1>26 DEF StopRunning
<1>27. CASE UNCHANGED vars BY <1>27 DEF vars
<1> QED
  BY <1>1, <1>2, <1>3, <1>4, <1>5, <1>6, <1>7, <1>8, <1>9, <1>10, <1>11, <1>12,
     <1>13, <1>14, <1>15, <1>16, <1>17, <1>18, <1>19, <1>20, <1>21, <1>22, <1>23,
     <1>24, <1>25, <1>26, <1>27
  DEF Next, MainStep, PosterStep, Done

\* The loop ends only for an exit request, with a request's code.
THEOREM EndsOnRequestCorrect == Spec => []EndsOnRequest
<1>1. Init => Requests
  BY ActorsAssumption DEF Init, Requests, Requested, EndsOnRequest, Actors, Exiters,
                          InLoop, InStep
<1>2. Requests => EndsOnRequest BY DEF Requests
<1> QED BY <1>1, <1>2, RequestsNext, ShapeCorrect, PTL DEF Spec

----------------------------------------------------------------------------
(***************************************************************************)
(* The eventfd's range.  Every command still to be created, every schedule *)
(* in flight and every unread eventfd write stands for a command of its    *)
(* own, so their number never grows beyond the number of commands.         *)
(***************************************************************************)
InFlight == {t \in Posters : pc[t] \in {"lock", "push", "skip"}}

Counted ==
  skipper + Cardinality(InFlight) + Cardinality(fresh) <= Cardinality(Commands)

\* The sets that are counted are finite.
LEMMA CountsAreNat ==
  ASSUME Types
  PROVE  /\ IsFiniteSet(InFlight) /\ Cardinality(InFlight) \in Nat
         /\ IsFiniteSet(fresh) /\ Cardinality(fresh) \in Nat
         /\ Cardinality(Commands) \in Nat
<1>1. IsFiniteSet(Posters)
  BY FiniteAssumption, FS_AddElement DEF Posters
<1>2. IsFiniteSet(InFlight)
  BY <1>1, FS_Subset DEF InFlight
<1>3. IsFiniteSet(fresh)
  BY FiniteAssumption, FS_Subset DEF Types
<1> QED
  BY <1>2, <1>3, FiniteAssumption, FS_CardinalityType

\* Every step keeps the count: an eventfd write is paid for by the command it
\* announces, which is never scheduled again.
LEMMA CountedNext == Types /\ Shape /\ Counted /\ [Next]_vars => Counted'
<1> SUFFICES ASSUME Types, Shape, Counted, [Next]_vars PROVE Counted'
  OBVIOUS
<1>a. Types'
  BY TypesNext
<1>b. /\ IsFiniteSet(InFlight) /\ Cardinality(InFlight) \in Nat
      /\ IsFiniteSet(fresh) /\ Cardinality(fresh) \in Nat
      /\ Cardinality(Commands) \in Nat
  BY CountsAreNat
<1>c. ASSUME UNCHANGED fresh, InFlight' = InFlight, skipper' \in {skipper, 0}
      PROVE  Counted'
  BY <1>b, <1>c DEF Counted, Types
<1>d. ASSUME NEW t \in Posters, NEW c \in fresh, t \notin InFlight,
             fresh' = fresh \ {c}, InFlight' = InFlight \cup {t}, UNCHANGED skipper
      PROVE  Counted'
  <2>1. Cardinality(fresh') = Cardinality(fresh) - 1
    BY <1>b, <1>d, FS_RemoveElement
  <2>2. Cardinality(InFlight') = Cardinality(InFlight) + 1
    BY <1>b, <1>d, FS_AddElement
  <2> QED
    BY <1>b, <1>d, <2>1, <2>2 DEF Counted, Types
<1>e. ASSUME NEW t \in Posters, t \in InFlight, UNCHANGED fresh,
             InFlight' = InFlight \ {t}, skipper' = skipper + 1
      PROVE  Counted'
  <2>1. Cardinality(InFlight') = Cardinality(InFlight) - 1
    BY <1>b, <1>e, FS_RemoveElement
  <2> QED
    BY <1>b, <1>e, <2>1 DEF Counted, Types
<1> USE <1>c, ActorsAssumption DEF Types, InFlight, Posters, Actors, Exiters,
        ThreadLabels, SignalLabels, Goto, MainAt, loopVars, mainVars, history
<1>1. CASE Initialize BY <1>1 DEF Initialize
<1>2. CASE Exec BY <1>2 DEF Exec
<1>3. CASE ResetCode BY <1>3 DEF ResetCode
<1>4. CASE Test BY <1>4 DEF Test
<1>5. CASE Copy BY <1>5 DEF Copy
<1>6. CASE Clear BY <1>6 DEF Clear
<1>7. CASE Execute BY <1>7 DEF Execute
<1>8. CASE Return BY <1>8 DEF Return
<1>9. CASE BatchDone BY <1>9 DEF BatchDone
<1>10. CASE Take BY <1>10 DEF Take
<1>11. CASE Restore BY <1>11 DEF Restore
<1>12. CASE Skipped BY <1>12 DEF Skipped
<1>13. CASE ReadSkipper BY <1>13 DEF ReadSkipper
<1>14. CASE CallDescriptor BY <1>14 DEF CallDescriptor
<1>15. CASE Dispatched BY <1>15 DEF Dispatched
<1>16. CASE Release BY <1>16 DEF Release
<1>17. CASE Stop BY <1>17 DEF Stop
<1>18. CASE DescriptorReady BY <1>18 DEF DescriptorReady
<1>19. CASE Timeout BY <1>19 DEF Timeout
<1>20. ASSUME NEW t \in Threads, NEW c \in Commands, Arrive(t, c) PROVE Counted'
  <2>1. t \notin InFlight /\ c \in fresh /\ t \in Posters
    BY <1>20 DEF Arrive
  <2>2. InFlight' = InFlight \cup {t}
    BY <1>20 DEF Arrive
  <2> QED BY <1>20, <1>d, <2>1, <2>2 DEF Arrive
<1>21. ASSUME NEW c \in Commands, CallbackPosts(c) PROVE Counted'
  <2>1. Main \notin InFlight /\ c \in fresh /\ Main \in Posters
    BY <1>21 DEF CallbackPosts
  <2>2. InFlight' = InFlight \cup {Main}
    BY <1>21 DEF CallbackPosts
  <2> QED BY <1>21, <1>d, <2>1, <2>2 DEF CallbackPosts
<1>22. ASSUME NEW t \in Posters, Lock(t) PROVE Counted'
  BY <1>22 DEF Lock
<1>23. ASSUME NEW t \in Posters, Push(t) PROVE Counted'
  BY <1>23 DEF Push
<1>24. ASSUME NEW t \in Posters, Skip(t) PROVE Counted'
  <2>1. t \in InFlight
    BY <1>24 DEF Skip
  <2>2. InFlight' = InFlight \ {t}
    BY <1>24 DEF Skip
  <2> QED BY <1>24, <1>e, <2>1, <2>2 DEF Skip
<1>25. ASSUME NEW e \in Exiters, Exit(e) PROVE Counted'
  BY <1>25 DEF Exit
<1>26. ASSUME NEW e \in Exiters, StopRunning(e) PROVE Counted'
  BY <1>26 DEF StopRunning
<1>27. CASE UNCHANGED vars BY <1>27 DEF vars
<1> QED
  BY <1>1, <1>2, <1>3, <1>4, <1>5, <1>6, <1>7, <1>8, <1>9, <1>10, <1>11, <1>12,
     <1>13, <1>14, <1>15, <1>16, <1>17, <1>18, <1>19, <1>20, <1>21, <1>22, <1>23,
     <1>24, <1>25, <1>26, <1>27
  DEF Next, MainStep, PosterStep, Done

\* TypeOK, with the eventfd's range, holds in every reachable state.
THEOREM TypeCorrect == Spec => []TypeOK
<1>1. Init => Counted
  <2> SUFFICES ASSUME Init PROVE Counted
    OBVIOUS
  <2>1. InFlight = {}
    BY DEF Init, InFlight, Posters, Actors
  <2> QED
    BY <2>1, FS_EmptySet, FS_CardinalityType, FiniteAssumption DEF Init, Counted
<1>2. Types /\ Counted => TypeOK
  <2> SUFFICES ASSUME Types, Counted PROVE TypeOK
    OBVIOUS
  <2>1. skipper \in 0 .. Cardinality(Commands)
    BY CountsAreNat DEF Counted, Types
  <2> QED
    BY <2>1 DEF Types, TypeOK
<1> QED BY <1>1, <1>2, CountedNext, ShapeCorrect, PTL DEF Spec

----------------------------------------------------------------------------
(***************************************************************************)
(* Refinement.  First what the model's sequence operations do to the set   *)
(* of elements and to a concatenation.                                     *)
(***************************************************************************)
\* Appending (push_back in schedule()) adds one element.
LEMMA AppendRange ==
  ASSUME NEW S, NEW s \in Seq(S), NEW e \in S
  PROVE  Range(Append(s, e)) = Range(s) \cup {e}
<1>1. ASSUME NEW i \in DOMAIN Append(s, e) PROVE Append(s, e)[i] \in Range(s) \cup {e}
  BY DEF Range
<1>2. ASSUME NEW i \in DOMAIN s PROVE s[i] \in Range(Append(s, e))
  BY DEF Range
<1>3. Len(s) + 1 \in DOMAIN Append(s, e) /\ Append(s, e)[Len(s) + 1] = e
  OBVIOUS
<1> QED
  BY <1>1, <1>2, <1>3 DEF Range

\* Popping the front (step()) adds no element, and the front was one.
LEMMA TailRange ==
  ASSUME NEW S, NEW s \in Seq(S), s # <<>>
  PROVE  Range(Tail(s)) \subseteq Range(s) /\ Head(s) \in Range(s)
BY DEF Range

\* The batch followed by the queue holds the elements of both.
LEMMA ConcatRange ==
  ASSUME NEW S, NEW s \in Seq(S), NEW r \in Seq(S)
  PROVE  Range(s \o r) = Range(s) \cup Range(r)
<1>1. ASSUME NEW i \in DOMAIN (s \o r) PROVE (s \o r)[i] \in Range(s) \cup Range(r)
  BY DEF Range
<1>2. ASSUME NEW i \in DOMAIN s PROVE s[i] \in Range(s \o r)
  BY DEF Range
<1>3. ASSUME NEW i \in DOMAIN r PROVE r[i] \in Range(s \o r)
  <2>1. Len(s) + i \in DOMAIN (s \o r) /\ (s \o r)[Len(s) + i] = r[i]
    OBVIOUS
  <2> QED BY <2>1 DEF Range
<1> QED
  BY <1>1, <1>2, <1>3 DEF Range

\* Appending to the queue appends to the batch followed by the queue.
LEMMA ConcatAppend ==
  ASSUME NEW S, NEW s \in Seq(S), NEW r \in Seq(S), NEW e \in S
  PROVE  s \o Append(r, e) = Append(s \o r, e)
OBVIOUS

\* The front of the batch is the front of what is pending.
LEMMA ConcatHeadTail ==
  ASSUME NEW S, NEW s \in Seq(S), NEW r \in Seq(S), s # <<>>
  PROVE  /\ s \o r # <<>>
         /\ Head(s \o r) = Head(s)
         /\ Tail(s \o r) = Tail(s) \o r
OBVIOUS

\* An empty batch, or an empty queue, is no part of what is pending.
LEMMA ConcatEmpty ==
  ASSUME NEW S, NEW s \in Seq(S)
  PROVE  <<>> \o s = s /\ s \o <<>> = s
OBVIOUS

(***************************************************************************)
(* A command is in one place only: not created, in a poster's hands, or    *)
(* accepted.  Accept's guard follows.                                      *)
(***************************************************************************)
Placed == Range(batch) \cup Range(commands) \cup Range(executed)

Holds(t) == pc[t] \in {"lock", "push"}

OnePlace ==
  /\ fresh \cap Placed = {}
  /\ \A t \in Posters : Holds(t) => posting[t] \notin fresh \cup Placed
  /\ \A t, u \in Posters :
       t # u /\ Holds(t) /\ Holds(u) => posting[t] # posting[u]

\* At first every command is still to be created.
LEMMA OnePlaceInit == Init => OnePlace
BY ActorsAssumption DEF Init, OnePlace, Placed, Holds, Range, Posters, Actors

\* Every step keeps each command in one place: not created yet, in the hands
\* of one schedule() call, queued, in the batch, or executed.
LEMMA OnePlaceNext == Types /\ Shape /\ OnePlace /\ [Next]_vars => OnePlace'
<1> SUFFICES ASSUME Types, Shape, OnePlace, [Next]_vars PROVE OnePlace'
  OBVIOUS
<1>a. Range(<<>>) = {}
  BY DEF Range
<1>b. ASSUME UNCHANGED <<fresh, posting>>, Placed' \subseteq Placed,
             \A t \in Posters : Holds(t)' => Holds(t)
      PROVE  OnePlace'
  BY <1>b DEF OnePlace
<1>c. ASSUME NEW t \in Posters, NEW c \in fresh, fresh' = fresh \ {c},
             posting' = [posting EXCEPT ![t] = c], Placed' = Placed,
             \A u \in Posters : u # t /\ Holds(u)' => Holds(u)
      PROVE  OnePlace'
  BY <1>c DEF OnePlace, Types
<1>d. ASSUME UNCHANGED <<batch, commands, executed>> PROVE Placed' = Placed
  BY <1>d DEF Placed
<1> USE <1>b, <1>d, ActorsAssumption DEF Types, Holds, Posters, Actors, Exiters,
        Goto, MainAt, loopVars, mainVars, history
<1>1. CASE Initialize BY <1>1 DEF Initialize
<1>2. CASE Exec BY <1>2 DEF Exec
<1>3. CASE ResetCode BY <1>3 DEF ResetCode
<1>4. CASE Test
  <2>1. commands' = commands \/ commands' = <<>>
    BY <1>4 DEF Test
  <2>2. UNCHANGED <<batch, executed>>
    BY <1>4 DEF Test
  <2>3. Placed' \subseteq Placed
    BY <1>a, <2>1, <2>2 DEF Placed
  <2> QED BY <1>4, <2>3 DEF Test
<1>5. CASE Copy
  <2>1. Placed' \subseteq Placed
    BY <1>5 DEF Copy, Placed
  <2> QED BY <1>5, <2>1 DEF Copy
<1>6. CASE Clear
  <2>1. Placed' \subseteq Placed
    BY <1>6, <1>a DEF Clear, Placed
  <2> QED BY <1>6, <2>1 DEF Clear
<1>7. CASE Execute
  <2>1. /\ Range(batch') \subseteq Range(batch)
        /\ Range(executed') \subseteq Range(executed) \cup Range(batch)
    BY <1>7, TailRange, AppendRange DEF Execute
  <2>2. Placed' \subseteq Placed
    BY <1>7, <2>1 DEF Execute, Placed
  <2> QED BY <1>7, <2>2 DEF Execute
<1>8. CASE Return BY <1>8 DEF Return
<1>9. CASE BatchDone BY <1>9 DEF BatchDone
<1>10. CASE Take BY <1>10 DEF Take
<1>11. CASE Restore BY <1>11 DEF Restore
<1>12. CASE Skipped BY <1>12 DEF Skipped
<1>13. CASE ReadSkipper BY <1>13 DEF ReadSkipper
<1>14. CASE CallDescriptor BY <1>14 DEF CallDescriptor
<1>15. CASE Dispatched BY <1>15 DEF Dispatched
<1>16. CASE Release BY <1>16 DEF Release
<1>17. CASE Stop BY <1>17 DEF Stop
<1>18. CASE DescriptorReady BY <1>18 DEF DescriptorReady
<1>19. CASE Timeout BY <1>19 DEF Timeout
<1>20. ASSUME NEW t \in Threads, NEW c \in Commands, Arrive(t, c) PROVE OnePlace'
  <2>1. c \in fresh /\ t \in Posters
    BY <1>20 DEF Arrive
  <2> QED BY <1>20, <1>c, <2>1 DEF Arrive
<1>21. ASSUME NEW c \in Commands, CallbackPosts(c) PROVE OnePlace'
  <2>1. c \in fresh /\ Main \in Posters
    BY <1>21 DEF CallbackPosts
  <2> QED BY <1>21, <1>c, <2>1 DEF CallbackPosts
<1>22. ASSUME NEW t \in Posters, Lock(t) PROVE OnePlace'
  BY <1>22 DEF Lock
<1>23. ASSUME NEW t \in Posters, Push(t) PROVE OnePlace'
  <2>1. Placed' = Placed \cup {posting[t]}
    BY <1>23, AppendRange DEF Push, Placed
  <2>2. Holds(t) /\ ~Holds(t)' /\ \A u \in Posters : Holds(u)' => u # t /\ Holds(u)
    BY <1>23 DEF Push
  <2>3. UNCHANGED <<fresh, posting>>
    BY <1>23 DEF Push
  <2> QED BY <2>1, <2>2, <2>3 DEF OnePlace
<1>24. ASSUME NEW t \in Posters, Skip(t) PROVE OnePlace'
  <2>1. Placed' = Placed /\ UNCHANGED fresh
    BY <1>24 DEF Skip
  <2>2. ~Holds(t)' /\ \A u \in Posters : Holds(u)' => u # t /\ Holds(u)
    BY <1>24 DEF Skip
  <2>3. \A u \in Posters : u # t => posting'[u] = posting[u]
    BY <1>24 DEF Skip
  <2> QED BY <2>1, <2>2, <2>3 DEF OnePlace
<1>25. ASSUME NEW e \in Exiters, Exit(e) PROVE OnePlace'
  BY <1>25 DEF Exit
<1>26. ASSUME NEW e \in Exiters, StopRunning(e) PROVE OnePlace'
  BY <1>26 DEF StopRunning
<1>27. CASE UNCHANGED vars BY <1>27 DEF vars
<1> QED
  BY <1>1, <1>2, <1>3, <1>4, <1>5, <1>6, <1>7, <1>8, <1>9, <1>10, <1>11, <1>12,
     <1>13, <1>14, <1>15, <1>16, <1>17, <1>18, <1>19, <1>20, <1>21, <1>22, <1>23,
     <1>24, <1>25, <1>26, <1>27
  DEF Next, MainStep, PosterStep, Done

(***************************************************************************)
(* The step simulation.  Push is Accept, Execute is Execute, the Test that *)
(* leaves the loop is Close, and every other step stutters: Copy and Clear *)
(* move the queue into the batch without changing what is pending.         *)
(***************************************************************************)
\* Every step of the event loop is a step of CommandQueue or leaves it as it is.
LEMMA StepSimulation ==
  Types /\ Shape /\ OnePlace /\ [Next]_vars => [Queue!Next]_(Queue!vars)
<1> SUFFICES ASSUME Types, Shape, OnePlace, [Next]_vars
             PROVE  [Queue!Next]_(Queue!vars)
  OBVIOUS
<1>a. ASSUME Pending' = Pending, executed' = executed, Closed' = Closed
      PROVE  [Queue!Next]_(Queue!vars)
  BY <1>a DEF Queue!vars
<1>b. ASSUME UNCHANGED <<batch, commands, executed>>,
             pc[Main] = "clear" <=> pc'[Main] = "clear", Closed' = Closed
      PROVE  [Queue!Next]_(Queue!vars)
  BY <1>a, <1>b DEF Pending, MainAt
<1> USE <1>b, ActorsAssumption DEF Types, Shape, LockOwner, Phases, InCallback,
        Closed, Posters, Actors, Exiters, Goto, MainAt, loopVars, mainVars, history
<1>1. CASE Initialize BY <1>1 DEF Initialize
<1>2. CASE Exec BY <1>2 DEF Exec
<1>3. CASE ResetCode BY <1>3 DEF ResetCode
<1>4. CASE Test
  <2>1. CASE running
    BY <1>4, <2>1 DEF Test
  <2>2. CASE ~running
    <3>1. batch = <<>> /\ batch' = <<>> /\ commands' = <<>> /\ pc'[Main] = "release"
      BY <1>4, <2>2 DEF Test
    <3>2. Pending' = <<>>
      BY <3>1, ConcatEmpty DEF Pending
    <3>3. ~Closed /\ Closed' /\ UNCHANGED executed
      BY <1>4, <3>1 DEF Test
    <3> QED
      BY <3>2, <3>3 DEF Queue!Next, Queue!Close, Closed
  <2> QED BY <2>1, <2>2
<1>5. CASE Copy
  <2>1. batch = <<>> /\ pc'[Main] = "clear" /\ UNCHANGED <<commands, executed>>
    BY <1>5 DEF Copy
  <2>2. Pending' = Pending
    BY <1>5, <2>1, ConcatEmpty DEF Copy, Pending
  <2> QED BY <1>5, <1>a, <2>1, <2>2 DEF Copy
<1>6. CASE Clear
  <2>1. batch = commands /\ pc'[Main] = "run" /\ UNCHANGED <<batch, executed>>
    BY <1>6 DEF Clear
  <2>2. Pending' = Pending
    BY <1>6, <2>1, ConcatEmpty DEF Clear, Pending
  <2> QED BY <1>6, <1>a, <2>1, <2>2 DEF Clear
<1>7. CASE Execute
  <2>1. /\ pc[Main] = "run" /\ pc'[Main] = "call" /\ batch # <<>>
        /\ batch' = Tail(batch) /\ commands' = commands
        /\ executed' = Append(executed, Head(batch))
    BY <1>7 DEF Execute
  <2>2. /\ Pending # <<>>
        /\ Head(Pending) = Head(batch)
        /\ Pending' = Tail(Pending)
    BY <2>1, ConcatHeadTail DEF Pending
  <2>3. ~Closed /\ ~Closed'
    BY <2>1
  <2>4. Queue!Execute
    BY <2>1, <2>2, <2>3 DEF Queue!Execute
  <2> QED BY <2>4 DEF Queue!Next
<1>8. CASE Return BY <1>8 DEF Return
<1>9. CASE BatchDone BY <1>9 DEF BatchDone
<1>10. CASE Take BY <1>10 DEF Take
<1>11. CASE Restore BY <1>11 DEF Restore
<1>12. CASE Skipped BY <1>12 DEF Skipped
<1>13. CASE ReadSkipper BY <1>13 DEF ReadSkipper
<1>14. CASE CallDescriptor BY <1>14 DEF CallDescriptor
<1>15. CASE Dispatched BY <1>15 DEF Dispatched
<1>16. CASE Release BY <1>16 DEF Release
<1>17. CASE Stop BY <1>17 DEF Stop
<1>18. CASE DescriptorReady BY <1>18 DEF DescriptorReady
<1>19. CASE Timeout BY <1>19 DEF Timeout
<1>20. ASSUME NEW t \in Threads, NEW c \in Commands, Arrive(t, c) PROVE [Queue!Next]_(Queue!vars)
  BY <1>20 DEF Arrive
<1>21. ASSUME NEW c \in Commands, CallbackPosts(c) PROVE [Queue!Next]_(Queue!vars)
  BY <1>21 DEF CallbackPosts
<1>22. ASSUME NEW t \in Posters, Lock(t) PROVE [Queue!Next]_(Queue!vars)
  BY <1>22 DEF Lock
<1>23. ASSUME NEW t \in Posters, Push(t) PROVE [Queue!Next]_(Queue!vars)
  <2> DEFINE c == posting[t]
  <2>1. /\ pc[t] = "push" /\ commands' = Append(commands, c)
        /\ UNCHANGED <<batch, executed>> /\ c \in Commands
    BY <1>23 DEF Push
  <2>2. pc[Main] # "clear" /\ pc'[Main] # "clear"
    BY <1>23 DEF Push
  <2>3. Pending' = Append(Pending, c)
    BY <2>1, <2>2, ConcatAppend DEF Pending
  <2>4. c \notin Range(Pending) \cup Range(executed)
    <3>1. Range(Pending) = Range(batch) \cup Range(commands)
      BY <2>2, ConcatRange DEF Pending
    <3> QED BY <2>1, <3>1 DEF OnePlace, Placed, Holds
  <2>5. Closed' = Closed
    BY <1>23 DEF Push
  <2> HIDE DEF c
  <2>6. c \notin Queue!Range(Pending) \cup Queue!Range(executed)
    BY ONLY <2>4 DEF Range, Queue!Range
  <2>7. Queue!Accept(c)
    BY ONLY <2>1, <2>3, <2>5, <2>6 DEF Queue!Accept
  <2> QED BY <2>1, <2>7 DEF Queue!Next
<1>24. ASSUME NEW t \in Posters, Skip(t) PROVE [Queue!Next]_(Queue!vars)
  BY <1>24 DEF Skip
<1>25. ASSUME NEW e \in Exiters, Exit(e) PROVE [Queue!Next]_(Queue!vars)
  BY <1>25 DEF Exit
<1>26. ASSUME NEW e \in Exiters, StopRunning(e) PROVE [Queue!Next]_(Queue!vars)
  BY <1>26 DEF StopRunning
<1>27. CASE UNCHANGED vars BY <1>27 DEF vars
<1> QED
  BY <1>1, <1>2, <1>3, <1>4, <1>5, <1>6, <1>7, <1>8, <1>9, <1>10, <1>11, <1>12,
     <1>13, <1>14, <1>15, <1>16, <1>17, <1>18, <1>19, <1>20, <1>21, <1>22, <1>23,
     <1>24, <1>25, <1>26, <1>27
  DEF Next, MainStep, PosterStep, Done

\* The event loop implements the command queue: at most once, in order, and
\* nothing after the loop stopped.
THEOREM ImplementsQueueCorrect == Spec => ImplementsQueue
<1>1. Init => Queue!Init
  BY ActorsAssumption, ConcatEmpty
  DEF Init, Queue!Init, Pending, Closed, MainAt, Actors
<1> QED
  BY <1>1, StepSimulation, OnePlaceInit, OnePlaceNext, ShapeCorrect, PTL
  DEF Spec, ImplementsQueue, Queue!Spec
============================================================================
