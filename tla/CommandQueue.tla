---------------------------- MODULE CommandQueue ----------------------------
(***************************************************************************)
(* What core::Application::schedule promises its callers, whatever thread  *)
(* they are on: a command that was accepted is executed once, after every  *)
(* command accepted before it, unless the application stops first; the     *)
(* commands still queued when the loop stops are dropped and nothing that  *)
(* is accepted later is ever executed.                                     *)
(*                                                                         *)
(* EventLoop implements this specification.                                *)
(***************************************************************************)
EXTENDS Sequences, Functions

CONSTANT Commands   \* the command objects; each is scheduled at most once

VARIABLES
  queue,      \* accepted and not yet executed, oldest first
  executed,   \* executed, in order of execution
  closed      \* the loop has stopped

vars == <<queue, executed, closed>>

Init ==
  /\ queue = <<>>
  /\ executed = <<>>
  /\ closed = FALSE

\* A command that was never accepted before joins the end of the queue.
Accept(c) ==
  /\ c \notin Range(queue) \cup Range(executed)
  /\ queue' = Append(queue, c)
  /\ UNCHANGED <<executed, closed>>

\* The oldest command is executed, and only while the loop runs.
Execute ==
  /\ ~closed
  /\ queue # <<>>
  /\ executed' = Append(executed, Head(queue))
  /\ queue' = Tail(queue)
  /\ UNCHANGED closed

\* The loop stops; whatever is queued is dropped.
Close ==
  /\ ~closed
  /\ closed' = TRUE
  /\ queue' = <<>>
  /\ UNCHANGED executed

Next ==
  \/ \E c \in Commands : Accept(c)
  \/ Execute
  \/ Close

Spec == Init /\ [][Next]_vars
=============================================================================
