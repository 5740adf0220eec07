---------------------------- MODULE SerialDevice ----------------------------
(***************************************************************************)
(* The outgoing side of devices::serial::Device: a queue of encoded frames *)
(* (_pendings) that is written to a non-blocking tty when epoll reports it *)
(* writable, and the registration with the Synchronizer that has to ask    *)
(* for EPOLLOUT exactly while frames are queued.                           *)
(*                                                                         *)
(* Everything here runs on the main thread, but not in one go: epoll_wait  *)
(* reports the descriptor, other callbacks and commands of the same batch  *)
(* run and may call Device::write, and only then are read() and write()    *)
(* called.  The environment decides how many bytes ::write takes, when it  *)
(* fails, and when epoll_ctl fails.                                        *)
(***************************************************************************)
EXTENDS Integers, Sequences, Functions

CONSTANTS
  Frames,        \* encoded frames; each is handed to Device::write once
  Size,          \* how many bytes each has
  Modulus,       \* 2^32: _written is a uint32_t
  MaxIoErrors,   \* bound: failing ::write calls
  MaxCtlErrors   \* bound: failing epoll_ctl(EPOLL_CTL_MOD) calls

\* A frame has at least its terminator, and fits the 32-bit size.
ASSUME SizeAssumption ==
  /\ Modulus \in Nat
  /\ Size \in [Frames -> Nat]
  /\ \A f \in Frames : 0 < Size[f] /\ Size[f] < Modulus

ASSUME BoundsAssumption == MaxIoErrors \in Nat /\ MaxCtlErrors \in Nat

VARIABLES
  state,      \* the device object: "new", "open", "closed"; or "crashed"
  pendings,   \* _pendings: the frames, each with its _written
  known,      \* the Synchronizer's _callbacks has the descriptor
  armed,      \* the events epoll watches for the descriptor
  reported,   \* events of the current batch, their callbacks not called yet
  writing,    \* inside the write() callback: no, its loop, or its update
  line,       \* what the tty took, byte by byte
  accepted,   \* frames Device::write returned 0 for, in order
  ioErrors, ctlErrors

vars == <<state, pendings, known, armed, reported, writing, line, accepted,
          ioErrors, ctlErrors>>

Pending == [frame : Frames, written : 0 .. Modulus - 1]
Byte    == [frame : Frames, index : Nat]

WantWrite(ps) == ps # <<>>
WantedBoth(ps) == {"in", "out"}   \* mutant: wantWrite() is always true
Wanted(ps) == {"in"} \cup (IF WantWrite(ps) THEN {"out"} ELSE {})

Init ==
  /\ state = "new"
  /\ pendings = <<>> /\ known = FALSE /\ armed = {}
  /\ reported = {} /\ writing = "no"
  /\ line = <<>> /\ accepted = <<>>
  /\ ioErrors = 0 /\ ctlErrors = 0

\* Settings, ::open, configure and Synchronizer::append succeeded.  When one
\* of them fails the object is as before, and open may be tried again.
Open ==
  /\ state = "new"
  /\ state' = "open"
  /\ known' = TRUE
  /\ armed' = Wanted(pendings)
  /\ UNCHANGED <<pendings, reported, writing, line, accepted, ioErrors, ctlErrors>>

(***************************************************************************)
(* Synchronizer::update when ps are the pending frames.  A failing         *)
(* epoll_ctl forgets the callback but leaves epoll watching as before.     *)
(***************************************************************************)
Updated(ps) ==
  /\ known
  /\ armed' = Wanted(ps)
  /\ UNCHANGED <<known, ctlErrors>>

UpdateFailed ==
  /\ known' = FALSE
  /\ UNCHANGED armed
  /\ \/ ~known /\ UNCHANGED ctlErrors
     \/ known /\ ctlErrors < MaxCtlErrors /\ ctlErrors' = ctlErrors + 1

----------------------------------------------------------------------------
(***************************************************************************)
(* Device::write, from a command or from another descriptor's callback.    *)
(***************************************************************************)
CanWrite == state = "open" /\ writing = "no"
Fresh(f) == f \notin Range(accepted)
Queued(f) == Append(pendings, [frame |-> f, written |-> 0])

WriteFirstUnasked(f) ==   \* mutant: EPOLLOUT is not asked for
  /\ CanWrite /\ Fresh(f) /\ pendings = <<>>
  /\ pendings' = Queued(f)
  /\ accepted' = Append(accepted, f)
  /\ UNCHANGED <<state, known, armed, reported, writing, line, ioErrors, ctlErrors>>

\* A write that finds the queue empty asks for EPOLLOUT.
WriteFirst(f) ==
  /\ CanWrite /\ Fresh(f) /\ pendings = <<>>
  /\ pendings' = Queued(f)
  /\ accepted' = Append(accepted, f)
  /\ Updated(Queued(f))
  /\ UNCHANGED <<state, reported, writing, line, ioErrors>>

\* ... and takes the frame back, returning an error, when that fails.
WriteRefused(f) ==
  /\ CanWrite /\ Fresh(f) /\ pendings = <<>>
  /\ UpdateFailed
  /\ UNCHANGED <<state, pendings, reported, writing, line, accepted, ioErrors>>

WriteMoreFront(f) ==   \* mutant: the frame joins the head of the queue
  /\ CanWrite /\ Fresh(f) /\ pendings # <<>>
  /\ pendings' = <<[frame |-> f, written |-> 0]>> \o pendings
  /\ accepted' = Append(accepted, f)
  /\ UNCHANGED <<state, known, armed, reported, writing, line, ioErrors, ctlErrors>>

\* A write behind others trusts that EPOLLOUT is asked for already.
WriteMore(f) ==
  /\ CanWrite /\ Fresh(f) /\ pendings # <<>>
  /\ pendings' = Queued(f)
  /\ accepted' = Append(accepted, f)
  /\ UNCHANGED <<state, known, armed, reported, writing, line, ioErrors, ctlErrors>>

----------------------------------------------------------------------------
(***************************************************************************)
(* The descriptor's turn in Synchronizer::synchronize.                     *)
(***************************************************************************)
\* epoll_wait returns with some of the events it watches for.
Report ==
  /\ state = "open" /\ reported = {} /\ writing = "no"
  /\ reported' \in SUBSET armed \ {{}}
  /\ UNCHANGED <<state, pendings, known, armed, writing, line, accepted,
                 ioErrors, ctlErrors>>

\* read() comes first and leaves the outgoing side alone; what it decodes
\* may make the application call Device::write, which is a step of its own.
Read ==
  /\ "in" \in reported
  /\ reported' = reported \ {"in"}
  /\ UNCHANGED <<state, pendings, known, armed, writing, line, accepted,
                 ioErrors, ctlErrors>>

StartWriting ==
  /\ reported = {"out"} /\ writing = "no" /\ pendings # <<>>
  /\ reported' = {}
  /\ writing' = "loop"
  /\ UNCHANGED <<state, pendings, known, armed, line, accepted, ioErrors, ctlErrors>>

\* write() takes the first of no frames: the null pointer it finds in the empty
\* list's header ends the process.
StartCrashes ==
  /\ reported = {"out"} /\ writing = "no" /\ pendings = <<>>
  /\ state' = "crashed"
  /\ reported' = {}
  /\ UNCHANGED <<pendings, known, armed, writing, line, accepted, ioErrors, ctlErrors>>

AdvancePast(p) ==   \* mutant: completed() compares with > instead of >=
  LET completed == p.written > Size[p.frame]
  IN  /\ pendings' = IF completed THEN Tail(pendings)
                                  ELSE [pendings EXCEPT ![1] = p]
      /\ writing' = IF completed /\ Len(pendings) > 1 THEN "loop" ELSE "update"

\* One iteration of write()'s loop left p as the head of the queue.
Advance(p) ==
  LET completed == p.written >= Size[p.frame]
  IN  /\ pendings' = IF completed THEN Tail(pendings)
                                  ELSE [pendings EXCEPT ![1] = p]
      /\ writing' = IF completed /\ Len(pendings) > 1 THEN "loop" ELSE "update"

Remaining(p) == Size[p.frame] - p.written
Sent(p, n) == [i \in 1 .. n |-> [frame |-> p.frame, index |-> p.written + i]]

SendAssumesAll ==   \* mutant: a short write counts as the whole frame
  /\ writing = "loop"
  /\ \E n \in 1 .. Remaining(pendings[1]) :
       line' = line \o Sent(pendings[1], n)
  /\ Advance([pendings[1] EXCEPT !.written = Size[pendings[1].frame]])
  /\ UNCHANGED <<state, known, armed, reported, accepted, ioErrors, ctlErrors>>

\* ::write took n bytes, and tcdrain waited for them to leave.
Send ==
  /\ writing = "loop"
  /\ \E n \in 1 .. Remaining(pendings[1]) :
       /\ line' = line \o Sent(pendings[1], n)
       /\ Advance([pendings[1] EXCEPT !.written = @ + n])
  /\ UNCHANGED <<state, known, armed, reported, accepted, ioErrors, ctlErrors>>

\* ::write returned -1, which is added to the unsigned _written: a frame that
\* was not started counts as complete, another goes back by one byte.
SendFails ==
  /\ writing = "loop"
  /\ ioErrors < MaxIoErrors
  /\ ioErrors' = ioErrors + 1
  /\ Advance([pendings[1] EXCEPT !.written = (@ + Modulus - 1) % Modulus])
  /\ UNCHANGED <<state, known, armed, reported, line, accepted, ctlErrors>>

FinishNoUpdate ==   \* mutant: write() does not update the registration
  /\ writing = "update"
  /\ writing' = "no"
  /\ UNCHANGED <<state, pendings, known, armed, reported, line, accepted,
                 ioErrors, ctlErrors>>

\* write() ends with Synchronizer::update, whose result it ignores.
Finish ==
  /\ writing = "update"
  /\ Updated(pendings) \/ UpdateFailed
  /\ writing' = "no"
  /\ UNCHANGED <<state, pendings, reported, line, accepted, ioErrors>>

\* Device::close, called by a service's release after the loop has ended.
\* The frames still queued are lost; the object cannot be opened again.
Close ==
  /\ state = "open" /\ reported = {} /\ writing = "no"
  /\ state' = "closed"
  /\ pendings' = <<>> /\ known' = FALSE /\ armed' = {}
  /\ UNCHANGED <<reported, writing, line, accepted, ioErrors, ctlErrors>>

Ended == state \in {"closed", "crashed"} /\ UNCHANGED vars

----------------------------------------------------------------------------
Next ==
  \/ Open \/ Close \/ Ended
  \/ \E f \in Frames : WriteFirst(f) \/ WriteRefused(f) \/ WriteMore(f)
  \/ Report \/ Read \/ StartWriting \/ StartCrashes
  \/ Send \/ SendFails \/ Finish

Spec == Init /\ [][Next]_vars

(***************************************************************************)
(* Fairness: the main thread goes on with the callbacks of a batch, and    *)
(* epoll, which is level-triggered, keeps reporting the tty when it can    *)
(* take bytes, which it can again and again.                               *)
(***************************************************************************)
FairSpec ==
  /\ Spec
  /\ SF_vars(Report /\ "out" \in reported')
  /\ WF_vars(Read) /\ WF_vars(StartWriting)
  /\ WF_vars(Send \/ SendFails) /\ WF_vars(Finish)

----------------------------------------------------------------------------
(***************************************************************************)
(* Properties.                                                             *)
(***************************************************************************)
\* Types; _written never exceeds the frame's size between two iterations.
TypeOK ==
  /\ state \in {"new", "open", "closed", "crashed"}
  /\ pendings \in Seq(Pending)
  /\ known \in BOOLEAN
  /\ armed \subseteq {"in", "out"} /\ reported \subseteq {"in", "out"}
  /\ writing \in {"no", "loop", "update"}
  /\ line \in Seq(Byte) /\ accepted \in Seq(Frames)
  /\ ioErrors \in 0 .. MaxIoErrors /\ ctlErrors \in 0 .. MaxCtlErrors
  /\ \A i \in DOMAIN pendings : pendings[i].written < Size[pendings[i].frame]

\* EPOLLOUT is asked for exactly while frames are queued, or the queue would
\* stand still, or epoll_wait would spin (write, wantWrite and the updates).
ArmedWhilePending ==
  state = "open" /\ ctlErrors = 0 /\ writing = "no" =>
    "in" \in armed /\ ("out" \in armed <=> pendings # <<>>)

\* write() is called with a frame to write: nothing between epoll_wait's
\* report and the callback empties the queue.  It can go wrong only after
\* epoll_ctl failed.
NeverWritesNothing == state = "crashed" => ctlErrors > 0

Before(f, g) == \E i, j \in DOMAIN accepted :
                  i < j /\ accepted[i] = f /\ accepted[j] = g

\* Frames reach the line in the order write() accepted them and are never
\* interleaved, short writes and failing writes included: a byte is followed
\* by the next of its frame, by an earlier one that is repeated, or by the
\* first of a later frame.
NoInterleaving ==
  \A i \in 1 .. Len(line) - 1 :
    LET a == line[i]  b == line[i + 1]
    IN  \/ a.frame = b.frame /\ b.index <= a.index + 1
        \/ Before(a.frame, b.frame) /\ b.index = 1

\* b is the byte to follow a when whole frames are sent one after the other.
Follows(a, b) ==
  \/ b.frame = a.frame /\ b.index = a.index + 1
  \/ /\ a.index = Size[a.frame] /\ b.index = 1
     /\ \E i \in 1 .. Len(accepted) - 1 :
          accepted[i] = a.frame /\ accepted[i + 1] = b.frame

Left(f) == [frame |-> f, index |-> Size[f]] \in Range(line)
Waits(f) == \E i \in DOMAIN pendings : pendings[i].frame = f

\* Without failing writes every frame is whole before the next one starts, no
\* frame is skipped, and a frame is queued exactly as long as its last byte
\* has not left.
WholeFrames ==
  ioErrors = 0 =>
    /\ line # <<>> => line[1] = [frame |-> accepted[1], index |-> 1]
    /\ \A i \in 1 .. Len(line) - 1 : Follows(line[i], line[i + 1])
    /\ state = "open" => \A f \in Range(accepted) : Left(f) <=> ~Waits(f)

\* An accepted frame leaves completely while the device stays open and no
\* write fails.
EveryFrameLeaves ==
  \A f \in Frames :
    f \in Range(accepted) ~> Left(f) \/ ioErrors > 0 \/ state # "open"
=============================================================================
