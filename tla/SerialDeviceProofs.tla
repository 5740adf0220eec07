------------------------- MODULE SerialDeviceProofs -------------------------
(***************************************************************************)
(* Proofs about SerialDevice, for any frames, sizes and numbers of         *)
(* failures.                                                               *)
(***************************************************************************)
EXTENDS SerialDevice, TLAPS

\* One iteration of write()'s loop keeps the queue well typed, whether ::write
\* took n bytes or failed.
LEMMA AdvanceType ==
  ASSUME NEW p \in Pending, pendings \in Seq(Pending), pendings # <<>>, Advance(p),
         \A i \in DOMAIN pendings : pendings[i].written < Size[pendings[i].frame],
         p.frame = pendings[1].frame
  PROVE  /\ pendings' \in Seq(Pending)
         /\ \A i \in DOMAIN pendings' : pendings'[i].written < Size[pendings'[i].frame]
         /\ writing' \in {"loop", "update"}
         /\ writing' = "loop" => pendings' # <<>>
<1> USE SizeAssumption DEF Advance
<1>1. CASE p.written >= Size[p.frame]
  <2>1. pendings' = Tail(pendings)
    BY <1>1
  <2>2. pendings' \in Seq(Pending) /\ Len(pendings') = Len(pendings) - 1
    BY <2>1
  <2>3. \A i \in DOMAIN pendings' : pendings'[i] = pendings[i + 1] /\ i + 1 \in DOMAIN pendings
    BY <2>1
  <2> QED
    BY <1>1, <2>2, <2>3
<1>2. CASE ~(p.written >= Size[p.frame])
  <2>1. pendings' = [pendings EXCEPT ![1] = p] /\ writing' = "update"
    BY <1>2
  <2>2. p.written < Size[p.frame]
    BY <1>2 DEF Pending
  <2> QED
    BY <2>1, <2>2
<1> QED BY <1>1, <1>2

\* The two outcomes of ::write leave a well-typed head.
LEMMA HeadType ==
  ASSUME NEW p \in Pending, p.written < Size[p.frame]
  PROVE  /\ \A n \in 1 .. Remaining(p) : [p EXCEPT !.written = @ + n] \in Pending
         /\ [p EXCEPT !.written = (@ + Modulus - 1) % Modulus] \in Pending
<1> USE SizeAssumption DEF Pending, Remaining
<1>1. p.frame \in Frames /\ p.written \in 0 .. Modulus - 1 /\ Size[p.frame] < Modulus
  OBVIOUS
<1>2. ASSUME NEW n \in 1 .. Remaining(p) PROVE p.written + n \in 0 .. Modulus - 1
  BY <1>1
<1>3. (p.written + Modulus - 1) % Modulus \in 0 .. Modulus - 1
  BY <1>1
<1> QED BY <1>1, <1>2, <1>3

\* The bytes of one ::write are bytes.
LEMMA SentType ==
  ASSUME NEW p \in Pending, NEW n \in Nat
  PROVE  /\ Sent(p, n) \in Seq(Byte) /\ Len(Sent(p, n)) = n
         /\ \A i \in 1 .. n : Sent(p, n)[i] = [frame |-> p.frame, index |-> p.written + i]
<1>1. \A i \in 1 .. n : [frame |-> p.frame, index |-> p.written + i] \in Byte
  BY DEF Pending, Byte
<1> QED BY <1>1 DEF Sent

(***************************************************************************)
(* Types, with what holds inside the write() callback.                     *)
(***************************************************************************)
Types ==
  /\ TypeOK
  /\ writing = "loop" => pendings # <<>>
  /\ writing # "no" => reported = {}
  /\ state # "open" => reported = {} /\ writing = "no"
  /\ state = "new" => pendings = <<>>

\* The types hold for a device that was just constructed.
LEMMA TypesInit == Init => Types
<1> SUFFICES ASSUME Init PROVE Types
  OBVIOUS
<1>1. /\ pendings \in Seq(Pending) /\ line \in Seq(Byte) /\ accepted \in Seq(Frames)
      /\ DOMAIN pendings = {}
  BY DEF Init
<1>2. ioErrors \in 0 .. MaxIoErrors /\ ctlErrors \in 0 .. MaxCtlErrors
  BY BoundsAssumption DEF Init
<1> QED
  BY <1>1, <1>2 DEF Init, Types, TypeOK

\* Synchronizer::update asks for EPOLLIN and perhaps EPOLLOUT.
LEMMA WantedType == \A ps : Wanted(ps) \subseteq {"in", "out"}
BY DEF Wanted

\* What Synchronizer::update leaves behind, whether epoll_ctl fails or not.
LEMMA UpdateType ==
  ASSUME TypeOK
  PROVE  /\ \A ps : Updated(ps) => armed' \subseteq {"in", "out"} /\ known' = known
                                  /\ ctlErrors' = ctlErrors
         /\ UpdateFailed => /\ armed' = armed /\ known' = FALSE
                            /\ ctlErrors' \in 0 .. MaxCtlErrors
<1>1. \A ps : Updated(ps) => armed' \subseteq {"in", "out"} /\ known' = known
                                  /\ ctlErrors' = ctlErrors
  BY WantedType DEF Updated
<1>2. UpdateFailed => armed' = armed /\ known' = FALSE
  BY DEF UpdateFailed
<1>3. UpdateFailed => ctlErrors' \in 0 .. MaxCtlErrors
  BY BoundsAssumption DEF UpdateFailed, TypeOK
<1> QED BY <1>1, <1>2, <1>3

\* Every step keeps the types.
LEMMA TypesNext == Types /\ [Next]_vars => Types'
<1> SUFFICES ASSUME Types, [Next]_vars PROVE Types'
  OBVIOUS
<1> USE SizeAssumption, BoundsAssumption DEF Types, TypeOK
<1>1. CASE Open
  <2>1. armed' \subseteq {"in", "out"} /\ known' \in BOOLEAN
    BY <1>1, WantedType DEF Open
  <2> QED BY <1>1, <2>1 DEF Open
<1>2. CASE Close
  <2>1. pendings' \in Seq(Pending) /\ DOMAIN pendings' = {}
    BY <1>2 DEF Close
  <2> QED BY <1>2, <2>1 DEF Close
<1>3. CASE Ended BY <1>3 DEF Ended, vars
<1>4. ASSUME NEW f \in Frames PROVE /\ Queued(f) \in Seq(Pending)
                                    /\ Queued(f) # <<>>
                                    /\ \A i \in DOMAIN Queued(f) :
                                         Queued(f)[i].written < Size[Queued(f)[i].frame]
  <2>1. [frame |-> f, written |-> 0] \in Pending
    BY DEF Pending
  <2>2. /\ Queued(f) \in Seq(Pending) /\ Len(Queued(f)) = Len(pendings) + 1
        /\ \A i \in DOMAIN pendings : Queued(f)[i] = pendings[i]
        /\ Queued(f)[Len(pendings) + 1] = [frame |-> f, written |-> 0]
    BY <2>1 DEF Queued
  <2>3. ASSUME NEW i \in DOMAIN Queued(f)
        PROVE  Queued(f)[i].written < Size[Queued(f)[i].frame]
    <3>1. CASE i \in DOMAIN pendings BY <2>2, <3>1
    <3>2. CASE i = Len(pendings) + 1 BY <2>2, <3>2
    <3> QED BY <2>2, <3>1, <3>2
  <2> QED BY <2>2, <2>3
<1>5. ASSUME NEW f \in Frames, WriteFirst(f) PROVE Types'
  <2>1. armed' \subseteq {"in", "out"} /\ known' = known /\ ctlErrors' = ctlErrors
    BY <1>5, UpdateType DEF WriteFirst
  <2> QED BY <1>4, <1>5, <2>1 DEF WriteFirst, CanWrite
<1>6. ASSUME NEW f \in Frames, WriteRefused(f) PROVE Types'
  <2>1. armed' = armed /\ known' = FALSE /\ ctlErrors' \in 0 .. MaxCtlErrors
    BY <1>6, UpdateType DEF WriteRefused
  <2> QED BY <1>6, <2>1 DEF WriteRefused, CanWrite
<1>7. ASSUME NEW f \in Frames, WriteMore(f) PROVE Types'
  BY <1>4, <1>7 DEF WriteMore, CanWrite
<1>8. CASE Report BY <1>8 DEF Report
<1>9. CASE Read BY <1>9 DEF Read
<1>10. CASE StartWriting BY <1>10 DEF StartWriting
<1>11. CASE StartCrashes BY <1>11 DEF StartCrashes
<1>12. ASSUME writing = "loop"
       PROVE  /\ pendings[1] \in Pending
              /\ pendings[1].written < Size[pendings[1].frame]
  BY <1>12
<1>13. CASE Send
  <2>1. PICK n \in 1 .. Remaining(pendings[1]) :
          /\ line' = line \o Sent(pendings[1], n)
          /\ Advance([pendings[1] EXCEPT !.written = @ + n])
    BY <1>13 DEF Send
  <2>2. n \in Nat
    BY <1>12, <1>13, <2>1 DEF Send, Remaining, Pending
  <2>3. line' \in Seq(Byte)
    BY <1>12, <1>13, <2>1, <2>2, SentType DEF Send
  <2>4. [pendings[1] EXCEPT !.written = @ + n] \in Pending
    BY <1>12, <1>13, <2>1, HeadType DEF Send
  <2>5. [pendings[1] EXCEPT !.written = @ + n].frame = pendings[1].frame
    BY <1>12, <1>13 DEF Send, Pending
  <2> QED
    BY <1>13, <2>1, <2>3, <2>4, <2>5, AdvanceType DEF Send
<1>14. CASE SendFails
  <2> DEFINE p == [pendings[1] EXCEPT !.written = (@ + Modulus - 1) % Modulus]
  <2>1. p \in Pending /\ p.frame = pendings[1].frame
    BY <1>12, <1>14, HeadType DEF SendFails, Pending
  <2>2. Advance(p)
    BY <1>14 DEF SendFails
  <2> HIDE DEF p
  <2> QED
    BY <1>14, <2>1, <2>2, AdvanceType DEF SendFails
<1>15. CASE Finish
  <2>1. armed' \subseteq {"in", "out"} /\ known' \in BOOLEAN
        /\ ctlErrors' \in 0 .. MaxCtlErrors
    BY <1>15, UpdateType DEF Finish
  <2> QED BY <1>15, <2>1 DEF Finish
<1>16. CASE UNCHANGED vars BY <1>16 DEF vars
<1> QED
  BY <1>1, <1>2, <1>3, <1>5, <1>6, <1>7, <1>8, <1>9, <1>10, <1>11, <1>13, <1>14,
     <1>15, <1>16 DEF Next

\* Every variable keeps its type, and _written stays below the frame's size
\* whenever the loop is between two writes.
THEOREM TypeCorrect == Spec => []TypeOK
<1>1. Types => TypeOK
  BY DEF Types
<1> QED
  BY <1>1, TypesInit, TypesNext, PTL DEF Spec

(***************************************************************************)
(* The registration.  Between callbacks EPOLLOUT is asked for exactly when *)
(* frames are queued; what was reported before may be older, but callbacks *)
(* that run in between only add frames.                                    *)
(***************************************************************************)
Arming ==
  /\ state = "open" /\ ctlErrors = 0 =>
       /\ known = TRUE
       /\ "in" \in armed
       /\ writing = "no" => ("out" \in armed <=> pendings # <<>>)
       /\ "out" \in reported => pendings # <<>>
  /\ state = "crashed" => ctlErrors > 0

\* Synchronizer::update leaves a registration that matches the queue, or
\* counts a failure of epoll_ctl.
LEMMA UpdateArms ==
  ASSUME Types, Arming, state = "open"
  PROVE  /\ \A ps : Updated(ps) => /\ "in" \in armed'
                                   /\ "out" \in armed' <=> ps # <<>>
                                   /\ known' = known /\ ctlErrors' = ctlErrors
         /\ UpdateFailed => ctlErrors' > 0
<1>1. ASSUME NEW ps, Updated(ps)
      PROVE  /\ "in" \in armed'
             /\ "out" \in armed' <=> ps # <<>>
             /\ known' = known /\ ctlErrors' = ctlErrors
  BY <1>1 DEF Updated, Wanted, WantWrite
<1>2. ctlErrors \in Nat
  BY BoundsAssumption DEF Types, TypeOK
<1>3. ASSUME UpdateFailed PROVE ctlErrors' > 0
  <2>1. CASE ctlErrors = 0
    <3>1. known = TRUE
      BY <2>1 DEF Arming
    <3> QED BY <1>3, <2>1, <3>1 DEF UpdateFailed
  <2>2. CASE ctlErrors # 0
    BY <1>2, <1>3, <2>2 DEF UpdateFailed
  <2> QED BY <2>1, <2>2
<1> QED BY <1>1, <1>3

\* The registration is right at first: there is none.
LEMMA ArmingInit == Init => Arming
BY DEF Init, Arming

\* Every step keeps the registration in accord with the queue.
LEMMA ArmingNext == Types /\ Arming /\ [Next]_vars => Arming'
<1> SUFFICES ASSUME Types, Arming, [Next]_vars PROVE Arming'
  OBVIOUS
<1> USE DEF Arming
<1>a. ctlErrors \in Nat
  BY BoundsAssumption DEF Types, TypeOK
<1>b. ASSUME NEW f PROVE Queued(f) # <<>>
  BY DEF Queued, Types, TypeOK
<1>1. CASE Open
  BY <1>1 DEF Open, Types, Wanted, WantWrite
<1>2. CASE Close BY <1>2 DEF Close
<1>3. CASE Ended BY <1>3 DEF Ended, vars
<1>4. ASSUME NEW f \in Frames, WriteFirst(f) PROVE Arming'
  <2>1. state = "open" /\ Updated(Queued(f)) /\ pendings' = Queued(f)
        /\ UNCHANGED <<state, reported, writing>>
    BY <1>4 DEF WriteFirst, CanWrite
  <2> QED BY <1>b, <2>1, UpdateArms
<1>5. ASSUME NEW f \in Frames, WriteRefused(f) PROVE Arming'
  <2>1. state = "open" /\ UpdateFailed /\ UNCHANGED state
    BY <1>5 DEF WriteRefused, CanWrite
  <2>2. ctlErrors' > 0
    BY <2>1, UpdateArms
  <2>3. ctlErrors' # 0
    BY <2>2
  <2> QED BY <2>1, <2>2, <2>3
<1>6. ASSUME NEW f \in Frames, WriteMore(f) PROVE Arming'
  <2>1. pendings # <<>> /\ pendings' # <<>>
        /\ UNCHANGED <<state, known, armed, reported, writing, ctlErrors>>
    BY <1>b, <1>6 DEF WriteMore
  <2> QED BY <2>1
<1>7. CASE Report BY <1>7 DEF Report
<1>8. CASE Read BY <1>8 DEF Read
<1>9. CASE StartWriting BY <1>9 DEF StartWriting
<1>10. CASE StartCrashes
  <2>1. state = "open" /\ "out" \in reported /\ pendings = <<>>
    BY <1>10 DEF StartCrashes, Types
  <2>2. ctlErrors' > 0
    BY <1>a, <1>10, <2>1 DEF StartCrashes
  <2> QED BY <1>10, <2>2 DEF StartCrashes
<1>11. CASE Send \/ SendFails
  <2>1. writing' # "no" /\ reported = {} /\ UNCHANGED <<state, known, armed, reported, ctlErrors>>
    BY <1>11 DEF Send, SendFails, Advance, Types
  <2> QED BY <2>1
<1>12. CASE Finish
  <2>1. state = "open" /\ UNCHANGED <<state, reported, pendings>> /\ reported = {}
        /\ (Updated(pendings) \/ UpdateFailed)
    BY <1>12 DEF Finish, Types
  <2>2. CASE Updated(pendings)
    BY <2>1, <2>2, UpdateArms
  <2>3. CASE UpdateFailed
    <3>1. ctlErrors' > 0
      BY <2>1, <2>3, UpdateArms
    <3>2. ctlErrors' # 0
      BY <3>1
    <3> QED BY <2>1, <3>2
  <2> QED BY <2>1, <2>2, <2>3
<1>13. CASE UNCHANGED vars BY <1>13 DEF vars
<1> QED
  BY <1>1, <1>2, <1>3, <1>4, <1>5, <1>6, <1>7, <1>8, <1>9, <1>10, <1>11, <1>12,
     <1>13 DEF Next

\* EPOLLOUT is asked for exactly while frames are queued, whatever was
\* written, as long as epoll_ctl does not fail.
THEOREM ArmedWhilePendingCorrect == Spec => []ArmedWhilePending
<1>1. Types /\ Arming => ArmedWhilePending
  BY DEF Arming, ArmedWhilePending
<1> QED
  BY <1>1, TypesInit, TypesNext, ArmingInit, ArmingNext, PTL DEF Spec

\* write() is never called without a frame unless epoll_ctl failed before.
THEOREM NeverWritesNothingCorrect == Spec => []NeverWritesNothing
<1>1. Arming => NeverWritesNothing
  BY DEF Arming, NeverWritesNothing
<1> QED
  BY <1>1, TypesInit, TypesNext, ArmingInit, ArmingNext, PTL DEF Spec

(***************************************************************************)
(* What one iteration of write()'s loop does to the queue and the line.    *)
(***************************************************************************)
\* The head leaves the queue ...
Pops ==
  /\ Len(pendings') = Len(pendings) - 1
  /\ \A j \in 1 .. Len(pendings) - 1 : pendings'[j] = pendings[j + 1]

\* ... or stays, with w bytes written.
Stays(w) ==
  /\ Len(pendings') = Len(pendings)
  /\ pendings'[1] = [frame |-> pendings[1].frame, written |-> w]
  /\ \A j \in 2 .. Len(pendings) : pendings'[j] = pendings[j]

\* The line is longer by the bytes after p's written, n of them.
Extends(p, n) ==
  /\ Len(line') = Len(line) + n
  /\ \A i \in 1 .. Len(line) : line'[i] = line[i]
  /\ \A i \in 1 .. n :
       line'[Len(line) + i] = [frame |-> p.frame, index |-> p.written + i]

\* An iteration keeps the head or drops it, as _written tells.
LEMMA AdvanceStep ==
  ASSUME Types, writing = "loop", NEW w \in 0 .. Modulus - 1,
         Advance([pendings[1] EXCEPT !.written = w])
  PROVE  /\ w >= Size[pendings[1].frame] => Pops
         /\ w < Size[pendings[1].frame] => Stays(w)
<1> DEFINE p == [pendings[1] EXCEPT !.written = w]
<1>1. /\ pendings \in Seq(Pending) /\ pendings # <<>> /\ pendings[1] \in Pending
  BY DEF Types, TypeOK
<1>2. p = [frame |-> pendings[1].frame, written |-> w]
  BY <1>1 DEF Pending
<1>3. CASE w >= Size[pendings[1].frame]
  <2>1. pendings' = Tail(pendings)
    BY <1>2, <1>3 DEF Advance
  <2> QED BY <1>1, <1>3, <2>1, SizeAssumption DEF Pops, Pending
<1>4. CASE ~(w >= Size[pendings[1].frame])
  <2>1. pendings' = [pendings EXCEPT ![1] = p]
    BY <1>2, <1>4 DEF Advance
  <2>2. Stays(w)
    BY <1>1, <1>2, <2>1 DEF Stays
  <2> QED BY <1>4, <2>2
<1> QED BY <1>3, <1>4

\* A successful ::write: n bytes leave, and a frame leaves the queue exactly
\* when its last byte does.
LEMMA SendStep ==
  ASSUME Types, Send
  PROVE  \E n \in Nat \ {0} :
           /\ Extends(pendings[1], n)
           /\ pendings[1].written + n <= Size[pendings[1].frame]
           /\ \/ pendings[1].written + n = Size[pendings[1].frame] /\ Pops
              \/ pendings[1].written + n < Size[pendings[1].frame]
                   /\ Stays(pendings[1].written + n)
<1>1. /\ writing = "loop" /\ pendings \in Seq(Pending) /\ pendings # <<>>
      /\ pendings[1] \in Pending /\ pendings[1].written < Size[pendings[1].frame]
      /\ line \in Seq(Byte)
  BY DEF Types, TypeOK, Send
<1>2. PICK n \in 1 .. Remaining(pendings[1]) :
        /\ line' = line \o Sent(pendings[1], n)
        /\ Advance([pendings[1] EXCEPT !.written = @ + n])
  BY DEF Send
<1>3. /\ n \in Nat \ {0} /\ pendings[1].written \in Nat
      /\ pendings[1].written + n <= Size[pendings[1].frame]
      /\ Size[pendings[1].frame] \in Nat
      /\ pendings[1].written + n \in 0 .. Modulus - 1
  BY <1>1, <1>2, SizeAssumption DEF Remaining, Pending
<1>4. Advance([pendings[1] EXCEPT !.written = pendings[1].written + n])
  BY <1>2
<1>5. /\ Sent(pendings[1], n) \in Seq(Byte) /\ Len(Sent(pendings[1], n)) = n
      /\ \A i \in 1 .. n : Sent(pendings[1], n)[i]
                             = [frame |-> pendings[1].frame,
                                index |-> pendings[1].written + i]
  BY <1>1, <1>3, SentType
<1>6. Extends(pendings[1], n)
  BY <1>1, <1>2, <1>3, <1>5 DEF Extends
<1>7. /\ pendings[1].written + n >= Size[pendings[1].frame] => Pops
      /\ pendings[1].written + n < Size[pendings[1].frame] => Stays(pendings[1].written + n)
  BY <1>1, <1>3, <1>4, AdvanceStep
<1> QED BY <1>3, <1>6, <1>7

\* A failing ::write drops a frame that was not started and puts any other
\* back by one byte.
LEMMA SendFailsStep ==
  ASSUME Types, SendFails
  PROVE  /\ line' = line
         /\ \/ pendings[1].written = 0 /\ Pops
            \/ pendings[1].written > 0 /\ Stays(pendings[1].written - 1)
<1>1. /\ writing = "loop" /\ pendings \in Seq(Pending) /\ pendings # <<>>
      /\ pendings[1] \in Pending /\ pendings[1].written < Size[pendings[1].frame]
  BY DEF Types, TypeOK, SendFails
<1> DEFINE w == (pendings[1].written + Modulus - 1) % Modulus
<1>2. Advance([pendings[1] EXCEPT !.written = w])
  BY DEF SendFails
<1>3. /\ pendings[1].written \in 0 .. Modulus - 1 /\ Modulus \in Nat
      /\ Size[pendings[1].frame] \in Nat /\ Size[pendings[1].frame] < Modulus
  BY <1>1, SizeAssumption DEF Pending
<1>4. CASE pendings[1].written = 0
  <2>1. w = Modulus - 1
    BY <1>3, <1>4
  <2>2. w \in 0 .. Modulus - 1 /\ w >= Size[pendings[1].frame]
    BY <1>3, <2>1
  <2> QED BY <1>1, <1>2, <1>4, <2>2, AdvanceStep DEF SendFails
<1>5. CASE pendings[1].written # 0
  <2>1. pendings[1].written - 1 \in 0 .. Modulus - 1
        /\ pendings[1].written + Modulus - 1 = (pendings[1].written - 1) + Modulus
    BY <1>3, <1>5
  <2>2. w = pendings[1].written - 1
    BY <1>3, <1>5, <2>1
  <2>3. w \in 0 .. Modulus - 1 /\ w < Size[pendings[1].frame] /\ pendings[1].written > 0
    BY <1>1, <1>3, <1>5, <2>2
  <2> QED BY <1>1, <1>2, <2>2, <2>3, AdvanceStep DEF SendFails
<1> QED BY <1>3, <1>4, <1>5

(***************************************************************************)
(* Order.  The queue is the end of what was accepted, only its head may    *)
(* have been started, and the line ends with a frame that left the queue   *)
(* or with the head, up to its written bytes or beyond.                    *)
(***************************************************************************)
Popped == Len(accepted) - Len(pendings)

Distinct ==
  \A i, j \in DOMAIN accepted : i < j => accepted[i] # accepted[j]

Queueing ==
  /\ Len(pendings) <= Len(accepted)
  /\ \A j \in DOMAIN pendings : pendings[j].frame = accepted[Popped + j]
  /\ \A j \in DOMAIN pendings : j > 1 => pendings[j].written = 0

LineEnd ==
  /\ line = <<>> /\ pendings # <<>> => pendings[1].written = 0
  /\ line # <<>> =>
       \/ /\ \E k \in 1 .. Popped : accepted[k] = line[Len(line)].frame
          /\ pendings # <<>> => pendings[1].written = 0
       \/ /\ pendings # <<>>
          /\ line[Len(line)].frame = pendings[1].frame
          /\ pendings[1].written <= line[Len(line)].index

Order == Distinct /\ (state # "closed" => Queueing /\ LineEnd)

\* The queue, the line and the accepted frames are sequences with their lengths.
LEMMA Sequenced ==
  ASSUME Types
  PROVE  /\ pendings \in Seq(Pending) /\ Len(pendings) \in Nat
         /\ DOMAIN pendings = 1 .. Len(pendings)
         /\ pendings = <<>> <=> Len(pendings) = 0
         /\ accepted \in Seq(Frames) /\ Len(accepted) \in Nat
         /\ DOMAIN accepted = 1 .. Len(accepted)
         /\ line \in Seq(Byte) /\ Len(line) \in Nat
         /\ line = <<>> <=> Len(line) = 0
BY DEF Types, TypeOK

\* Accepting f makes it the end of both sequences.
LEMMA AcceptStep ==
  ASSUME Types, NEW f \in Frames, pendings' = Queued(f),
         accepted' = Append(accepted, f)
  PROVE  /\ Len(accepted') = Len(accepted) + 1 /\ Len(pendings') = Len(pendings) + 1
         /\ Popped' = Popped
         /\ \A i \in DOMAIN accepted : accepted'[i] = accepted[i]
         /\ accepted'[Len(accepted) + 1] = f
         /\ \A j \in DOMAIN pendings : pendings'[j] = pendings[j]
         /\ pendings'[Len(pendings) + 1] = [frame |-> f, written |-> 0]
<1>1. /\ Len(accepted') = Len(accepted) + 1
      /\ \A i \in DOMAIN accepted : accepted'[i] = accepted[i]
      /\ accepted'[Len(accepted) + 1] = f
  BY Sequenced
<1>2. [frame |-> f, written |-> 0] \in Pending
  BY SizeAssumption DEF Pending
<1>3. /\ Len(pendings') = Len(pendings) + 1
      /\ \A j \in DOMAIN pendings : pendings'[j] = pendings[j]
      /\ pendings'[Len(pendings) + 1] = [frame |-> f, written |-> 0]
  BY <1>2, Sequenced DEF Queued
<1> QED BY <1>1, <1>3, Sequenced DEF Popped

\* When the head leaves the queue, one more accepted frame has left it.
LEMMA PopsKeepQueueing ==
  ASSUME Types, Types', Queueing, pendings # <<>>, Pops, UNCHANGED accepted
  PROVE  /\ Queueing' /\ Popped \in Nat /\ Popped' = Popped + 1
         /\ accepted[Popped + 1] = pendings[1].frame
         /\ pendings' # <<>> => pendings'[1].written = 0
<1>1. Len(pendings) >= 1 /\ Len(pendings') = Len(pendings) - 1 /\ Popped \in Nat
  BY Sequenced DEF Pops, Queueing, Popped
<1>2. Popped' = Popped + 1
  BY <1>1, Sequenced DEF Popped
<1>3. accepted[Popped + 1] = pendings[1].frame
  BY <1>1, Sequenced DEF Queueing
<1>4. DOMAIN pendings' = 1 .. Len(pendings) - 1
  BY <1>1 DEF Types, TypeOK
<1>5. \A j \in DOMAIN pendings' :
        /\ j + 1 \in DOMAIN pendings /\ pendings'[j] = pendings[j + 1]
        /\ pendings'[j].written = 0
        /\ pendings'[j].frame = accepted[Popped' + j]
  <2> SUFFICES ASSUME NEW j \in DOMAIN pendings'
               PROVE  /\ j + 1 \in DOMAIN pendings /\ pendings'[j] = pendings[j + 1]
                      /\ pendings'[j].written = 0
                      /\ pendings'[j].frame = accepted[Popped' + j]
    OBVIOUS
  <2>1. j \in 1 .. Len(pendings) - 1 /\ j + 1 \in DOMAIN pendings /\ j + 1 > 1
    BY <1>1, <1>4, Sequenced
  <2>2. pendings'[j] = pendings[j + 1]
    BY <2>1 DEF Pops
  <2>3. pendings[j + 1].written = 0 /\ pendings[j + 1].frame = accepted[Popped + (j + 1)]
    BY <2>1 DEF Queueing
  <2>4. Popped' + j = Popped + (j + 1)
    BY <1>1, <1>2, <2>1
  <2> QED BY <2>1, <2>2, <2>3, <2>4
<1>6. Queueing'
  BY <1>1, <1>5, Sequenced DEF Queueing
<1>7. pendings' # <<>> => pendings'[1].written = 0
  <2>1. pendings' # <<>> => 1 \in DOMAIN pendings'
    BY <1>4 DEF Types, TypeOK
  <2> QED BY <1>5, <2>1
<1> QED BY <1>1, <1>2, <1>3, <1>6, <1>7

\* As long as the head stays, the queue is what it was.
LEMMA StaysKeepsQueueing ==
  ASSUME Types, Types', Queueing, pendings # <<>>, NEW w, Stays(w), UNCHANGED accepted
  PROVE  /\ Queueing' /\ Popped' = Popped /\ pendings' # <<>>
         /\ pendings'[1].frame = pendings[1].frame /\ pendings'[1].written = w
<1>1. /\ Len(pendings) >= 1 /\ Len(pendings') = Len(pendings)
      /\ pendings'[1].frame = pendings[1].frame /\ pendings'[1].written = w
  BY Sequenced DEF Stays
<1>2. Popped' = Popped /\ pendings' # <<>> /\ DOMAIN pendings' = DOMAIN pendings
  BY <1>1, Sequenced DEF Popped, Types, TypeOK
<1>3. \A j \in DOMAIN pendings' :
        /\ pendings'[j].frame = pendings[j].frame
        /\ j > 1 => pendings'[j].written = pendings[j].written
  BY <1>1, <1>2, Sequenced DEF Stays
<1> QED BY <1>1, <1>2, <1>3, Sequenced DEF Queueing

\* The order holds at first.
LEMMA OrderInit == Init => Order
BY DEF Init, Order, Distinct, Queueing, LineEnd, Popped

\* Every step keeps the order.
LEMMA OrderNext == Types /\ Types' /\ Order /\ [Next]_vars => Order'
<1> SUFFICES ASSUME Types, Types', Order, [Next]_vars PROVE Order'
  OBVIOUS
<1>1. ASSUME UNCHANGED <<pendings, line, accepted>>, state' = "closed" <=> state = "closed"
      PROVE  Order'
  BY <1>1 DEF Order, Distinct, Queueing, LineEnd, Popped
<1>2. CASE Open \/ Ended \/ Report \/ Read \/ StartWriting \/ StartCrashes \/ Finish
  <2>1. UNCHANGED <<pendings, line, accepted>>
    BY <1>2 DEF Open, Ended, Report, Read, StartWriting, StartCrashes, Finish, vars
  <2>2. state' = "closed" <=> state = "closed"
    BY <1>2 DEF Open, Ended, Report, Read, StartWriting, StartCrashes, Finish, vars, Types
  <2> QED BY <1>1, <2>1, <2>2
<1>3. CASE Close
  BY <1>3 DEF Close, Order, Distinct
<1>4. ASSUME NEW f \in Frames, WriteFirst(f) \/ WriteMore(f) PROVE Order'
  <2>1. /\ state = "open" /\ state' = "open" /\ line' = line /\ Fresh(f)
        /\ pendings' = Queued(f) /\ accepted' = Append(accepted, f)
    BY <1>4 DEF WriteFirst, WriteMore, CanWrite
  <2>2. /\ Len(accepted') = Len(accepted) + 1 /\ Len(pendings') = Len(pendings) + 1
        /\ Popped' = Popped
        /\ \A i \in DOMAIN accepted : accepted'[i] = accepted[i]
        /\ accepted'[Len(accepted) + 1] = f
        /\ \A j \in DOMAIN pendings : pendings'[j] = pendings[j]
        /\ pendings'[Len(pendings) + 1] = [frame |-> f, written |-> 0]
    BY <2>1, AcceptStep
  <2>3. /\ DOMAIN accepted' = 1 .. Len(accepted) + 1
        /\ DOMAIN pendings' = 1 .. Len(pendings) + 1
    BY <2>2 DEF Types, TypeOK
  <2>4. Queueing /\ LineEnd /\ Distinct
    BY <2>1 DEF Order
  <2>5. \A i \in DOMAIN accepted : accepted[i] # f
    BY <2>1, Sequenced DEF Fresh, Range
  <2>6. Distinct'
    BY <2>2, <2>3, <2>4, <2>5, Sequenced DEF Distinct
  <2>7. Queueing'
    <3>1. Len(pendings') <= Len(accepted')
      BY <2>2, <2>4, Sequenced DEF Queueing
    <3>2. ASSUME NEW j \in DOMAIN pendings'
          PROVE  /\ pendings'[j].frame = accepted'[Popped' + j]
                 /\ j > 1 => pendings'[j].written = 0
      <4>1. CASE j \in DOMAIN pendings
        <5>1. Popped + j \in DOMAIN accepted
          BY <2>4, <4>1, Sequenced DEF Queueing, Popped
        <5> QED BY <2>2, <2>4, <4>1, <5>1 DEF Queueing
      <4>2. CASE j = Len(pendings) + 1
        <5>1. Popped + j = Len(accepted) + 1
          BY <4>2, Sequenced DEF Popped
        <5> QED BY <2>2, <4>2, <5>1
      <4> QED BY <2>3, <4>1, <4>2, Sequenced
    <3> QED BY <3>1, <3>2 DEF Queueing
  <2>8. LineEnd'
    <3>1. pendings # <<>> => pendings'[1] = pendings[1]
      BY <2>2, Sequenced
    <3>2. pendings = <<>> => pendings'[1].written = 0
      BY <2>2, Sequenced
    <3>3. \A k \in 1 .. Popped : accepted'[k] = accepted[k]
      BY <2>2, Sequenced DEF Popped
    <3>4. Popped' = Popped /\ line' = line /\ pendings' # <<>>
      BY <2>1, <2>2, <2>3, Sequenced
    <3> QED BY <2>4, <3>1, <3>2, <3>3, <3>4 DEF LineEnd
  <2> QED BY <2>1, <2>6, <2>7, <2>8 DEF Order
<1>5. ASSUME NEW f \in Frames, WriteRefused(f) PROVE Order'
  BY <1>1, <1>5 DEF WriteRefused
<1>6. ASSUME Send \/ SendFails
      PROVE  /\ state = "open" /\ state' = "open" /\ accepted' = accepted
             /\ pendings # <<>> /\ Queueing /\ LineEnd /\ Distinct /\ Distinct'
  BY <1>6 DEF Send, SendFails, Types, Order, Distinct
<1>7. CASE Send
  <2>1. PICK n \in Nat \ {0} :
           /\ Extends(pendings[1], n)
           /\ \/ Pops
              \/ Stays(pendings[1].written + n)
    BY <1>7, SendStep
  <2>2. /\ line' # <<>> /\ line'[Len(line')].frame = pendings[1].frame
        /\ line'[Len(line')].index = pendings[1].written + n
        /\ pendings[1].written \in Nat
    <3>1. Len(line') = Len(line) + n /\ Len(line) \in Nat /\ n \in 1 .. n
      BY <2>1, Sequenced DEF Extends
    <3>2. line'[Len(line) + n] = [frame |-> pendings[1].frame,
                                  index |-> pendings[1].written + n]
      BY <2>1, <3>1 DEF Extends
    <3>3. pendings[1] \in Pending
      BY <1>6, <1>7, Sequenced
    <3>4. line' # <<>>
      BY <3>1 DEF Types, TypeOK
    <3> QED BY <3>1, <3>2, <3>3, <3>4, SizeAssumption DEF Pending
  <2>3. CASE Pops
    <3>1. /\ Queueing' /\ Popped \in Nat /\ Popped' = Popped + 1
          /\ accepted[Popped + 1] = pendings[1].frame
          /\ pendings' # <<>> => pendings'[1].written = 0
      BY <1>6, <1>7, <2>3, PopsKeepQueueing
    <3>2. \E k \in 1 .. Popped' : accepted'[k] = line'[Len(line')].frame
      BY <1>6, <1>7, <2>2, <3>1
    <3>3. LineEnd'
      BY <2>2, <3>1, <3>2 DEF LineEnd
    <3> QED BY <1>6, <1>7, <3>1, <3>3 DEF Order
  <2>4. CASE Stays(pendings[1].written + n)
    <3>1. /\ Queueing' /\ pendings' # <<>>
          /\ pendings'[1].frame = pendings[1].frame
          /\ pendings'[1].written = pendings[1].written + n
      BY <1>6, <1>7, <2>4, StaysKeepsQueueing
    <3>2. LineEnd'
      BY <2>2, <3>1 DEF LineEnd
    <3> QED BY <1>6, <1>7, <3>1, <3>2 DEF Order
  <2> QED BY <2>1, <2>3, <2>4
<1>8. CASE SendFails
  <2>1. /\ line' = line
        /\ \/ pendings[1].written = 0 /\ Pops
           \/ pendings[1].written > 0 /\ Stays(pendings[1].written - 1)
    BY <1>8, SendFailsStep
  <2>2. CASE pendings[1].written = 0 /\ Pops
    <3>1. /\ Queueing' /\ Popped \in Nat /\ Popped' = Popped + 1
          /\ accepted[Popped + 1] = pendings[1].frame
          /\ pendings' # <<>> => pendings'[1].written = 0
      BY <1>6, <1>8, <2>2, PopsKeepQueueing
    <3>2. line # <<>> => \E k \in 1 .. Popped' : accepted'[k] = line[Len(line)].frame
      BY <1>6, <1>8, <3>1 DEF LineEnd
    <3>3. LineEnd'
      BY <2>1, <3>1, <3>2 DEF LineEnd
    <3> QED BY <1>6, <1>8, <3>1, <3>3 DEF Order
  <2>3. CASE pendings[1].written > 0 /\ Stays(pendings[1].written - 1)
    <3>1. /\ Queueing' /\ pendings' # <<>>
          /\ pendings'[1].frame = pendings[1].frame
          /\ pendings'[1].written = pendings[1].written - 1
      BY <1>6, <1>8, <2>3, StaysKeepsQueueing
    <3>2. pendings[1].written # 0 /\ pendings[1].written \in Nat
      <4>1. pendings[1] \in Pending
        BY <1>6, <1>8, Sequenced
      <4> QED BY <2>3, <4>1, SizeAssumption DEF Pending
    <3>3. /\ line # <<>> /\ line[Len(line)].frame = pendings[1].frame
          /\ pendings[1].written <= line[Len(line)].index
      BY <1>6, <1>8, <3>2 DEF LineEnd
    <3>4. line[Len(line)].index \in Nat
      <4>1. line[Len(line)] \in Byte
        BY <3>3, Sequenced
      <4> QED BY <4>1 DEF Byte
    <3>5. LineEnd'
      BY <2>1, <3>1, <3>2, <3>3, <3>4 DEF LineEnd
    <3> QED BY <1>6, <1>8, <3>1, <3>5 DEF Order
  <2> QED BY <2>1, <2>2, <2>3
<1>9. CASE UNCHANGED vars
  BY <1>1, <1>9 DEF vars
<1> QED
  BY <1>2, <1>3, <1>4, <1>5, <1>7, <1>8, <1>9 DEF Next

(***************************************************************************)
(* Frames on the line.                                                     *)
(***************************************************************************)
\* A longer accepted sequence keeps what came before what.
LEMMA BeforeStays ==
  ASSUME Types, Types',
         accepted' = accepted \/ \E f : accepted' = Append(accepted, f),
         NEW f, NEW g, Before(f, g)
  PROVE  Before(f, g)'
<1>1. PICK i, j \in DOMAIN accepted : i < j /\ accepted[i] = f /\ accepted[j] = g
  BY DEF Before
<1>2. /\ DOMAIN accepted \subseteq DOMAIN accepted'
      /\ \A k \in DOMAIN accepted : accepted'[k] = accepted[k]
  BY Sequenced
<1> QED BY <1>1, <1>2 DEF Before

\* What steps do to the line and to the accepted frames.
LEMMA LineStep ==
  ASSUME Types, [Next]_vars
  PROVE  \/ /\ line' = line
            /\ accepted' = accepted \/ \E f \in Frames : accepted' = Append(accepted, f)
         \/ Send /\ accepted' = accepted
BY DEF Next, Open, Close, Ended, WriteFirst, WriteRefused, WriteMore, Report, Read,
       StartWriting, StartCrashes, Send, SendFails, Finish, vars

\* Sending goes on where the line ended, or starts a later frame.
LEMMA NoInterleavingNext ==
  Types /\ Types' /\ Order /\ NoInterleaving /\ [Next]_vars => NoInterleaving'
<1> SUFFICES ASSUME Types, Types', Order, NoInterleaving, [Next]_vars
             PROVE  NoInterleaving'
  OBVIOUS
<1> DEFINE Fits(a, b) == \/ a.frame = b.frame /\ b.index <= a.index + 1
                         \/ Before(a.frame, b.frame) /\ b.index = 1
<1>1. \A i \in 1 .. Len(line) - 1 : Fits(line[i], line[i + 1])
  BY DEF NoInterleaving
<1>2. CASE /\ line' = line
           /\ accepted' = accepted \/ \E f \in Frames : accepted' = Append(accepted, f)
  BY <1>1, <1>2, BeforeStays DEF NoInterleaving
<1>3. CASE Send /\ accepted' = accepted
  <2>1. PICK n \in Nat \ {0} : Extends(pendings[1], n)
    BY <1>3, SendStep
  <2>2. /\ Queueing /\ LineEnd /\ Distinct /\ pendings # <<>>
        /\ pendings[1].written \in Nat
    <3>1. state # "closed" /\ pendings # <<>>
      BY <1>3 DEF Send, Types
    <3>2. pendings[1] \in Pending
      BY <3>1, Sequenced
    <3> QED BY <3>1, <3>2, SizeAssumption DEF Order, Pending
  <2>3. \A f, g : Before(f, g) => Before(f, g)'
    BY <1>3 DEF Before
  <2>4. /\ Len(line') = Len(line) + n /\ Len(line) \in Nat
        /\ \A i \in 1 .. Len(line) : line'[i] = line[i]
        /\ \A i \in 1 .. n : line'[Len(line) + i]
                              = [frame |-> pendings[1].frame,
                                 index |-> pendings[1].written + i]
    BY <2>1, Sequenced DEF Extends
  <2>5. ASSUME NEW i \in 1 .. Len(line') - 1
        PROVE  \/ line'[i].frame = line'[i + 1].frame /\ line'[i + 1].index <= line'[i].index + 1
               \/ Before(line'[i].frame, line'[i + 1].frame) /\ line'[i + 1].index = 1
    <3>1. CASE i < Len(line)
      <4>1. i \in 1 .. Len(line) /\ i + 1 \in 1 .. Len(line) /\ i \in 1 .. Len(line) - 1
        BY <2>4, <3>1
      <4>2. line'[i] = line[i] /\ line'[i + 1] = line[i + 1]
        BY <2>4, <4>1
      <4> QED BY <1>1, <4>1, <4>2
    <3>2. CASE i = Len(line)
      <4>1. /\ line # <<>> /\ line'[i] = line[Len(line)]
            /\ line'[i + 1].frame = pendings[1].frame
            /\ line'[i + 1].index = pendings[1].written + 1
        <5>1. i \in 1 .. Len(line) /\ 1 \in 1 .. n /\ line # <<>>
          BY <2>4, <3>2, Sequenced
        <5>2. line'[Len(line) + 1] = [frame |-> pendings[1].frame,
                                      index |-> pendings[1].written + 1]
          BY <2>4, <5>1
        <5> QED BY <2>4, <3>2, <5>1, <5>2
      <4>2. CASE \E k \in 1 .. Popped : accepted[k] = line[Len(line)].frame
        <5>1. PICK k \in 1 .. Popped : accepted[k] = line[Len(line)].frame
          BY <4>2
        <5>2. /\ pendings[1].frame = accepted[Popped + 1]
              /\ k < Popped + 1 /\ k \in DOMAIN accepted /\ Popped + 1 \in DOMAIN accepted
          <6>1. 1 \in DOMAIN pendings /\ Len(pendings) >= 1
            BY <2>2, Sequenced
          <6>2. pendings[1].frame = accepted[Popped + 1]
            BY <2>2, <6>1 DEF Queueing
          <6> QED BY <2>2, <5>1, <6>1, <6>2, Sequenced DEF Queueing, Popped
        <5>3. Before(line[Len(line)].frame, pendings[1].frame)
          BY <5>1, <5>2 DEF Before
        <5>4. line[Len(line)].frame # pendings[1].frame
          BY <2>2, <5>1, <5>2 DEF Distinct
        <5>5. pendings[1].written = 0
          BY <2>2, <4>1, <5>4 DEF LineEnd
        <5> QED BY <4>1, <5>3, <5>5
      <4>3. CASE ~\E k \in 1 .. Popped : accepted[k] = line[Len(line)].frame
        <5>1. /\ line[Len(line)].frame = pendings[1].frame
              /\ pendings[1].written <= line[Len(line)].index
          BY <2>2, <4>1, <4>3 DEF LineEnd
        <5>2. line[Len(line)].index \in Nat
          <6>1. line[Len(line)] \in Byte
            BY <4>1, Sequenced
          <6> QED BY <6>1 DEF Byte
        <5> QED BY <2>2, <4>1, <5>1, <5>2
      <4> QED BY <4>2, <4>3
    <3>3. CASE i > Len(line)
      <4>1. /\ i - Len(line) \in 1 .. n /\ i - Len(line) + 1 \in 1 .. n
            /\ Len(line) + (i - Len(line)) = i
            /\ Len(line) + (i - Len(line) + 1) = i + 1
        BY <2>4, <3>3
      <4>2. /\ line'[i] = [frame |-> pendings[1].frame,
                           index |-> pendings[1].written + (i - Len(line))]
            /\ line'[i + 1] = [frame |-> pendings[1].frame,
                               index |-> pendings[1].written + (i - Len(line) + 1)]
        BY <2>4, <4>1
      <4> QED BY <2>2, <4>1, <4>2
    <3> QED BY <2>4, <3>1, <3>2, <3>3
  <2> QED BY <2>3, <2>5 DEF NoInterleaving
<1> QED BY <1>2, <1>3, LineStep

\* Whatever short and failing writes there are, frames reach the line in the
\* order they were accepted and are never interleaved.
THEOREM NoInterleavingCorrect == Spec => []NoInterleaving
<1>1. Init => NoInterleaving
  BY DEF Init, NoInterleaving
<1> QED
  BY <1>1, TypesInit, TypesNext, OrderInit, OrderNext, NoInterleavingNext, PTL DEF Spec

(***************************************************************************)
(* Whole frames.  As long as no ::write failed the line is exactly what    *)
(* was accepted so far: every frame that left the queue is on it to its    *)
(* last byte, the head to its written bytes, the others not at all.        *)
(***************************************************************************)
\* The last byte of the line is the one before the next to be written.
LineWhole ==
  \/ /\ line = <<>> /\ Popped = 0
     /\ pendings # <<>> => pendings[1].written = 0
  \/ /\ line # <<>> /\ Popped > 0
     /\ line[Len(line)] = [frame |-> accepted[Popped], index |-> Size[accepted[Popped]]]
     /\ pendings # <<>> => pendings[1].written = 0
  \/ /\ line # <<>> /\ pendings # <<>>
     /\ line[Len(line)] = [frame |-> pendings[1].frame, index |-> pendings[1].written]

\* Byte b belongs to a frame that left the queue, or was written of the head.
Written(b) ==
  \/ \E k \in 1 .. Popped : b.frame = accepted[k]
  \/ pendings # <<>> /\ b.frame = pendings[1].frame /\ b.index <= pendings[1].written

Departed ==
  /\ \A k \in 1 .. Popped : Left(accepted[k])
  /\ \A i \in 1 .. Len(line) : Written(line[i])

Beginning == line # <<>> => accepted # <<>> /\ line[1] = [frame |-> accepted[1], index |-> 1]

Succession == \A i \in 1 .. Len(line) - 1 : Follows(line[i], line[i + 1])

Whole ==
  ioErrors = 0 => Beginning /\ Succession /\ (state # "closed" => LineWhole /\ Departed)

\* A frame whose last byte left has still left when the line grows.
LEMMA LeftStays ==
  ASSUME Types, Types', NEW p, NEW n \in Nat, Extends(p, n), NEW f, Left(f)
  PROVE  Left(f)'
<1>1. PICK i \in 1 .. Len(line) : line[i] = [frame |-> f, index |-> Size[f]]
  BY Sequenced DEF Left, Range
<1>2. line'[i] = line[i] /\ i \in DOMAIN line'
  BY <1>1, Sequenced DEF Extends, Types, TypeOK
<1> QED BY <1>1, <1>2 DEF Left, Range

\* What follows what on the line is settled by the frames accepted so far.
LEMMA FollowsStays ==
  ASSUME Types, Types', NEW f \in Frames, accepted' = Append(accepted, f),
         NEW a, NEW b, Follows(a, b)
  PROVE  Follows(a, b)'
<1>1. /\ Len(accepted') = Len(accepted) + 1
      /\ \A i \in 1 .. Len(accepted) : accepted'[i] = accepted[i]
  BY Sequenced
<1>2. CASE b.frame = a.frame /\ b.index = a.index + 1
  BY <1>2 DEF Follows
<1>3. CASE ~(b.frame = a.frame /\ b.index = a.index + 1)
  <2>1. /\ a.index = Size[a.frame] /\ b.index = 1
        /\ \E i \in 1 .. Len(accepted) - 1 :
             accepted[i] = a.frame /\ accepted[i + 1] = b.frame
    BY <1>3 DEF Follows
  <2>2. PICK i \in 1 .. Len(accepted) - 1 :
          accepted[i] = a.frame /\ accepted[i + 1] = b.frame
    BY <2>1
  <2>3. i \in 1 .. Len(accepted') - 1 /\ i \in 1 .. Len(accepted) /\ i + 1 \in 1 .. Len(accepted)
    BY <1>1, <2>2, Sequenced
  <2> QED BY <1>1, <2>1, <2>2, <2>3 DEF Follows
<1> QED BY <1>2, <1>3

\* Nothing is on the line of a device that was just constructed.
LEMMA WholeInit == Init => Whole
BY DEF Init, Whole, Beginning, Succession, LineWhole, Departed, Popped

\* Accepting a frame leaves what was written as it was.
LEMMA WholeAccepts ==
  ASSUME Types, Types', Whole, ioErrors = 0, state = "open", NEW f \in Frames,
         pendings' = Queued(f), accepted' = Append(accepted, f),
         UNCHANGED <<state, line, ioErrors>>
  PROVE  Whole'
<1>1. /\ Len(accepted') = Len(accepted) + 1 /\ Len(pendings') = Len(pendings) + 1
      /\ Popped' = Popped
      /\ \A i \in DOMAIN accepted : accepted'[i] = accepted[i]
      /\ \A j \in DOMAIN pendings : pendings'[j] = pendings[j]
      /\ pendings'[Len(pendings) + 1] = [frame |-> f, written |-> 0]
  BY AcceptStep
<1>2. Beginning /\ Succession /\ LineWhole /\ Departed
  BY DEF Whole
<1>3. Beginning'
  <2>1. accepted # <<>> => accepted'[1] = accepted[1] /\ accepted' # <<>>
    BY <1>1, Sequenced
  <2> QED BY <1>2, <2>1 DEF Beginning
<1>4. Succession'
  <2>1. ASSUME NEW i \in 1 .. Len(line) - 1 PROVE Follows(line[i], line[i + 1])'
    BY <1>2, FollowsStays DEF Succession
  <2> QED BY <2>1 DEF Succession
<1>5. /\ pendings' # <<>>
      /\ pendings # <<>> => pendings'[1] = pendings[1]
      /\ pendings = <<>> => pendings'[1].written = 0
      /\ \A k \in 1 .. Popped : accepted'[k] = accepted[k]
  <2>1. \A k \in 1 .. Popped : k \in DOMAIN accepted
    BY Sequenced DEF Popped
  <2>2. \A k \in 1 .. Popped : accepted'[k] = accepted[k]
    BY <1>1, <2>1
  <2>3. /\ pendings' # <<>>
        /\ pendings # <<>> => 1 \in DOMAIN pendings
        /\ pendings = <<>> => Len(pendings) + 1 = 1
    BY <1>1, Sequenced DEF Types, TypeOK
  <2>4. pendings = <<>> => pendings'[1].written = 0
    <3>1. pendings = <<>> => pendings'[1] = [frame |-> f, written |-> 0]
      BY <1>1, <2>3
    <3> QED BY <3>1
  <2>5. pendings # <<>> => pendings'[1] = pendings[1]
    BY <1>1, <2>3
  <2> QED BY <2>2, <2>3, <2>4, <2>5
<1>6. Popped \in Int
  BY Sequenced DEF Popped
<1>7. LineWhole'
  <2>1. Popped > 0 => accepted'[Popped] = accepted[Popped]
    <3>1. Popped > 0 => Popped \in 1 .. Popped
      BY <1>6
    <3> QED BY <1>5, <3>1
  <2> QED BY <1>1, <1>2, <1>5, <2>1 DEF LineWhole
<1>8. Departed'
  <2>1. \A k \in 1 .. Popped : Left(accepted[k])'
    BY <1>2, <1>5 DEF Departed, Left
  <2>2. ASSUME NEW i \in 1 .. Len(line) PROVE Written(line[i])'
    BY <1>1, <1>2, <1>5 DEF Departed, Written
  <2> QED BY <1>1, <1>5, <2>1, <2>2 DEF Departed, Left
<1> QED BY <1>3, <1>4, <1>7, <1>8 DEF Whole

\* A successful ::write appends the next bytes of the head.
LEMMA WholeSends ==
  ASSUME Types, Types', Order, Whole, ioErrors = 0, Send
  PROVE  Whole'
<1>1. PICK n \in Nat \ {0} :
        /\ Extends(pendings[1], n)
        /\ \/ pendings[1].written + n = Size[pendings[1].frame] /\ Pops
           \/ Stays(pendings[1].written + n)
  BY SendStep
<1>2. PICK h \in Frames, w \in Nat : pendings[1] = [frame |-> h, written |-> w]
  <2>1. pendings[1] \in Pending
    BY Sequenced DEF Send, Types
  <2> QED BY <2>1, SizeAssumption DEF Pending
<1>3. /\ state = "open" /\ state' = state /\ accepted' = accepted /\ pendings # <<>>
      /\ Queueing /\ Beginning /\ Succession /\ LineWhole /\ Departed
  BY DEF Send, Types, Order, Whole
<1>4. /\ Len(line') = Len(line) + n /\ Len(line) \in Nat
      /\ \A i \in 1 .. Len(line) : line'[i] = line[i]
      /\ \A i \in 1 .. n : line'[Len(line) + i] = [frame |-> h, index |-> w + i]
  BY <1>1, <1>2, Sequenced DEF Extends
<1>5. /\ Popped \in Nat /\ Popped + 1 \in DOMAIN accepted /\ accepted[Popped + 1] = h
  <2>1. 1 \in DOMAIN pendings /\ Len(pendings) >= 1
    BY <1>3, Sequenced
  <2>2. pendings[1].frame = accepted[Popped + 1]
    BY <1>3, <2>1 DEF Queueing
  <2> QED BY <1>2, <1>3, <2>1, <2>2, Sequenced DEF Queueing, Popped
<1>6. line' # <<>> /\ line'[Len(line')] = [frame |-> h, index |-> w + n]
  <2>1. n \in 1 .. n /\ Len(line') # 0
    BY <1>4
  <2>2. line' # <<>>
    BY <2>1 DEF Types, TypeOK
  <2> QED BY <1>4, <2>1, <2>2
<1>7. Beginning'
  <2>1. CASE line = <<>>
    <3>1. Popped = 0 /\ w = 0
      BY <1>2, <1>3, <2>1 DEF LineWhole
    <3>2. Len(line) = 0 /\ 1 \in 1 .. n
      BY <2>1, Sequenced
    <3>3. line'[1] = [frame |-> h, index |-> 1]
      BY <1>4, <3>1, <3>2
    <3>4. accepted # <<>> /\ accepted[1] = h
      BY <1>5, <3>1, Sequenced
    <3> QED BY <1>3, <3>3, <3>4 DEF Beginning
  <2>2. CASE line # <<>>
    <3>1. line'[1] = line[1]
      BY <1>4, <2>2, Sequenced
    <3> QED BY <1>3, <2>2, <3>1 DEF Beginning
  <2> QED BY <2>1, <2>2
<1>8. Succession'
  <2>1. ASSUME NEW i \in 1 .. Len(line') - 1 PROVE Follows(line'[i], line'[i + 1])
    <3>1. CASE i < Len(line)
      <4>1. i \in 1 .. Len(line) /\ i + 1 \in 1 .. Len(line) /\ i \in 1 .. Len(line) - 1
        BY <1>4, <3>1
      <4>2. line'[i] = line[i] /\ line'[i + 1] = line[i + 1]
        BY <1>4, <4>1
      <4> QED BY <1>3, <4>1, <4>2 DEF Succession
    <3>2. CASE i = Len(line)
      <4>1. /\ line # <<>> /\ line'[i] = line[Len(line)]
            /\ line'[i + 1] = [frame |-> h, index |-> w + 1]
        <5>1. i \in 1 .. Len(line) /\ 1 \in 1 .. n /\ line # <<>>
          BY <1>4, <3>2, Sequenced
        <5> QED BY <1>4, <3>2, <5>1
      <4>2. CASE /\ Popped > 0
                 /\ line[Len(line)] = [frame |-> accepted[Popped], index |-> Size[accepted[Popped]]]
                 /\ pendings[1].written = 0
        <5>1. Popped \in 1 .. Len(accepted) - 1 /\ w = 0
          BY <1>2, <1>5, <4>2, Sequenced
        <5>2. /\ line'[i].frame = accepted[Popped]
              /\ line'[i].index = Size[accepted[Popped]]
              /\ line'[i + 1].frame = accepted[Popped + 1]
              /\ line'[i + 1].index = 1
          BY <1>5, <4>1, <4>2, <5>1
        <5> QED BY <5>1, <5>2 DEF Follows
      <4>3. CASE line[Len(line)] = [frame |-> h, index |-> w]
        <5>1. /\ line'[i].frame = h /\ line'[i + 1].frame = h
              /\ line'[i].index = w /\ line'[i + 1].index = w + 1
          BY <4>1, <4>3
        <5> QED BY <5>1 DEF Follows
      <4> QED BY <1>2, <1>3, <4>1, <4>2, <4>3 DEF LineWhole
    <3>3. CASE i > Len(line)
      <4>1. /\ i - Len(line) \in 1 .. n /\ i - Len(line) + 1 \in 1 .. n
            /\ Len(line) + (i - Len(line)) = i
            /\ Len(line) + (i - Len(line) + 1) = i + 1
        BY <1>4, <3>3
      <4>2. /\ line'[i] = [frame |-> h, index |-> w + (i - Len(line))]
            /\ line'[i + 1] = [frame |-> h, index |-> w + (i - Len(line) + 1)]
        BY <1>4, <4>1
      <4>3. /\ line'[i].frame = line'[i + 1].frame
            /\ line'[i + 1].index = line'[i].index + 1
        BY <1>4, <4>1, <4>2
      <4> QED BY <4>3 DEF Follows
    <3> QED BY <1>4, <3>1, <3>2, <3>3
  <2>2. \A a, b : Follows(a, b) => Follows(a, b)'
    BY <1>3 DEF Follows
  <2> QED BY <2>1, <2>2 DEF Succession
<1>9. \A f : Left(f) => Left(f)'
  BY <1>1, LeftStays
<1>10. CASE pendings[1].written + n = Size[pendings[1].frame] /\ Pops
  <2>1. w + n = Size[h]
    BY <1>2, <1>10
  <2>2. Popped' = Popped + 1 /\ (pendings' # <<>> => pendings'[1].written = 0)
    BY <1>3, <1>10, PopsKeepQueueing
  <2>3. LineWhole'
    <3>1. Popped' > 0 /\ accepted'[Popped'] = h
      BY <1>3, <1>5, <2>2
    <3> QED BY <1>6, <2>1, <2>2, <3>1 DEF LineWhole
  <2>4. Departed'
    <3>1. ASSUME NEW k \in 1 .. Popped' PROVE Left(accepted[k])'
      <4>1. CASE k \in 1 .. Popped
        BY <1>3, <1>9, <4>1 DEF Departed
      <4>2. CASE k = Popped + 1
        <5>1. Len(line') \in DOMAIN line'
          BY <1>6 DEF Types, TypeOK
        <5>2. Left(h)'
          BY <1>6, <2>1, <5>1 DEF Left, Range
        <5> QED BY <1>3, <1>5, <4>2, <5>2 DEF Left
      <4> QED BY <1>5, <2>2, <4>1, <4>2
    <3>2. ASSUME NEW i \in 1 .. Len(line') PROVE \E k \in 1 .. Popped' : line'[i].frame = accepted'[k]
      <4>1. CASE i \in 1 .. Len(line)
        <5>1. \/ \E k \in 1 .. Popped : line[i].frame = accepted[k]
              \/ line[i].frame = h
          BY <1>2, <1>3, <4>1 DEF Departed, Written
        <5> QED BY <1>3, <1>4, <1>5, <2>2, <4>1, <5>1
      <4>2. CASE i \notin 1 .. Len(line)
        <5>1. PICK j \in 1 .. n : i = Len(line) + j
          <6>1. i - Len(line) \in 1 .. n /\ i = Len(line) + (i - Len(line))
            BY <1>4, <4>2
          <6> QED BY <6>1
        <5>2. line'[i] = [frame |-> h, index |-> w + j]
          BY <1>4, <5>1
        <5>3. line'[i].frame = h
          BY <5>2
        <5> QED BY <1>3, <1>5, <2>2, <5>3
      <4> QED BY <4>1, <4>2
    <3> QED BY <1>3, <3>1, <3>2 DEF Departed, Written, Left
  <2> QED BY <1>3, <1>7, <1>8, <2>3, <2>4 DEF Whole
<1>11. CASE Stays(pendings[1].written + n)
  <2>1. /\ Popped' = Popped /\ pendings' # <<>>
        /\ pendings'[1].frame = h /\ pendings'[1].written = w + n
    BY <1>2, <1>3, <1>11, StaysKeepsQueueing
  <2>2. LineWhole'
    BY <1>6, <2>1 DEF LineWhole
  <2>3. Departed'
    <3>1. ASSUME NEW k \in 1 .. Popped' PROVE Left(accepted[k])'
      BY <1>3, <1>9, <2>1 DEF Departed
    <3>2. ASSUME NEW i \in 1 .. Len(line')
          PROVE  \/ \E k \in 1 .. Popped : line'[i].frame = accepted[k]
                 \/ line'[i].frame = h /\ line'[i].index <= w + n
      <4>1. CASE i \in 1 .. Len(line)
        <5>1. \/ \E k \in 1 .. Popped : line[i].frame = accepted[k]
              \/ line[i].frame = h /\ line[i].index <= w
          BY <1>2, <1>3, <4>1 DEF Departed, Written
        <5>2. line[i].index \in Nat
          <6>1. line[i] \in Byte
            BY <4>1, Sequenced
          <6> QED BY <6>1 DEF Byte
        <5> QED BY <1>4, <4>1, <5>1, <5>2
      <4>2. CASE i \notin 1 .. Len(line)
        <5>1. PICK j \in 1 .. n : i = Len(line) + j
          <6>1. i - Len(line) \in 1 .. n /\ i = Len(line) + (i - Len(line))
            BY <1>4, <4>2
          <6> QED BY <6>1
        <5>2. line'[i] = [frame |-> h, index |-> w + j]
          BY <1>4, <5>1
        <5>3. line'[i].frame = h /\ line'[i].index = w + j
          BY <5>2
        <5> QED BY <5>1, <5>3
      <4> QED BY <4>1, <4>2
    <3> QED BY <1>3, <2>1, <3>1, <3>2 DEF Departed, Written, Left
  <2> QED BY <1>3, <1>7, <1>8, <2>2, <2>3 DEF Whole
<1> QED BY <1>1, <1>10, <1>11

\* Every step keeps the line whole, or counts a failing ::write.
LEMMA WholeNext == Types /\ Types' /\ Order /\ Whole /\ [Next]_vars => Whole'
<1> SUFFICES ASSUME Types, Types', Order, Whole, [Next]_vars, ioErrors' = 0
             PROVE  Whole'
  BY DEF Whole
<1>1. ASSUME UNCHANGED <<pendings, line, accepted, ioErrors>>,
             state' = "closed" <=> state = "closed"
      PROVE  Whole'
  <2>1. (Beginning => Beginning') /\ (LineWhole => LineWhole') /\ (Departed => Departed')
    BY <1>1 DEF Beginning, LineWhole, Departed, Written, Left, Popped
  <2>2. Succession => Succession'
    BY <1>1 DEF Succession, Follows
  <2> QED BY <1>1, <2>1, <2>2 DEF Whole
<1>2. CASE Open \/ Ended \/ Report \/ Read \/ StartWriting \/ StartCrashes \/ Finish
  <2>1. UNCHANGED <<pendings, line, accepted, ioErrors>>
    BY <1>2 DEF Open, Ended, Report, Read, StartWriting, StartCrashes, Finish, vars
  <2>2. state' = "closed" <=> state = "closed"
    BY <1>2 DEF Open, Ended, Report, Read, StartWriting, StartCrashes, Finish, vars, Types
  <2> QED BY <1>1, <2>1, <2>2
<1>3. CASE Close
  <2>1. UNCHANGED <<line, accepted, ioErrors>> /\ state' = "closed"
    BY <1>3 DEF Close
  <2>2. (Beginning => Beginning') /\ (Succession => Succession')
    BY <2>1 DEF Beginning, Succession, Follows
  <2> QED BY <2>1, <2>2 DEF Whole
<1>4. ASSUME NEW f \in Frames, WriteFirst(f) \/ WriteMore(f) PROVE Whole'
  <2>1. /\ state = "open" /\ ioErrors = 0 /\ UNCHANGED <<state, line, ioErrors>>
        /\ pendings' = Queued(f) /\ accepted' = Append(accepted, f)
    BY <1>4 DEF WriteFirst, WriteMore, CanWrite
  <2> QED BY <2>1, WholeAccepts
<1>5. ASSUME NEW f \in Frames, WriteRefused(f) PROVE Whole'
  BY <1>1, <1>5 DEF WriteRefused
<1>6. CASE Send
  <2>1. ioErrors = 0
    BY <1>6 DEF Send
  <2> QED BY <1>6, <2>1, WholeSends
<1>7. CASE SendFails
  <2>1. ioErrors \in Nat /\ ioErrors' = ioErrors + 1
    BY <1>7, BoundsAssumption DEF SendFails, Types, TypeOK
  <2> QED BY <2>1
<1>8. CASE UNCHANGED vars
  BY <1>1, <1>8 DEF vars
<1> QED
  BY <1>2, <1>3, <1>4, <1>5, <1>6, <1>7, <1>8 DEF Next

\* As long as no ::write fails frames leave whole, one after the other in the
\* order they were accepted, and stay queued until their last byte has left.
THEOREM WholeFramesCorrect == Spec => []WholeFrames
<1>1. Types /\ Order /\ Whole => WholeFrames
  <2> SUFFICES ASSUME Types, Order, Whole, ioErrors = 0 PROVE WholeFrames
    BY DEF WholeFrames
  <2>1. Beginning /\ Succession
    BY DEF Whole
  <2>2. ASSUME state = "open", NEW f \in Range(accepted) PROVE Left(f) <=> ~Waits(f)
    <3>1. Distinct /\ Queueing /\ Departed
      BY <2>2 DEF Whole, Order
    <3>2. PICK k \in DOMAIN accepted : accepted[k] = f
      BY DEF Range
    <3>3. k \in 1 .. Len(accepted) /\ Popped \in Nat /\ Len(accepted) = Popped + Len(pendings)
      BY <3>1, <3>2, Sequenced DEF Queueing, Popped
    <3>4. CASE k \in 1 .. Popped
      <4>1. Left(f)
        BY <3>1, <3>2, <3>4 DEF Departed
      <4>2. ASSUME NEW j \in DOMAIN pendings PROVE pendings[j].frame # f
        <5>1. /\ pendings[j].frame = accepted[Popped + j] /\ k < Popped + j
              /\ Popped + j \in DOMAIN accepted
          BY <3>1, <3>3, <3>4, Sequenced DEF Queueing
        <5> QED BY <3>1, <3>2, <5>1 DEF Distinct
      <4> QED BY <4>1, <4>2 DEF Waits
    <3>5. CASE k \notin 1 .. Popped
      <4>1. k - Popped \in DOMAIN pendings /\ Popped + (k - Popped) = k
        BY <3>3, <3>5, Sequenced
      <4>2. pendings[k - Popped].frame = f
        BY <3>1, <3>2, <4>1 DEF Queueing
      <4>3. ASSUME NEW i \in 1 .. Len(line),
                   line[i] = [frame |-> f, index |-> Size[f]]
            PROVE  FALSE
        <5>1. \A m \in 1 .. Popped : accepted[m] # f
          BY <3>1, <3>2, <3>3, <3>5, Sequenced DEF Distinct
        <5>2. pendings # <<>> /\ f = pendings[1].frame /\ Size[f] <= pendings[1].written
          BY <3>1, <4>3, <5>1 DEF Departed, Written
        <5>3. pendings[1] \in Pending /\ pendings[1].written < Size[pendings[1].frame]
          BY <5>2, Sequenced DEF Types, TypeOK
        <5> QED BY <5>2, <5>3, SizeAssumption DEF Pending
      <4>4. ~Left(f)
        BY <4>3, Sequenced DEF Left, Range
      <4> QED BY <4>1, <4>2, <4>4 DEF Waits
    <3> QED BY <3>4, <3>5
  <2> QED BY <2>1, <2>2 DEF WholeFrames, Beginning, Succession
<1> QED
  BY <1>1, TypesInit, TypesNext, OrderInit, OrderNext, WholeInit, WholeNext, PTL DEF Spec
=============================================================================
