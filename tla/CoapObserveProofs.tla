------------------------- MODULE CoapObserveProofs -------------------------
(***************************************************************************)
(* Proofs about CoapObserve, for any observers, limits and bounds.         *)
(***************************************************************************)
EXTENDS CoapObserve, FiniteSetTheorems, SequenceTheorems, TLAPS

(***************************************************************************)
(* A list of subscriptions in which nobody is twice.                       *)
(***************************************************************************)
WellFormed(q) ==
  /\ q \in Seq(Subscription)
  /\ \A i, j \in 1 .. Len(q) : q[i].who = q[j].who => i = j

\* Deleting an observer leaves the others' entries as they were.
LEMMA WithoutKeeps ==
  ASSUME WellFormed(subscribers), NEW o \in Observers
  PROVE  /\ WellFormed(Without(o))
         /\ \A i \in 1 .. Len(Without(o)) :
              \E j \in 1 .. Len(subscribers) : Without(o)[i] = subscribers[j]
<1> USE DEF WellFormed
<1>1. CASE o \notin Registered
  BY <1>1 DEF Without
<1>2. CASE o \in Registered
  <2> DEFINE p == Position(o)
             At(i) == IF i < p THEN i ELSE i + 1
  <2>1. p \in 1 .. Len(subscribers)
    <3>1. \E i \in 1 .. Len(subscribers) : subscribers[i].who = o
      BY <1>2 DEF Registered
    <3> QED BY <3>1 DEF Position
  <2>2. Without(o) = SubSeq(subscribers, 1, p - 1)
                       \o SubSeq(subscribers, p + 1, Len(subscribers))
    BY <1>2 DEF Without, RemoveAt
  <2> HIDE DEF p
  <2>3. /\ Without(o) \in Seq(Subscription)
        /\ Len(Without(o)) = Len(subscribers) - 1
        /\ \A i \in 1 .. Len(Without(o)) : Without(o)[i] = subscribers[At(i)]
    <3> DEFINE left == SubSeq(subscribers, 1, p - 1)
               right == SubSeq(subscribers, p + 1, Len(subscribers))
    <3>1. /\ left \in Seq(Subscription) /\ Len(left) = p - 1
          /\ \A i \in 1 .. p - 1 : left[i] = subscribers[i]
      BY <2>1
    <3>2. /\ right \in Seq(Subscription) /\ Len(right) = Len(subscribers) - p
          /\ \A i \in 1 .. Len(subscribers) - p : right[i] = subscribers[p + i]
      BY <2>1
    <3> HIDE DEF left, right
    <3>3. /\ left \o right \in Seq(Subscription)
          /\ Len(left \o right) = Len(subscribers) - 1
          /\ \A i \in 1 .. Len(subscribers) - 1 :
               (left \o right)[i] = IF i < p THEN left[i] ELSE right[i - (p - 1)]
      <4>1. Len(left) + Len(right) = Len(subscribers) - 1
        BY <2>1, <3>1, <3>2
      <4>2. left \in Seq(Subscription) /\ right \in Seq(Subscription)
        BY <3>1, <3>2
      <4>3. /\ left \o right \in Seq(Subscription)
            /\ Len(left \o right) = Len(left) + Len(right)
            /\ \A i \in 1 .. Len(left) + Len(right) :
                 (left \o right)[i] = IF i <= Len(left) THEN left[i] ELSE right[i - Len(left)]
        BY ONLY <4>2, ConcatProperties
      <4> QED BY <4>1, <4>3, <3>1, <2>1
    <3>4. ASSUME NEW i \in 1 .. Len(subscribers) - 1
          PROVE  (left \o right)[i] = subscribers[At(i)]
      <4>1. CASE i < p
        BY <4>1, <2>1, <3>1, <3>3
      <4>2. CASE ~(i < p)
        <5>1. /\ i - (p - 1) \in 1 .. Len(subscribers) - p
              /\ p + (i - (p - 1)) = i + 1
          BY <4>2, <2>1
        <5> QED BY <4>2, <5>1, <3>2, <3>3
      <4> QED BY <4>1, <4>2
    <3> QED BY <2>2, <3>3, <3>4 DEF left, right
  <2>4. \A i \in 1 .. Len(Without(o)) : At(i) \in 1 .. Len(subscribers)
    BY <2>1, <2>3
  <2>5. \A i, j \in 1 .. Len(Without(o)) : At(i) = At(j) => i = j
    BY <2>1, <2>3
  <2>6. ASSUME NEW i \in 1 .. Len(Without(o)), NEW j \in 1 .. Len(Without(o)),
               Without(o)[i].who = Without(o)[j].who
        PROVE  i = j
    <3>1. PICK k \in 1 .. Len(subscribers), l \in 1 .. Len(subscribers) :
            /\ k = At(i) /\ Without(o)[i] = subscribers[k]
            /\ l = At(j) /\ Without(o)[j] = subscribers[l]
      BY <2>3, <2>4
    <3>2. k = l
      BY <2>6, <3>1
    <3> QED BY <3>1, <3>2, <2>5
  <2>7. \A i \in 1 .. Len(Without(o)) :
          \E j \in 1 .. Len(subscribers) : Without(o)[i] = subscribers[j]
    BY <2>3, <2>4
  <2> QED BY <2>3, <2>6, <2>7
<1> QED BY <1>1, <1>2

\* Touching an observer changes its count of failures and nothing else.
LEMMA TouchedKeeps ==
  ASSUME NEW q, WellFormed(q), NEW o \in Observers
  PROVE  /\ WellFormed(Touched(q, o))
         /\ Len(Touched(q, o)) = Len(q)
         /\ \A i \in 1 .. Len(q) :
              /\ Touched(q, o)[i].who = q[i].who
              /\ Touched(q, o)[i].dirty = q[i].dirty
              /\ Touched(q, o)[i].fail = IF q[i].who = o THEN 0 ELSE q[i].fail
<1> USE ObserveAssumption DEF WellFormed
<1> DEFINE e(s) == IF s.who = o THEN [s EXCEPT !.fail = 0] ELSE s
<1>1. ASSUME NEW s \in Subscription
      PROVE  /\ e(s) \in Subscription
             /\ e(s).who = s.who /\ e(s).dirty = s.dirty
             /\ e(s).fail = IF s.who = o THEN 0 ELSE s.fail
  <2>1. CASE s.who = o
    <3>1. e(s) = [s EXCEPT !.fail = 0]
      BY <2>1
    <3>2. s.fail \in 0 .. MaxFail /\ 0 \in 0 .. MaxFail
      BY DEF Subscription
    <3> QED BY ONLY <2>1, <3>1, <3>2, s \in Subscription DEF Subscription
  <2>2. CASE s.who # o
    BY <2>2
  <2> QED BY <2>1, <2>2
<1>2. Touched(q, o) = [i \in 1 .. Len(q) |-> e(q[i])]
  BY DEF Touched
<1> HIDE DEF e
<1>3. \A i \in 1 .. Len(q) : e(q[i]) \in Subscription
  BY <1>1
<1>4. Touched(q, o) \in Seq(Subscription) /\ Len(Touched(q, o)) = Len(q)
  BY <1>2, <1>3
<1>5. \A i \in 1 .. Len(q) :
        /\ Touched(q, o)[i].who = q[i].who
        /\ Touched(q, o)[i].dirty = q[i].dirty
        /\ Touched(q, o)[i].fail = IF q[i].who = o THEN 0 ELSE q[i].fail
  BY <1>1, <1>2
<1> QED BY <1>4, <1>5

\* A new observer comes first.
LEMMA FreshKeeps ==
  ASSUME WellFormed(subscribers), NEW o \in Observers, o \notin Registered
  PROVE  LET q == <<Fresh(o)>> \o subscribers IN
         /\ WellFormed(q)
         /\ Len(q) = Len(subscribers) + 1
         /\ q[1] = Fresh(o)
         /\ \A i \in 2 .. Len(q) : q[i] = subscribers[i - 1]
<1> DEFINE q == <<Fresh(o)>> \o subscribers
<1> USE ObserveAssumption DEF WellFormed
<1>1. Fresh(o) \in Subscription /\ Fresh(o).who = o
  BY DEF Fresh, Subscription
<1>2. /\ q \in Seq(Subscription)
      /\ Len(q) = Len(subscribers) + 1
      /\ q[1] = Fresh(o)
      /\ \A i \in 2 .. Len(q) : q[i] = subscribers[i - 1]
  BY <1>1
<1>3. \A i \in 2 .. Len(q) : q[i].who # o
  BY <1>2 DEF Registered
<1> HIDE DEF q
<1>4. ASSUME NEW i \in 1 .. Len(q), NEW j \in 1 .. Len(q), q[i].who = q[j].who
      PROVE  i = j
  <2>0. /\ i = 1 \/ i \in 2 .. Len(q)
        /\ j = 1 \/ j \in 2 .. Len(q)
    BY <1>2
  <2>1. CASE i = 1 \/ j = 1
    <3>1. q[1].who = o
      BY <1>1, <1>2
    <3> QED BY <2>0, <2>1, <3>1, <1>3, <1>4
  <2>2. CASE i > 1 /\ j > 1
    <3>1. i - 1 \in 1 .. Len(subscribers) /\ j - 1 \in 1 .. Len(subscribers)
      BY <2>2, <1>2
    <3>2. q[i] = subscribers[i - 1] /\ q[j] = subscribers[j - 1]
      BY <2>2, <1>2
    <3> QED BY <3>1, <3>2, <1>4
  <2> QED BY <2>1, <2>2
<1> QED BY <1>2, <1>4 DEF q

\* A round of notifications changes each entry's count and mark.
LEMMA AfterwardsKeeps ==
  ASSUME NEW s \in Subscription, NEW unbuilt, NEW unsent
  PROVE  /\ Afterwards(s, unbuilt, unsent) \in Subscription
         /\ Afterwards(s, unbuilt, unsent).who = s.who
         /\ Afterwards(s, unbuilt, unsent).fail = s.fail
         /\ Notified(s) => Afterwards(s, unbuilt, unsent).dirty
                             = (s.who \in unbuilt \/ s.who \in unsent)
         /\ ~Notified(s) => Afterwards(s, unbuilt, unsent) = s
<1> USE ObserveAssumption DEF Subscription, Afterwards
<1>1. CASE ~Notified(s)
  BY <1>1
<1>2. CASE Notified(s) /\ s.who \in unbuilt
  BY <1>2
<1>3. CASE Notified(s) /\ s.who \notin unbuilt
  <2>1. ~Confirmable(s) => s.non + 1 \in 0 .. MaxNon
    BY DEF Confirmable
  <2> DEFINE mark == s.who \in unsent
             non  == IF Confirmable(s) THEN 0 ELSE s.non + 1
  <2>2. mark \in BOOLEAN /\ non \in 0 .. MaxNon
    BY <2>1
  <2>3. Afterwards(s, unbuilt, unsent) = [s EXCEPT !.dirty = mark, !.non = non]
    BY <1>3
  <2> HIDE DEF mark, non
  <2>4. /\ [s EXCEPT !.dirty = mark, !.non = non] \in Subscription
        /\ [s EXCEPT !.dirty = mark, !.non = non].who = s.who
        /\ [s EXCEPT !.dirty = mark, !.non = non].fail = s.fail
        /\ [s EXCEPT !.dirty = mark, !.non = non].dirty = mark
    BY <2>2
  <2>5. mark = (s.who \in unbuilt \/ s.who \in unsent)
    BY <1>3 DEF mark
  <2> QED
    BY <1>3, <2>3, <2>4, <2>5
<1> QED BY <1>1, <1>2, <1>3

(***************************************************************************)
(* The inductive invariant.                                                *)
(***************************************************************************)
\* An observer's count of failures is at most what it missed.
FailuresWereMissed ==
  \A i \in 1 .. Len(subscribers) :
    subscribers[i].fail <= missed[subscribers[i].who]

\* What the properties need of an entry, given what the observer was told and
\* how often the resource changed.
Sound(s) ==
  /\ told[s.who] < version /\ since[s.who] < version
       => dirty \/ (partiallydirty /\ s.dirty)
  /\ s.fail <= missed[s.who]

AllSound == \A i \in 1 .. Len(subscribers) : Sound(subscribers[i])

IInv == TypeOK /\ AllSound

LEMMA TypedList == TypeOK => WellFormed(subscribers)
BY DEF TypeOK, WellFormed

\* The list is empty at first.
LEMMA InitInvariant == Init => IInv
<1> SUFFICES ASSUME Init PROVE IInv
  OBVIOUS
<1> USE ObserveAssumption DEF Init
<1>1. subscribers \in Seq(Subscription) /\ Len(subscribers) = 0
  OBVIOUS
<1>2. TypeOK
  <2>1. \A i, j \in 1 .. Len(subscribers) :
          subscribers[i].who = subscribers[j].who => i = j
    BY <1>1
  <2>2. /\ told \in [Observers -> 0 .. version] /\ since \in [Observers -> 0 .. version]
        /\ missed \in [Observers -> 0 .. MaxFail + 1]
    OBVIOUS
  <2>3. outstanding \in [Observers -> 0 .. MaxOutstanding]
    OBVIOUS
  <2>4. dirty \in BOOLEAN /\ partiallydirty \in BOOLEAN
    OBVIOUS
  <2>5. version \in 0 .. MaxVersion /\ errors \in 0 .. MaxErrors
    OBVIOUS
  <2> QED BY <1>1, <2>1, <2>2, <2>3, <2>4, <2>5 DEF TypeOK
<1>3. AllSound
  BY <1>1 DEF AllSound
<1> QED BY <1>2, <1>3 DEF IInv

\* Registering: an entry made now has missed no change, whether or not the
\* response is sent, and one made before keeps its mark.
LEMMA RegisterStep ==
  ASSUME IInv, NEW o \in Observers, Register(o)
  PROVE  IInv'
<1> USE ObserveAssumption DEF Register
<1> DEFINE q == IF o \in Registered THEN subscribers ELSE <<Fresh(o)>> \o subscribers
<1>1. WellFormed(subscribers) /\ TypeOK /\ AllSound
  BY TypedList DEF IInv
<1>2. /\ WellFormed(q)
      /\ \A i \in 1 .. Len(q) : \/ q[i].who = o
                                \/ \E j \in 1 .. Len(subscribers) : q[i] = subscribers[j]
  <2>1. CASE o \in Registered
    BY <1>1, <2>1
  <2>2. CASE o \notin Registered
    <3>1. /\ WellFormed(q) /\ q[1] = Fresh(o) /\ Len(q) = Len(subscribers) + 1
          /\ \A i \in 2 .. Len(q) : q[i] = subscribers[i - 1]
      BY <1>1, <2>2, FreshKeeps
    <3>2. q[1].who = o
      BY <3>1 DEF Fresh
    <3>3. Len(subscribers) \in Nat
      BY <1>1 DEF WellFormed
    <3>4. ASSUME NEW i \in 2 .. Len(q)
          PROVE  \E j \in 1 .. Len(subscribers) : q[i] = subscribers[j]
      <4>1. i - 1 \in 1 .. Len(subscribers) /\ q[i] = subscribers[i - 1]
        BY <3>1, <3>3
      <4> QED BY <4>1
    <3>5. \A i \in 1 .. Len(q) : i = 1 \/ i \in 2 .. Len(q)
      BY <3>1, <3>3
    <3> QED BY <3>1, <3>2, <3>4, <3>5
  <2> QED BY <2>1, <2>2
<1> HIDE DEF q
<1>3. /\ WellFormed(subscribers')
      /\ Len(subscribers') = Len(q)
      /\ \A i \in 1 .. Len(q) :
           /\ subscribers'[i].who = q[i].who
           /\ subscribers'[i].dirty = q[i].dirty
           /\ subscribers'[i].fail = IF q[i].who = o THEN 0 ELSE q[i].fail
  <2>1. subscribers' = Touched(q, o)
    BY DEF q
  <2> QED BY <2>1, <1>2, TouchedKeeps
<1>4. /\ told' \in [Observers -> 0 .. version'] /\ since' \in [Observers -> 0 .. version']
      /\ missed' \in [Observers -> 0 .. MaxFail + 1]
      /\ \A p \in Observers :
           /\ told'[p] = told[p] \/ (p = o /\ told'[p] = version)
           /\ since'[p] = IF p = o /\ o \notin Registered THEN version ELSE since[p]
           /\ missed'[p] = IF p = o THEN 0 ELSE missed[p]
  <2>1. /\ told \in [Observers -> 0 .. version] /\ since \in [Observers -> 0 .. version]
        /\ missed \in [Observers -> 0 .. MaxFail + 1] /\ version \in Nat
    BY <1>1 DEF TypeOK
  <2>2. PICK b \in BOOLEAN : told' = [told EXCEPT ![o] = IF b THEN version ELSE told[o]]
    BY DEF Responded
  <2>3. /\ told' \in [Observers -> 0 .. version]
        /\ \A p \in Observers : told'[p] = told[p] \/ (p = o /\ told'[p] = version)
    BY <2>1, <2>2
  <2>4. since' = [since EXCEPT ![o] = IF o \in Registered THEN since[o] ELSE version]
    BY DEF Entered
  <2>5. /\ since' \in [Observers -> 0 .. version]
        /\ \A p \in Observers :
             since'[p] = IF p = o /\ o \notin Registered THEN version ELSE since[p]
    BY <2>1, <2>4
  <2> QED BY <2>1, <2>3, <2>5
<1>6. \A i \in 1 .. Len(q) : q[i].who \in Observers
  <2>1. \A i \in 1 .. Len(q) : q[i] \in Subscription
    BY <1>2 DEF WellFormed
  <2> QED BY <2>1 DEF Subscription
<1>7. TypeOK'
  BY <1>1, <1>3, <1>4 DEF TypeOK, WellFormed
<1>5. ASSUME NEW i \in 1 .. Len(subscribers') PROVE Sound(subscribers[i])'
  <2>1. CASE q[i].who = o
    <3>1. subscribers'[i].who = o /\ subscribers'[i].fail = 0
      BY <2>1, <1>3
    <3>2. version' = version /\ version \in Nat /\ missed'[o] = 0
      BY <1>1, <1>4 DEF TypeOK
    <3>3. CASE o \notin Registered
      <4>1. since'[o] = version
        BY <3>3, <1>4
      <4> QED BY <3>1, <3>2, <4>1 DEF Sound
    <3>4. CASE o \in Registered
      <4>1. q = subscribers
        BY <3>4 DEF q
      <4>2. Sound(subscribers[i]) /\ subscribers'[i].dirty = subscribers[i].dirty
        BY <4>1, <1>1, <1>3 DEF AllSound
      <4>3. /\ subscribers[i].who = o /\ since'[o] = since[o]
            /\ told'[o] = told[o] \/ told'[o] = version
            /\ dirty' = dirty /\ partiallydirty' = partiallydirty
        BY <2>1, <3>4, <4>1, <1>4
      <4> QED BY <3>1, <3>2, <4>2, <4>3 DEF Sound
    <3> QED BY <3>3, <3>4
  <2>2. CASE q[i].who # o
    <3>1. PICK j \in 1 .. Len(subscribers) : q[i] = subscribers[j]
      BY <2>2, <1>2, <1>3
    <3>2. Sound(subscribers[j])
      BY <1>1 DEF AllSound
    <3>3. /\ subscribers'[i].who = subscribers[j].who
          /\ subscribers'[i].dirty = subscribers[j].dirty
          /\ subscribers'[i].fail = subscribers[j].fail
          /\ subscribers[j].who \in Observers /\ subscribers[j].who # o
      BY <2>2, <3>1, <1>3, <1>6
    <3>4. /\ told'[subscribers[j].who] = told[subscribers[j].who]
          /\ since'[subscribers[j].who] = since[subscribers[j].who]
          /\ missed'[subscribers[j].who] = missed[subscribers[j].who]
      BY <3>3, <1>4
    <3>5. version' = version /\ dirty' = dirty /\ partiallydirty' = partiallydirty
      OBVIOUS
    <3> QED BY <3>2, <3>3, <3>4, <3>5 DEF Sound
  <2> QED BY <2>1, <2>2
<1> QED BY <1>7, <1>5 DEF IInv, AllSound

\* A round of notifications: who was not told is marked, and the resource too.
LEMMA CheckNotifyStep ==
  ASSUME IInv, CheckNotify
  PROVE  IInv'
<1> USE ObserveAssumption
<1>1. WellFormed(subscribers) /\ TypeOK /\ AllSound
  BY TypedList DEF IInv
<1> DEFINE affected == {s \in Range(subscribers) : Notified(s)}
           names == {s.who : s \in affected}
<1>2. PICK unbuilt \in SUBSET names, unsent \in SUBSET names :
        LET failed == unbuilt \cup unsent
            queued == {s.who : s \in {c \in affected : Confirmable(c)}} \ failed
        IN  /\ errors + Cardinality(failed) <= MaxErrors
            /\ errors' = errors + Cardinality(failed)
            /\ \A o \in queued : outstanding[o] < MaxOutstanding
            /\ outstanding' = [o \in Observers |->
                 outstanding[o] + IF o \in queued THEN 1 ELSE 0]
            /\ subscribers' = [i \in 1 .. Len(subscribers) |->
                 Afterwards(subscribers[i], unbuilt, unsent)]
            /\ told' = [o \in Observers |->
                 IF o \in names \ failed THEN version ELSE told[o]]
            /\ partiallydirty' = SomeLeft(failed)
  BY DEF CheckNotify
<1> DEFINE failed == unbuilt \cup unsent
           queued == {s.who : s \in {c \in affected : Confirmable(c)}} \ failed
<1>3. dirty' = FALSE /\ version' = version /\ since' = since /\ missed' = missed
  BY DEF CheckNotify
<1>4. \A i \in 1 .. Len(subscribers) : subscribers[i] \in Subscription
  BY <1>1 DEF WellFormed
<1>5. \A i \in 1 .. Len(subscribers) :
        subscribers[i].who \in names <=> Notified(subscribers[i])
  <2>1. ASSUME NEW i \in 1 .. Len(subscribers), Notified(subscribers[i])
        PROVE  subscribers[i].who \in names
    <3>1. subscribers[i] \in Range(subscribers)
      BY <1>1 DEF Range, WellFormed
    <3> QED BY <2>1, <3>1
  <2>2. ASSUME NEW i \in 1 .. Len(subscribers), subscribers[i].who \in names
        PROVE  Notified(subscribers[i])
    <3>1. PICK s \in Range(subscribers) : Notified(s) /\ s.who = subscribers[i].who
      BY <2>2
    <3>2. PICK j \in 1 .. Len(subscribers) : s = subscribers[j]
      BY <1>1, <3>1 DEF Range, WellFormed
    <3>3. i = j
      BY <1>1, <3>1, <3>2 DEF WellFormed
    <3> QED BY <3>1, <3>2, <3>3
  <2> QED BY <2>1, <2>2
<1>6. names \subseteq Observers
  <2> SUFFICES ASSUME NEW o \in names PROVE o \in Observers
    OBVIOUS
  <2>1. PICK s \in Range(subscribers) : o = s.who
    OBVIOUS
  <2>2. PICK i \in 1 .. Len(subscribers) : s = subscribers[i]
    BY <1>1, <2>1 DEF Range, WellFormed
  <2> QED BY <1>4, <2>1, <2>2 DEF Subscription
<1> HIDE DEF affected, names
<1>7. errors' \in 0 .. MaxErrors
  <2>1. IsFiniteSet(failed)
    BY <1>6, FS_Subset
  <2>2. Cardinality(failed) \in Nat
    BY <2>1, FS_CardinalityType
  <2> QED BY <1>1, <1>2, <2>2 DEF TypeOK
<1>8. /\ Len(subscribers') = Len(subscribers)
      /\ \A i \in 1 .. Len(subscribers) :
           subscribers'[i] = Afterwards(subscribers[i], unbuilt, unsent)
  BY <1>1, <1>2 DEF WellFormed
<1>9. \A i \in 1 .. Len(subscribers) :
        /\ subscribers'[i] \in Subscription
        /\ subscribers'[i].who = subscribers[i].who
        /\ subscribers'[i].fail = subscribers[i].fail
        /\ Notified(subscribers[i]) =>
             subscribers'[i].dirty = (subscribers[i].who \in failed)
        /\ ~Notified(subscribers[i]) => subscribers'[i] = subscribers[i]
  <2> TAKE i \in 1 .. Len(subscribers)
  <2>1. subscribers[i] \in Subscription /\ subscribers'[i] = Afterwards(subscribers[i], unbuilt, unsent)
    BY <1>4, <1>8
  <2> QED BY <2>1, AfterwardsKeeps
<1>10. WellFormed(subscribers')
  <2>1. subscribers' = [i \in 1 .. Len(subscribers) |-> subscribers'[i]]
    BY <1>2, <1>8
  <2>2. subscribers' \in Seq(Subscription)
    BY <1>1, <1>9, <2>1 DEF WellFormed
  <2> QED BY <2>2, <1>1, <1>8, <1>9 DEF WellFormed
<1>11. outstanding' \in [Observers -> 0 .. MaxOutstanding]
  <2>1. ASSUME NEW o \in Observers
        PROVE  outstanding[o] + (IF o \in queued THEN 1 ELSE 0) \in 0 .. MaxOutstanding
    <3>1. outstanding[o] \in 0 .. MaxOutstanding
      BY <1>1 DEF TypeOK
    <3>2. o \in queued => outstanding[o] < MaxOutstanding
      BY <1>2
    <3> HIDE DEF queued
    <3> QED BY <3>1, <3>2
  <2>2. outstanding' = [o \in Observers |-> outstanding[o] + IF o \in queued THEN 1 ELSE 0]
    BY <1>2
  <2> HIDE DEF queued
  <2> QED BY <2>1, <2>2
<1>12. told' \in [Observers -> 0 .. version]
  BY <1>1, <1>2 DEF TypeOK
<1>13. TypeOK'
  BY <1>1, <1>2, <1>3, <1>7, <1>10, <1>11, <1>12 DEF TypeOK, WellFormed, SomeLeft
<1>14. ASSUME NEW i \in 1 .. Len(subscribers') PROVE Sound(subscribers[i])'
  <2> DEFINE s == subscribers[i]
  <2>1. i \in 1 .. Len(subscribers) /\ Sound(s) /\ s.who \in Observers
    BY <1>1, <1>4, <1>8 DEF AllSound, Subscription
  <2>2. CASE ~Notified(s)
    BY <2>1, <2>2, <1>1, <1>2, <1>3, <1>5, <1>9 DEF Sound, Notified, TypeOK
  <2>3. CASE Notified(s) /\ s.who \in failed
    BY <2>1, <2>3, <1>1, <1>2, <1>3, <1>9 DEF Sound, SomeLeft
  <2>4. CASE Notified(s) /\ s.who \notin failed
    <3>1. told'[s.who] = version
      BY <2>1, <2>4, <1>2, <1>5
    <3> QED BY <2>1, <3>1, <1>1, <1>3, <1>9 DEF Sound, TypeOK
  <2> QED BY <2>2, <2>3, <2>4
<1> QED BY <1>13, <1>14 DEF IInv, AllSound

\* Deleting an observer: the entries that stay are sound.
LEMMA FewerEntries ==
  ASSUME IInv, NEW q, WellFormed(q),
         \A i \in 1 .. Len(q) : \E j \in 1 .. Len(subscribers) : q[i] = subscribers[j]
  PROVE  \A i \in 1 .. Len(q) : Sound(q[i]) /\ q[i].who \in Observers
<1>1. \A j \in 1 .. Len(subscribers) :
        Sound(subscribers[j]) /\ subscribers[j] \in Subscription
  BY DEF IInv, AllSound, TypeOK
<1> QED BY <1>1 DEF Subscription

LEMMA DeleteStep ==
  ASSUME IInv, NEW o \in Observers, subscribers' = Without(o),
         outstanding' \in [Observers -> 0 .. MaxOutstanding],
         UNCHANGED <<dirty, partiallydirty, version, told, since, missed, errors>>
  PROVE  IInv'
<1>1. WellFormed(subscribers) /\ TypeOK
  BY TypedList DEF IInv
<1>2. /\ WellFormed(subscribers')
      /\ \A i \in 1 .. Len(subscribers') : Sound(subscribers'[i])
  BY <1>1, WithoutKeeps, FewerEntries
<1>3. TypeOK'
  BY <1>1, <1>2 DEF TypeOK, WellFormed
<1>4. AllSound'
  BY <1>2 DEF AllSound, Sound
<1> QED BY <1>3, <1>4 DEF IInv

\* The application changes the resource: it is dirty for everyone.
LEMMA ChangeStep ==
  ASSUME IInv, Change
  PROVE  IInv'
<1> USE ObserveAssumption DEF Change
<1>1. TypeOK /\ AllSound
  BY DEF IInv
<1>2. /\ version' \in 0 .. MaxVersion /\ told' \in [Observers -> 0 .. version']
      /\ since' \in [Observers -> 0 .. version']
  BY <1>1 DEF TypeOK
<1>3. TypeOK'
  BY <1>1, <1>2 DEF TypeOK
<1>4. AllSound'
  BY <1>1 DEF AllSound, Sound
<1> QED BY <1>3, <1>4 DEF IInv

\* What is settled by an answer.
LEMMA AckedStep ==
  ASSUME IInv, NEW o \in Observers, Acked(o)
  PROVE  IInv'
<1> USE ObserveAssumption DEF Acked
<1>1. TypeOK /\ AllSound
  BY DEF IInv
<1>2. outstanding' \in [Observers -> 0 .. MaxOutstanding]
  <2>1. outstanding \in [Observers -> 0 .. MaxOutstanding]
    BY <1>1 DEF TypeOK
  <2> QED BY <2>1
<1>3. TypeOK' /\ AllSound'
  BY <1>1, <1>2 DEF TypeOK, AllSound, Sound
<1> QED BY <1>3 DEF IInv

LEMMA AckedWithCodeStep ==
  ASSUME IInv, NEW o \in Observers, AckedWithCode(o)
  PROVE  IInv'
<1> USE ObserveAssumption DEF AckedWithCode
<1>1. WellFormed(subscribers) /\ TypeOK /\ AllSound
  BY TypedList DEF IInv
<1>2. /\ WellFormed(subscribers')
      /\ Len(subscribers') = Len(subscribers)
      /\ \A i \in 1 .. Len(subscribers) :
           /\ subscribers'[i].who = subscribers[i].who
           /\ subscribers'[i].dirty = subscribers[i].dirty
           /\ subscribers'[i].fail = IF subscribers[i].who = o THEN 0 ELSE subscribers[i].fail
  BY <1>1, TouchedKeeps
<1>3. /\ outstanding' \in [Observers -> 0 .. MaxOutstanding]
      /\ missed' \in [Observers -> 0 .. MaxFail + 1]
      /\ \A p \in Observers : missed'[p] = IF p = o THEN 0 ELSE missed[p]
  <2>1. /\ outstanding \in [Observers -> 0 .. MaxOutstanding]
        /\ missed \in [Observers -> 0 .. MaxFail + 1]
    BY <1>1 DEF TypeOK
  <2> QED BY <2>1
<1>4. TypeOK'
  BY <1>1, <1>2, <1>3 DEF TypeOK, WellFormed
<1>5. ASSUME NEW i \in 1 .. Len(subscribers') PROVE Sound(subscribers[i])'
  <2>1. /\ i \in 1 .. Len(subscribers) /\ Sound(subscribers[i])
        /\ subscribers[i] \in Subscription
    BY <1>1, <1>2 DEF AllSound, WellFormed
  <2>2. subscribers[i].who \in Observers
    BY <2>1 DEF Subscription
  <2>3. subscribers'[i].fail <= missed'[subscribers'[i].who]
    BY <2>1, <2>2, <1>2, <1>3 DEF Sound
  <2> QED BY <2>1, <2>3, <1>2 DEF Sound
<1> QED BY <1>4, <1>5 DEF IInv, AllSound

\* Giving up a notification counts at most what was missed, and the first
\* subscriber goes only when its count has reached the limit.
LEMMA GiveUpStep ==
  ASSUME IInv, NEW o \in Observers, GiveUp(o)
  PROVE  IInv'
<1> USE ObserveAssumption
<1>1. WellFormed(subscribers) /\ TypeOK /\ AllSound
  BY TypedList DEF IInv
<1>2. /\ outstanding[o] > 0
      /\ CountsFailure(o) \/ DropsObserver(o) \/ IgnoresFailure(o)
      /\ missed' = [missed EXCEPT ![o] = IF @ <= MaxFail THEN @ + 1 ELSE @]
      /\ UNCHANGED <<dirty, partiallydirty, version, told, since, errors>>
  BY DEF GiveUp
<1>3. /\ outstanding' \in [Observers -> 0 .. MaxOutstanding]
      /\ missed' \in [Observers -> 0 .. MaxFail + 1]
      /\ \A p \in Observers : missed[p] <= missed'[p]
      /\ missed[o] <= MaxFail => missed'[o] = missed[o] + 1
      /\ missed[o] > MaxFail => missed'[o] = MaxFail + 1
  <2>1. /\ outstanding \in [Observers -> 0 .. MaxOutstanding]
        /\ missed \in [Observers -> 0 .. MaxFail + 1]
    BY <1>1 DEF TypeOK
  <2>2. missed' = [missed EXCEPT ![o] = IF missed[o] <= MaxFail THEN missed[o] + 1 ELSE missed[o]]
    BY <1>2
  <2>3. outstanding' = [outstanding EXCEPT ![o] = outstanding[o] - 1]
          \/ outstanding' = [outstanding EXCEPT ![o] = 0]
    BY <1>2 DEF CountsFailure, DropsObserver, IgnoresFailure
  <2>4. outstanding' \in [Observers -> 0 .. MaxOutstanding]
    BY <1>2, <2>1, <2>3
  <2> DEFINE count == IF missed[o] <= MaxFail THEN missed[o] + 1 ELSE missed[o]
  <2>5. missed[o] \in 0 .. MaxFail + 1
    BY <2>1
  <2>6. /\ count \in 0 .. MaxFail + 1 /\ missed[o] <= count
        /\ missed[o] <= MaxFail => count = missed[o] + 1
        /\ missed[o] > MaxFail => count = MaxFail + 1
    BY <2>5
  <2> HIDE DEF count
  <2>7. /\ missed' \in [Observers -> 0 .. MaxFail + 1]
        /\ \A p \in Observers : missed'[p] = IF p = o THEN count ELSE missed[p]
    BY <2>1, <2>2, <2>6 DEF count
  <2>8. \A p \in Observers : missed[p] <= missed'[p]
    BY <2>1, <2>6, <2>7
  <2> QED BY <2>4, <2>6, <2>7, <2>8
<1>4. \A i \in 1 .. Len(subscribers) :
        /\ subscribers[i] \in Subscription /\ subscribers[i].who \in Observers
        /\ subscribers[i].fail \in Int
        /\ missed[subscribers[i].who] \in Int /\ missed'[subscribers[i].who] \in Int
  <2>1. \A i \in 1 .. Len(subscribers) : subscribers[i] \in Subscription
    BY <1>1 DEF WellFormed
  <2>2. \A i \in 1 .. Len(subscribers) :
          subscribers[i].who \in Observers /\ subscribers[i].fail \in Int
    BY <2>1 DEF Subscription
  <2>3. missed \in [Observers -> 0 .. MaxFail + 1]
    BY <1>1 DEF TypeOK
  <2> QED BY <2>1, <2>2, <2>3, <1>3
<1>5. CASE CountsFailure(o)
  <2> DEFINE s == [subscribers[1] EXCEPT !.fail = @ + 1]
  <2>1. /\ subscribers # <<>> /\ subscribers[1].who = o /\ subscribers[1].fail < MaxFail
        /\ subscribers' = [subscribers EXCEPT ![1].fail = @ + 1]
        /\ 1 \in 1 .. Len(subscribers)
    BY <1>1, <1>5 DEF CountsFailure, First, WellFormed
  <2>2. subscribers[1] \in Subscription
    BY <1>4, <2>1
  <2>3. /\ s \in Subscription /\ s.who = o /\ s.dirty = subscribers[1].dirty
        /\ s.fail = subscribers[1].fail + 1
    BY <2>1, <2>2 DEF Subscription
  <2>4. subscribers' = [subscribers EXCEPT ![1] = s]
    BY <2>1
  <2> HIDE DEF s
  <2>5. /\ subscribers' \in Seq(Subscription) /\ Len(subscribers') = Len(subscribers)
        /\ \A i \in 1 .. Len(subscribers) :
             subscribers'[i] = IF i = 1 THEN s ELSE subscribers[i]
    BY <1>1, <2>1, <2>3, <2>4, ExceptSeq DEF WellFormed
  <2>6. \A i \in 1 .. Len(subscribers) : subscribers'[i].who = subscribers[i].who
    BY <2>1, <2>3, <2>5
  <2>7. TypeOK'
    BY <1>1, <1>2, <1>3, <2>5, <2>6 DEF TypeOK, WellFormed
  <2>8. ASSUME NEW i \in 1 .. Len(subscribers') PROVE Sound(subscribers[i])'
    <3>1. i \in 1 .. Len(subscribers) /\ Sound(subscribers[i])
      BY <1>1, <2>5 DEF AllSound
    <3>2. CASE i = 1
      <4>1. s.fail <= missed'[o]
        <5>1. subscribers[1].fail <= missed[o] /\ subscribers[1].fail \in 0 .. MaxFail
          BY <2>1, <2>2, <3>1, <3>2 DEF Sound, Subscription
        <5>2. missed[o] \in Int
          BY <1>1 DEF TypeOK
        <5> QED BY <5>1, <5>2, <1>3, <2>1, <2>3
      <4> QED BY <3>1, <3>2, <4>1, <2>1, <2>3, <2>5, <1>2 DEF Sound
    <3>3. CASE i # 1
      <4>1. /\ missed[subscribers[i].who] <= missed'[subscribers[i].who]
            /\ subscribers[i].fail \in Int /\ missed[subscribers[i].who] \in Int
            /\ missed'[subscribers[i].who] \in Int
        BY <1>3, <1>4, <3>1
      <4>2. subscribers'[i] = subscribers[i]
        BY <2>5, <3>1, <3>3
      <4> QED BY <3>1, <4>1, <4>2, <1>2 DEF Sound
    <3> QED BY <3>2, <3>3
  <2> QED BY <2>7, <2>8 DEF IInv, AllSound
<1>6. ASSUME NEW q, q = subscribers', WellFormed(q),
             \A i \in 1 .. Len(q) : \E j \in 1 .. Len(subscribers) : q[i] = subscribers[j]
      PROVE  IInv'
  <2>1. TypeOK'
    BY <1>1, <1>2, <1>3, <1>6 DEF TypeOK, WellFormed
  <2>2. ASSUME NEW i \in 1 .. Len(subscribers') PROVE Sound(subscribers[i])'
    <3>1. PICK j \in 1 .. Len(subscribers) : subscribers'[i] = subscribers[j]
      BY <1>6
    <3>2. Sound(subscribers[j])
      BY <1>1 DEF AllSound
    <3>3. /\ missed[subscribers[j].who] <= missed'[subscribers[j].who]
          /\ subscribers[j].fail \in Int /\ missed[subscribers[j].who] \in Int
          /\ missed'[subscribers[j].who] \in Int
      BY <1>3, <1>4
    <3> QED BY <3>1, <3>2, <3>3, <1>2 DEF Sound
  <2> QED BY <2>1, <2>2 DEF IInv, AllSound
<1>7. CASE DropsObserver(o)
  <2>1. subscribers' = Tail(subscribers) /\ subscribers # <<>>
    BY <1>7 DEF DropsObserver, First
  <2>2. /\ subscribers' \in Seq(Subscription) /\ Len(subscribers') = Len(subscribers) - 1
        /\ \A i \in 1 .. Len(subscribers') :
             subscribers'[i] = subscribers[i + 1] /\ i + 1 \in 1 .. Len(subscribers)
    BY <1>1, <2>1 DEF WellFormed
  <2>3. WellFormed(subscribers')
    <3>1. ASSUME NEW i \in 1 .. Len(subscribers'), NEW j \in 1 .. Len(subscribers'),
                 subscribers'[i].who = subscribers'[j].who
          PROVE  i = j
      <4>1. PICK k \in 1 .. Len(subscribers), l \in 1 .. Len(subscribers) :
              /\ k = i + 1 /\ subscribers'[i] = subscribers[k]
              /\ l = j + 1 /\ subscribers'[j] = subscribers[l]
        BY <2>2
      <4>2. k = l
        BY <3>1, <4>1, <1>1 DEF WellFormed
      <4> QED BY <4>1, <4>2
    <3> QED BY <2>2, <3>1 DEF WellFormed
  <2>4. \A i \in 1 .. Len(subscribers') :
          \E j \in 1 .. Len(subscribers) : subscribers'[i] = subscribers[j]
    BY <2>2
  <2> QED BY <2>3, <2>4, <1>6
<1>8. CASE IgnoresFailure(o)
  <2>1. subscribers' = subscribers
    BY <1>8 DEF IgnoresFailure
  <2> QED BY <2>1, <1>1, <1>6
<1> QED BY <1>2, <1>5, <1>7, <1>8

\* The invariant is inductive.
LEMMA NextInvariant == IInv /\ [Next]_vars => IInv'
<1> SUFFICES ASSUME IInv, [Next]_vars PROVE IInv'
  OBVIOUS
<1> USE ObserveAssumption
<1>1. CASE Change
  BY <1>1, ChangeStep
<1>2. CASE CheckNotify
  BY <1>2, CheckNotifyStep
<1>3. ASSUME NEW o \in Observers, Register(o) PROVE IInv'
  BY <1>3, RegisterStep
<1>4. ASSUME NEW o \in Observers, Deregister(o) PROVE IInv'
  <2>1. outstanding' \in [Observers -> 0 .. MaxOutstanding]
    BY <1>4 DEF Deregister, IInv, TypeOK
  <2> QED BY <1>4, <2>1, DeleteStep DEF Deregister
<1>5. ASSUME NEW o \in Observers, Acked(o) PROVE IInv'
  BY <1>5, AckedStep
<1>6. ASSUME NEW o \in Observers, AckedWithCode(o) PROVE IInv'
  BY <1>6, AckedWithCodeStep
<1>7. ASSUME NEW o \in Observers, Reset(o) PROVE IInv'
  <2>1. outstanding \in [Observers -> 0 .. MaxOutstanding]
    BY DEF IInv, TypeOK
  <2>2. outstanding' \in [Observers -> 0 .. MaxOutstanding]
    BY <1>7, <2>1 DEF Reset
  <2> QED BY <1>7, <2>2, DeleteStep DEF Reset
<1>8. ASSUME NEW o \in Observers, GiveUp(o) PROVE IInv'
  BY <1>8, GiveUpStep
<1>9. CASE UNCHANGED vars
  BY <1>9 DEF vars, IInv, TypeOK, AllSound, Sound
<1> QED BY <1>1, <1>2, <1>3, <1>4, <1>5, <1>6, <1>7, <1>8, <1>9 DEF Next

LEMMA Invariant == Spec => []IInv
BY InitInvariant, NextInvariant, PTL DEF Spec

\* Whatever registers, fails, answers and stays silent, the counters of a
\* subscription stay within their bit fields and nobody subscribes twice.
THEOREM TypeCorrect == Spec => []TypeOK
<1>1. IInv => TypeOK
  BY DEF IInv
<1> QED BY Invariant, <1>1, PTL

\* coap_notify_observers and its marks forget no change, for any number of
\* observers, changes and failures.
THEOREM NoChangeForgottenCorrect == Spec => []NoChangeForgotten
<1>1. IInv => NoChangeForgotten
  BY DEF IInv, AllSound, Sound, NoChangeForgotten
<1> QED BY Invariant, <1>1, PTL

\* coap_remove_failed_observers drops nobody who has not missed more than
\* MaxFail notifications in total since it registered or last answered with a
\* code: fail_cnt never exceeds that total.  An empty ACK resets neither.
THEOREM DroppedForSilenceCorrect == Spec => DroppedForSilence
<1> DEFINE Dropping == \A o \in Observers : DropsObserver(o) /\ outstanding[o] > 0
                         => missed[o] >= MaxFail
<1>1. IInv /\ [Next]_vars => [Dropping]_vars
  <2> SUFFICES ASSUME IInv, NEW o \in Observers, DropsObserver(o) PROVE missed[o] >= MaxFail
    OBVIOUS
  <2>1. /\ subscribers # <<>> /\ subscribers[1].who = o /\ subscribers[1].fail = MaxFail
        /\ 1 \in 1 .. Len(subscribers)
    BY DEF DropsObserver, First, IInv, TypeOK
  <2>2. Sound(subscribers[1])
    BY <2>1 DEF IInv, AllSound
  <2>3. missed[o] \in Int /\ MaxFail \in Int
    BY ObserveAssumption DEF IInv, TypeOK
  <2> QED BY <2>1, <2>2, <2>3 DEF Sound
<1> QED BY Invariant, <1>1, PTL DEF Spec, DroppedForSilence
=============================================================================
