-------------------------- MODULE GapPacketProofs --------------------------
(***************************************************************************)
(* Theorems about GapPacket.  The loops that parse, search and decode a    *)
(* packet go forward from field to field; what each returns is shown from  *)
(* where it stops back to where it started.  The invariant is the layout   *)
(* of the packet: where each field starts.                                 *)
(***************************************************************************)
EXTENDS GapPacket, SequenceTheorems, WellFoundedInduction, TLAPS

\* Induction over the natural numbers, for a set: the loops of the code are
\* followed from one iteration to the next with it.
LEMMA SetInduction ==
  ASSUME NEW S, 0 \in S, \A n \in Nat : n \in S => n + 1 \in S
  PROVE  Nat \subseteq S
<1> DEFINE T == Nat \ S
<1> SUFFICES ASSUME T # {} PROVE FALSE
  OBVIOUS
<1>1. IsWellFoundedOn(OpToRel(<, Nat), Nat)
  BY NatLessThanWellFounded
<1>2. T \subseteq Nat
  OBVIOUS
<1>3. \E x \in T : \A y \in T : ~(<<y, x>> \in OpToRel(<, Nat))
  <2> HIDE DEF T
  <2> QED BY ONLY <1>1, <1>2, T # {}, WFMin
<1>4. PICK x \in T : \A y \in T : ~(<<y, x>> \in OpToRel(<, Nat))
  BY <1>3
<1>5. \A y \in T : ~(y < x)
  BY <1>2, <1>4 DEF OpToRel
<1>6. CASE x = 0
  BY <1>6
<1>7. CASE x # 0
  <2>1. x - 1 \in Nat
    BY <1>7
  <2>2. x - 1 \notin T
    BY <1>5, <2>1
  <2> QED
    BY <2>1, <2>2
<1> QED
  BY <1>6, <1>7

\* A set of natural numbers that is not empty has a smallest element: what a
\* loop finds first.
LEMMA SmallestOf ==
  ASSUME NEW S, S \subseteq Nat, S # {}
  PROVE  \E n \in S : \A k \in S : n <= k
<1> SUFFICES ASSUME \A n \in S : \E k \in S : k < n PROVE FALSE
  OBVIOUS
<1> DEFINE T == {n \in Nat : \A k \in 0 .. n : k \notin S}
<1>1. 0 \in T
  OBVIOUS
<1>2. \A n \in Nat : n \in T => n + 1 \in T
  OBVIOUS
<1>3. Nat \subseteq T
  <2> HIDE DEF T
  <2> QED BY <1>1, <1>2, SetInduction
<1>4. PICK n \in S : TRUE
  OBVIOUS
<1>5. n \in T /\ n \in 0 .. n
  BY <1>3, <1>4
<1> QED BY <1>4, <1>5

\* What is in S from the next number on is in S from this one on.
Inherits(a, n, S) == \A k \in a .. n : (\A j \in k + 1 .. n : j \in S) => k \in S

\* Induction from the end of an interval: a loop that only goes forward is
\* followed back from where it stops.
LEMMA DownInduction ==
  ASSUME NEW a \in Nat, NEW n \in Nat, NEW S, Inherits(a, n, S)
  PROVE  a .. n \subseteq S
<1> DEFINE T == {m \in Nat : \A k \in a .. n : k + m >= n + 1 => k \in S}
<1>1. 0 \in T
  OBVIOUS
<1>2. ASSUME NEW m \in Nat, m \in T PROVE m + 1 \in T
  <2> SUFFICES ASSUME NEW k \in a .. n, k + (m + 1) >= n + 1 PROVE k \in S
    OBVIOUS
  <2>1. ASSUME NEW j \in k + 1 .. n PROVE j \in S
    <3>1. j \in a .. n /\ j + m >= n + 1
      OBVIOUS
    <3> QED BY <1>2, <3>1
  <2> QED BY <2>1 DEF Inherits
<1>3. Nat \subseteq T
  <2> HIDE DEF T
  <2> QED BY <1>1, <1>2, SetInduction
<1>4. n + 1 \in T
  BY <1>3
<1> QED BY <1>4

(***************************************************************************)
(* f is the function of a loop that ends at the places of Stop, with b,    *)
(* and from every other place goes on to next, whose result g uses.        *)
(***************************************************************************)
Jumps(f, n, Stop, b, next, g) ==
  \A k \in 0 .. n : f[k] = IF k \in Stop THEN b[k] ELSE g[k][f[next[k]]]

\* A loop that only goes forward has such a function.
LEMMA JumpExists ==
  ASSUME NEW V, NEW n \in Nat, NEW Stop, NEW b \in [0 .. n -> V],
         NEW g \in [0 .. n -> [V -> V]], NEW next,
         \A k \in 0 .. n : k \notin Stop => next[k] \in k + 1 .. n
  PROVE  \E f \in [0 .. n -> V] : Jumps(f, n, Stop, b, next, g)
<1> DEFINE From(f, m) == \A k \in 0 .. n : k + m >= n + 1 =>
                           f[k] = IF k \in Stop THEN b[k] ELSE g[k][f[next[k]]]
           S == {m \in Nat : \E f \in [0 .. n -> V] : From(f, m)}
<1>1. 0 \in S
  <2>1. From(b, 0)
    OBVIOUS
  <2> QED BY <2>1
<1>2. ASSUME NEW m \in Nat, m \in S PROVE m + 1 \in S
  <2>1. PICK f \in [0 .. n -> V] : From(f, m)
    BY <1>2
  <2> DEFINE value(k) == IF k \in Stop THEN b[k] ELSE g[k][f[next[k]]]
             e == [k \in 0 .. n |-> IF k = n - m THEN value(k) ELSE f[k]]
  <2>2. ASSUME NEW k \in 0 .. n PROVE value(k) \in V
    <3>1. CASE k \in Stop
      BY <3>1
    <3>2. CASE k \notin Stop
      <4>1. next[k] \in 0 .. n
        BY <3>2
      <4>2. f[next[k]] \in V /\ g[k] \in [V -> V]
        BY <4>1
      <4> QED BY <3>2, <4>2
    <3> QED BY <3>1, <3>2
  <2>3. e \in [0 .. n -> V]
    <3> HIDE DEF value
    <3> QED BY <2>2
  <2>4. ASSUME NEW k \in 0 .. n, k + (m + 1) >= n + 1, k \notin Stop
        PROVE  e[next[k]] = f[next[k]]
    <3>1. next[k] \in 0 .. n /\ next[k] # n - m
      BY <2>4
    <3> QED BY <3>1
  <2>5. ASSUME NEW k \in 0 .. n, k + (m + 1) >= n + 1 PROVE e[k] = value(k)
    <3>1. CASE k = n - m
      <4> HIDE DEF value
      <4> QED BY <3>1
    <3>2. CASE k # n - m
      <4>1. k + m >= n + 1 /\ e[k] = f[k]
        BY <2>5, <3>2
      <4> QED BY <2>1, <4>1
    <3> QED BY <3>1, <3>2
  <2> HIDE DEF e
  <2>6. From(e, m + 1)
    BY <2>4, <2>5
  <2> HIDE DEF From
  <2> QED BY <2>3, <2>6
<1>3. Nat \subseteq S
  <2> HIDE DEF S
  <2> QED BY <1>1, <1>2, SetInduction
<1>4. PICK f \in [0 .. n -> V] : From(f, n + 1)
  <2>1. n + 1 \in S
    <3> HIDE DEF S
    <3> QED BY <1>3
  <2> HIDE DEF From
  <2> QED BY <2>1
<1>5. Jumps(f, n, Stop, b, next, g)
  BY <1>4 DEF Jumps
<1> QED BY <1>5

Reach  == Size + 255   \* no loop goes further
Bytes  == [0 .. Size - 1 -> 0 .. 255]
Fields == [type : 0 .. 255, data : Seq(0 .. 255)]

----------------------------------------------------------------------------
\* field(), from any position.
IsField(f, p, type) ==
  f = [pos \in 0 .. Size + 255 |->
        IF pos >= Size - 2 \/ p[pos + 1] = 0 THEN NotFound
        ELSE IF p[pos + 1] = type THEN pos
        ELSE f[pos + p[pos] + 1]]

\* setPayload's loop, from any position.
IsParse(f, source, size) ==
  f = [pos \in 0 .. Size + 255 |->
        IF pos >= size - 2 \/ pos >= Size - 2 \/ source[pos + 1] = 0
        THEN [ok |-> TRUE, length |-> pos]
        ELSE IF source[pos] < 1 \/ pos + source[pos] + 1 > size
        THEN [ok |-> FALSE, length |-> pos]
        ELSE f[pos + source[pos] + 1]]

\* The fields from any position on.
IsDecode(f, p, len) ==
  f = [pos \in 0 .. Size + 255 |->
        IF pos >= len THEN <<>> ELSE <<FieldAt(p, pos)>> \o f[pos + p[pos] + 1]]

\* The fields a sender put into a payload, from any position on.
NoneAt(source, pos) ==
  \/ pos + 2 > Size \/ source[pos + 1] = 0
  \/ source[pos] < 1 \/ pos + source[pos] + 1 > Size
IsSent(f, source) ==
  f = [pos \in 0 .. Size + 255 |->
        IF NoneAt(source, pos) THEN <<>>
        ELSE <<FieldAt(source, pos)>> \o f[pos + source[pos] + 1]]

\* A field starts inside the payload and the next one is still in reach.
LEMMA NextInReach ==
  ASSUME NEW p \in Bytes, NEW pos \in 0 .. Reach, pos < Size, PacketAssumption
  PROVE  /\ p[pos] \in 0 .. 255 /\ pos + p[pos] + 1 \in pos + 1 .. Reach
         /\ pos < Size - 1 => p[pos + 1] \in 0 .. 255
<1>1. Size \in Nat /\ pos \in 0 .. Size - 1 /\ p \in [0 .. Size - 1 -> 0 .. 255]
  BY DEF Bytes, Reach, PacketAssumption
<1>2. p[pos] \in 0 .. 255
  BY <1>1
<1>3. pos + p[pos] + 1 \in pos + 1 .. Reach
  <2>1. PICK n \in 0 .. 255 : n = p[pos]
    BY <1>2
  <2>2. pos + n + 1 \in pos + 1 .. Size + 255
    BY <1>1
  <2> QED BY <2>1, <2>2 DEF Reach
<1>4. ASSUME pos < Size - 1 PROVE p[pos + 1] \in 0 .. 255
  <2>1. pos + 1 \in 0 .. Size - 1
    BY <1>1, <1>4
  <2> QED BY <1>1, <2>1
<1> QED BY <1>2, <1>3, <1>4

\* The search has a result at every position.
LEMMA FieldExists ==
  ASSUME NEW p \in Bytes, NEW type, PacketAssumption
  PROVE  \E f : IsField(f, p, type) /\ Field(p, type) = f[0]
<1> DEFINE none(pos) == pos >= Size - 2 \/ p[pos + 1] = 0
           Stop == {pos \in 0 .. Reach : none(pos) \/ p[pos + 1] = type}
           V    == 0 .. Reach
           b    == [pos \in 0 .. Reach |-> IF none(pos) THEN NotFound ELSE pos]
           next == [pos \in 0 .. Reach |-> pos + p[pos] + 1]
           g    == [pos \in 0 .. Reach |-> [v \in V |-> v]]
<1>1. Reach \in Nat /\ NotFound \in V
  BY DEF Reach, NotFound, PacketAssumption
<1>2. b \in [0 .. Reach -> V] /\ g \in [0 .. Reach -> [V -> V]]
  <2> HIDE DEF none
  <2> QED BY <1>1
<1>3. \A k \in 0 .. Reach : k \notin Stop => next[k] \in k + 1 .. Reach
  <2> SUFFICES ASSUME NEW k \in 0 .. Reach, k \notin Stop PROVE next[k] \in k + 1 .. Reach
    OBVIOUS
  <2>1. k < Size
    BY DEF PacketAssumption
  <2> QED BY <2>1, NextInReach
<1>4. PICK f \in [0 .. Reach -> V] : Jumps(f, Reach, Stop, b, next, g)
  <2> HIDE DEF Stop, V, b, next, g
  <2> QED BY <1>1, <1>2, <1>3, JumpExists
<1>5. ASSUME NEW pos \in 0 .. Reach
      PROVE  f[pos] = IF none(pos) THEN NotFound
                      ELSE IF p[pos + 1] = type THEN pos ELSE f[pos + p[pos] + 1]
  <2>1. f[pos] = IF pos \in Stop THEN b[pos] ELSE g[pos][f[next[pos]]]
    <3> HIDE DEF Stop, b, next, g, V
    <3> QED BY <1>4 DEF Jumps
  <2>2. CASE pos \in Stop
    BY <2>1, <2>2
  <2>3. CASE pos \notin Stop
    <3>1. next[pos] \in 0 .. Reach
      <4> HIDE DEF Stop, next
      <4> QED BY <1>3, <2>3
    <3>2. f[next[pos]] \in V
      <4> HIDE DEF next, V
      <4> QED BY <3>1
    <3>3. f[pos] = f[next[pos]]
      <4> HIDE DEF next, V, Stop, b
      <4> QED BY <2>1, <2>3, <3>2
    <3> QED BY <2>3, <3>3
  <2> QED BY <2>2, <2>3
<1>6. IsField(f, p, type)
  <2>1. f = [pos \in 0 .. Reach |-> f[pos]]
    OBVIOUS
  <2> QED BY <1>5, <2>1 DEF IsField, Reach
<1>7. PICK e : e = CHOOSE h : IsField(h, p, type)
  OBVIOUS
<1>8. IsField(e, p, type)
  BY <1>6, <1>7
<1>9. Field(p, type) = e[0]
  BY <1>7 DEF Field, IsField
<1> QED BY <1>8, <1>9

\* So does the parser.
LEMMA ParseExists ==
  ASSUME NEW source \in Bytes, NEW size \in Nat, PacketAssumption
  PROVE  \E f : IsParse(f, source, size) /\ Parse(source, size) = f[0]
<1> DEFINE ends(pos) == pos >= size - 2 \/ pos >= Size - 2 \/ source[pos + 1] = 0
           fails(pos) == source[pos] < 1 \/ pos + source[pos] + 1 > size
           Stop == {pos \in 0 .. Reach : ends(pos) \/ fails(pos)}
           V    == [ok : BOOLEAN, length : 0 .. Reach]
           b    == [pos \in 0 .. Reach |-> [ok |-> ends(pos), length |-> pos]]
           next == [pos \in 0 .. Reach |-> pos + source[pos] + 1]
           g    == [pos \in 0 .. Reach |-> [v \in V |-> v]]
<1>1. Reach \in Nat
  BY DEF Reach, PacketAssumption
<1>2. b \in [0 .. Reach -> V] /\ g \in [0 .. Reach -> [V -> V]]
  <2>1. \A pos \in 0 .. Reach : ends(pos) \in BOOLEAN
    OBVIOUS
  <2>2. \A pos \in 0 .. Reach : [ok |-> ends(pos), length |-> pos] \in V
    <3> HIDE DEF ends
    <3> QED BY <2>1
  <2> HIDE DEF ends, V
  <2> QED BY <2>2
<1>3. \A k \in 0 .. Reach : k \notin Stop => next[k] \in k + 1 .. Reach
  <2> SUFFICES ASSUME NEW k \in 0 .. Reach, k \notin Stop PROVE next[k] \in k + 1 .. Reach
    OBVIOUS
  <2>1. k < Size
    BY DEF PacketAssumption
  <2> QED BY <2>1, NextInReach
<1>4. PICK f \in [0 .. Reach -> V] : Jumps(f, Reach, Stop, b, next, g)
  <2> HIDE DEF Stop, V, b, next, g
  <2> QED BY <1>1, <1>2, <1>3, JumpExists
<1>5. ASSUME NEW pos \in 0 .. Reach
      PROVE  f[pos] = IF ends(pos) THEN [ok |-> TRUE, length |-> pos]
                      ELSE IF fails(pos) THEN [ok |-> FALSE, length |-> pos]
                      ELSE f[pos + source[pos] + 1]
  <2>1. f[pos] = IF pos \in Stop THEN b[pos] ELSE g[pos][f[next[pos]]]
    <3> HIDE DEF Stop, b, next, g, V
    <3> QED BY <1>4 DEF Jumps
  <2>2. CASE pos \in Stop
    <3>1. ends(pos) \/ fails(pos)
      BY <2>2
    <3>2. f[pos] = [ok |-> ends(pos), length |-> pos]
      <4> HIDE DEF ends, Stop
      <4> QED BY <2>1, <2>2
    <3>3. CASE ends(pos)
      <4>1. ends(pos) = TRUE
        BY <3>3
      <4> HIDE DEF ends
      <4> QED BY <3>2, <3>3, <4>1
    <3>4. CASE ~ends(pos)
      <4>1. ends(pos) = FALSE
        BY <3>4
      <4> HIDE DEF ends, fails
      <4> QED BY <3>1, <3>2, <3>4, <4>1
    <3> QED BY <3>3, <3>4
  <2>3. CASE pos \notin Stop
    <3>1. next[pos] \in 0 .. Reach
      <4> HIDE DEF Stop, next
      <4> QED BY <1>3, <2>3
    <3>2. f[next[pos]] \in V
      <4> HIDE DEF next, V
      <4> QED BY <3>1
    <3>3. f[pos] = f[next[pos]]
      <4> HIDE DEF next, V, Stop, b
      <4> QED BY <2>1, <2>3, <3>2
    <3>4. ~ends(pos) /\ ~fails(pos) /\ next[pos] = pos + source[pos] + 1
      BY <2>3
    <3> HIDE DEF ends, fails, next
    <3> QED BY <3>3, <3>4
  <2> QED BY <2>2, <2>3
<1>6. IsParse(f, source, size)
  <2>1. f = [pos \in 0 .. Reach |-> f[pos]]
    OBVIOUS
  <2> QED BY <1>5, <2>1 DEF IsParse, Reach
<1>7. PICK e : e = CHOOSE h : IsParse(h, source, size)
  OBVIOUS
<1>8. IsParse(e, source, size)
  BY <1>6, <1>7
<1>9. Parse(source, size) = e[0]
  BY <1>7 DEF Parse, IsParse
<1> QED BY <1>8, <1>9

\* So does the decoder, for a length that is no more than the payload's.
LEMMA DecodeExists ==
  ASSUME NEW p \in Bytes, NEW len \in 0 .. Size, PacketAssumption
  PROVE  \E f : IsDecode(f, p, len) /\ Decode(p, len) = f[0]
<1> DEFINE Stop == {pos \in 0 .. Reach : pos >= len}
           W    == {FieldAt(p, pos) : pos \in 0 .. Reach}
           V    == Seq(W)
           b    == [pos \in 0 .. Reach |-> <<>>]
           next == [pos \in 0 .. Reach |-> pos + p[pos] + 1]
           g    == [pos \in 0 .. Reach |-> [v \in V |-> <<FieldAt(p, pos)>> \o v]]
<1>1. Reach \in Nat /\ Size \in Nat
  BY DEF Reach, PacketAssumption
<1>2. b \in [0 .. Reach -> V]
  OBVIOUS
<1>3. g \in [0 .. Reach -> [V -> V]]
  <2>1. ASSUME NEW pos \in 0 .. Reach, NEW v \in V PROVE <<FieldAt(p, pos)>> \o v \in V
    <3>1. FieldAt(p, pos) \in W
      OBVIOUS
    <3> HIDE DEF W
    <3>2. <<FieldAt(p, pos)>> \in Seq(W)
      BY <3>1
    <3> QED BY <3>2
  <2> HIDE DEF V
  <2> QED BY <2>1
<1>4. \A k \in 0 .. Reach : k \notin Stop => next[k] \in k + 1 .. Reach
  <2> SUFFICES ASSUME NEW k \in 0 .. Reach, k \notin Stop PROVE next[k] \in k + 1 .. Reach
    OBVIOUS
  <2>1. k < Size
    BY <1>1
  <2> QED BY <2>1, NextInReach
<1>5. PICK f \in [0 .. Reach -> V] : Jumps(f, Reach, Stop, b, next, g)
  <2> HIDE DEF Stop, V, b, next, g
  <2> QED BY <1>1, <1>2, <1>3, <1>4, JumpExists
<1>6. ASSUME NEW pos \in 0 .. Reach
      PROVE  f[pos] = IF pos >= len THEN <<>>
                      ELSE <<FieldAt(p, pos)>> \o f[pos + p[pos] + 1]
  <2>1. f[pos] = IF pos \in Stop THEN b[pos] ELSE g[pos][f[next[pos]]]
    <3> HIDE DEF Stop, b, next, g, V
    <3> QED BY <1>5 DEF Jumps
  <2>2. CASE pos \in Stop
    BY <2>1, <2>2
  <2>3. CASE pos \notin Stop
    <3>1. next[pos] \in 0 .. Reach
      <4> HIDE DEF Stop, next
      <4> QED BY <1>4, <2>3
    <3>2. f[next[pos]] \in V
      <4> HIDE DEF next, V
      <4> QED BY <3>1
    <3>3. f[pos] = <<FieldAt(p, pos)>> \o f[next[pos]]
      <4> HIDE DEF next, V, Stop, b
      <4> QED BY <2>1, <2>3, <3>2
    <3> QED BY <2>3, <3>3
  <2> QED BY <2>2, <2>3
<1>7. IsDecode(f, p, len)
  <2>1. f = [pos \in 0 .. Reach |-> f[pos]]
    OBVIOUS
  <2> QED BY <1>6, <2>1 DEF IsDecode, Reach
<1>8. PICK e : e = CHOOSE h : IsDecode(h, p, len)
  OBVIOUS
<1>9. IsDecode(e, p, len)
  BY <1>7, <1>8
<1>10. Decode(p, len) = e[0]
  BY <1>8 DEF Decode, IsDecode
<1> QED BY <1>9, <1>10

\* So does the reading of what was sent.
LEMMA SentExists ==
  ASSUME NEW source \in Bytes, PacketAssumption
  PROVE  \E f : IsSent(f, source) /\ Sent(source) = f[0]
<1> DEFINE Stop == {pos \in 0 .. Reach : NoneAt(source, pos)}
           W    == {FieldAt(source, pos) : pos \in 0 .. Reach}
           V    == Seq(W)
           b    == [pos \in 0 .. Reach |-> <<>>]
           next == [pos \in 0 .. Reach |-> pos + source[pos] + 1]
           g    == [pos \in 0 .. Reach |-> [v \in V |-> <<FieldAt(source, pos)>> \o v]]
<1>1. Reach \in Nat /\ Size \in Nat
  BY DEF Reach, PacketAssumption
<1>2. b \in [0 .. Reach -> V]
  OBVIOUS
<1>3. g \in [0 .. Reach -> [V -> V]]
  <2>1. ASSUME NEW pos \in 0 .. Reach, NEW v \in V PROVE <<FieldAt(source, pos)>> \o v \in V
    <3>1. FieldAt(source, pos) \in W
      OBVIOUS
    <3> HIDE DEF W
    <3>2. <<FieldAt(source, pos)>> \in Seq(W)
      BY <3>1
    <3> QED BY <3>2
  <2> HIDE DEF V
  <2> QED BY <2>1
<1>4. \A k \in 0 .. Reach : k \notin Stop => next[k] \in k + 1 .. Reach
  <2> SUFFICES ASSUME NEW k \in 0 .. Reach, k \notin Stop PROVE next[k] \in k + 1 .. Reach
    OBVIOUS
  <2>1. k < Size
    BY <1>1 DEF NoneAt
  <2> QED BY <2>1, NextInReach
<1>5. PICK f \in [0 .. Reach -> V] : Jumps(f, Reach, Stop, b, next, g)
  <2> HIDE DEF Stop, V, b, next, g
  <2> QED BY <1>1, <1>2, <1>3, <1>4, JumpExists
<1>6. ASSUME NEW pos \in 0 .. Reach
      PROVE  f[pos] = IF NoneAt(source, pos) THEN <<>>
                      ELSE <<FieldAt(source, pos)>> \o f[pos + source[pos] + 1]
  <2>1. f[pos] = IF pos \in Stop THEN b[pos] ELSE g[pos][f[next[pos]]]
    <3> HIDE DEF Stop, b, next, g, V
    <3> QED BY <1>5 DEF Jumps
  <2>2. CASE pos \in Stop
    BY <2>1, <2>2
  <2>3. CASE pos \notin Stop
    <3>1. next[pos] \in 0 .. Reach
      <4> HIDE DEF Stop, next
      <4> QED BY <1>4, <2>3
    <3>2. f[next[pos]] \in V
      <4> HIDE DEF next, V
      <4> QED BY <3>1
    <3>3. f[pos] = <<FieldAt(source, pos)>> \o f[next[pos]]
      <4> HIDE DEF next, V, Stop, b
      <4> QED BY <2>1, <2>3, <3>2
    <3> QED BY <2>3, <3>3
  <2> QED BY <2>2, <2>3
<1>7. IsSent(f, source)
  <2>1. f = [pos \in 0 .. Reach |-> f[pos]]
    OBVIOUS
  <2> QED BY <1>6, <2>1 DEF IsSent, Reach
<1>8. PICK e : e = CHOOSE h : IsSent(h, source)
  OBVIOUS
<1>9. IsSent(e, source)
  BY <1>7, <1>8
<1>10. Sent(source) = e[0]
  BY <1>8 DEF Sent, IsSent, NoneAt
<1> QED BY <1>9, <1>10

----------------------------------------------------------------------------
\* The search finds a position inside the payload, or nothing.
LEMMA FieldType ==
  ASSUME NEW p \in Bytes, NEW type, PacketAssumption
  PROVE  Field(p, type) # NotFound => Field(p, type) \in 0 .. Size - 3
<1>1. PICK f : IsField(f, p, type) /\ Field(p, type) = f[0]
  BY FieldExists
<1>2. Reach \in Nat /\ 0 \in 0 .. Reach /\ Size \in Nat
  BY DEF Reach, PacketAssumption
<1> DEFINE S == {pos \in 0 .. Reach : f[pos] # NotFound => f[pos] \in 0 .. Size - 3}
<1>3. ASSUME NEW pos \in 0 .. Reach, \A j \in pos + 1 .. Reach : j \in S
      PROVE  pos \in S
  <2>1. f[pos] = IF pos >= Size - 2 \/ p[pos + 1] = 0 THEN NotFound
                 ELSE IF p[pos + 1] = type THEN pos ELSE f[pos + p[pos] + 1]
    BY <1>1 DEF IsField, Reach
  <2>2. CASE pos >= Size - 2 \/ p[pos + 1] = 0
    BY <2>1, <2>2
  <2>3. CASE pos < Size - 2 /\ p[pos + 1] # 0 /\ p[pos + 1] = type
    BY <1>2, <2>1, <2>3
  <2>4. CASE pos < Size - 2 /\ p[pos + 1] # 0 /\ p[pos + 1] # type
    <3>1. pos + p[pos] + 1 \in pos + 1 .. Reach
      <4>1. pos < Size
        BY <1>2, <2>4
      <4> QED BY <4>1, NextInReach
    <3>2. f[pos] = f[pos + p[pos] + 1]
      BY <1>2, <2>1, <2>4
    <3> QED BY <1>3, <3>1, <3>2
  <2> QED BY <1>2, <2>2, <2>3, <2>4
<1>4. 0 .. Reach \subseteq S
  <2> HIDE DEF S
  <2>1. Inherits(0, Reach, S)
    BY <1>3 DEF Inherits
  <2>2. Reach \in Nat /\ 0 \in Nat
    BY <1>2
  <2> QED BY ONLY <2>1, <2>2, DownInduction
<1> QED BY <1>1, <1>2, <1>4

\* A parser that stays inside the size it is given stops inside it.
LEMMA ParseEnds ==
  ASSUME NEW source \in Bytes, NEW size \in Nat, PacketAssumption,
         NEW f, IsParse(f, source, size)
  PROVE  \A pos \in 0 .. Reach : /\ f[pos].length \in pos .. Reach
                                 /\ pos <= size => f[pos].length <= size
<1>1. Reach \in Nat /\ Size \in Nat
  BY DEF Reach, PacketAssumption
<1> DEFINE S == {pos \in 0 .. Reach : /\ f[pos].length \in pos .. Reach
                                      /\ pos <= size => f[pos].length <= size}
<1>2. ASSUME NEW pos \in 0 .. Reach, \A j \in pos + 1 .. Reach : j \in S
      PROVE  pos \in S
  <2> DEFINE ends  == pos >= size - 2 \/ pos >= Size - 2 \/ source[pos + 1] = 0
             fails == source[pos] < 1 \/ pos + source[pos] + 1 > size
  <2>1. f[pos] = IF ends THEN [ok |-> TRUE, length |-> pos]
                 ELSE IF fails THEN [ok |-> FALSE, length |-> pos]
                 ELSE f[pos + source[pos] + 1]
    BY DEF IsParse, Reach
  <2>2. CASE ends \/ fails
    <3>1. f[pos].length = pos
      <4> HIDE DEF ends, fails
      <4> QED BY <2>1, <2>2
    <3> QED BY <1>1, <3>1
  <2>3. CASE ~ends /\ ~fails
    <3>1. pos < Size /\ pos + source[pos] + 1 <= size
      <4>1. pos < Size
        BY <1>1, <2>3
      <4>2. source[pos] \in 0 .. 255
        BY <4>1, NextInReach
      <4>3. ~(pos + source[pos] + 1 > size)
        BY <2>3
      <4>4. PICK n \in 0 .. 255 : n = source[pos]
        BY <4>2
      <4> QED BY <1>1, <4>1, <4>3, <4>4
    <3>2. pos + source[pos] + 1 \in pos + 1 .. Reach
      BY <3>1, NextInReach
    <3>3. f[pos] = f[pos + source[pos] + 1]
      <4> HIDE DEF ends, fails
      <4> QED BY <2>1, <2>3
    <3>4. PICK next \in pos + 1 .. Reach : f[pos] = f[next] /\ next <= size
      BY <3>1, <3>2, <3>3
    <3>5. f[next].length \in next .. Reach /\ f[next].length <= size
      <4>1. next \in S
        BY <1>2, <3>4
      <4> QED BY <3>4, <4>1
    <3> QED BY <1>1, <3>4, <3>5
  <2> QED BY <2>2, <2>3
<1>3. 0 .. Reach \subseteq S
  <2> HIDE DEF S
  <2>1. Inherits(0, Reach, S)
    BY <1>2 DEF Inherits
  <2>2. Reach \in Nat /\ 0 \in Nat
    BY <1>1
  <2> QED BY ONLY <2>1, <2>2, DownInduction
<1> QED BY <1>3

----------------------------------------------------------------------------
\* at is where the fields fs of a packet of len bytes start, and where the
\* last one ends: each has its type and data there, and the next follows.
Laid(p, at, fs, len) ==
  /\ at \in [1 .. Len(fs) + 1 -> 0 .. len]
  /\ at[Len(fs) + 1] = len
  /\ \A i \in 1 .. Len(fs) :
       /\ at[i] < Size - 2 /\ p[at[i]] >= 1 /\ p[at[i] + 1] # 0
       /\ at[i + 1] = at[i] + p[at[i]] + 1
       /\ fs[i] = FieldAt(p, at[i])

\* The packet holds the fields from its start on and zeros behind them, as far
\* as the loops look.
Layout(p, fs, len) ==
  /\ len \in 0 .. Size /\ fs \in Seq(Fields)
  /\ len < Size - 2 => \A k \in len .. Size - 1 : p[k] = 0
  /\ \E at : Laid(p, at, fs, len) /\ at[1] = 0

\* What a field says of the bytes of the packet.
Lies(p, at, fs, len, i) ==
  /\ Size \in Nat /\ len \in Nat /\ Len(fs) \in Nat
  /\ at[i] \in 0 .. Size - 3 /\ at[i] \in 0 .. Reach
  /\ p[at[i]] \in 1 .. 255 /\ p[at[i] + 1] # 0
  /\ at[i + 1] = at[i] + p[at[i]] + 1
  /\ at[i] + p[at[i]] + 1 <= len /\ at[i] < len
  /\ fs[i] = FieldAt(p, at[i]) /\ fs[i].type = p[at[i] + 1]

LEMMA LaidField ==
  ASSUME PacketAssumption, NEW p \in Bytes, NEW fs \in Seq(Fields), NEW len \in 0 .. Size,
         NEW at, Laid(p, at, fs, len), NEW i \in 1 .. Len(fs)
  PROVE  Lies(p, at, fs, len, i)
<1>1. Size \in Nat /\ Size >= 3 /\ len \in Nat /\ Len(fs) \in Nat
  BY DEF PacketAssumption
<1>2. i \in 1 .. Len(fs) + 1 /\ i + 1 \in 1 .. Len(fs) + 1
  BY <1>1
<1>3. at[i] \in 0 .. len /\ at[i + 1] \in 0 .. len
  BY <1>2 DEF Laid
<1>4. /\ at[i] < Size - 2 /\ p[at[i]] >= 1 /\ p[at[i] + 1] # 0
      /\ at[i + 1] = at[i] + p[at[i]] + 1
      /\ fs[i] = FieldAt(p, at[i])
  BY DEF Laid
<1>5. at[i] \in 0 .. Size - 3 /\ at[i] \in 0 .. Reach /\ at[i] < Size - 1 /\ at[i] < Size
  BY <1>1, <1>3, <1>4 DEF Reach
<1>6. p[at[i]] \in 0 .. 255
  <2>1. PICK x : x = at[i]
    OBVIOUS
  <2>2. x \in 0 .. Reach /\ x < Size
    BY <1>5, <2>1
  <2>3. p[x] \in 0 .. 255
    BY <2>2, NextInReach
  <2> QED BY <2>1, <2>3
<1>7. p[at[i]] \in 1 .. 255
  <2>1. PICK n \in 0 .. 255 : n = p[at[i]]
    BY <1>6
  <2> QED BY <1>4, <2>1
<1>8. at[i + 1] \in 2 .. len /\ at[i] + p[at[i]] + 1 <= len /\ at[i] < len
  <2>1. PICK n \in 1 .. 255 : n = p[at[i]]
    BY <1>7
  <2>2. PICK x \in 0 .. len : x = at[i]
    BY <1>3
  <2>3. PICK y \in 0 .. len : y = at[i + 1]
    BY <1>3
  <2>4. y = x + n + 1
    BY <1>4, <2>1, <2>2, <2>3
  <2>5. x + n + 1 \in 2 .. len /\ x < len
    <3>1. y <= len
      BY <1>1
    <3> QED BY <1>1, <2>4, <3>1
  <2> QED BY <2>1, <2>2, <2>3, <2>4, <2>5
<1>9. fs[i].type = p[at[i] + 1]
  BY <1>4 DEF FieldAt
<1> QED BY <1>1, <1>4, <1>5, <1>7, <1>8, <1>9 DEF Lies

\* The fields start inside the packet.
LEMMA LaidType ==
  ASSUME PacketAssumption, NEW fs \in Seq(Fields), NEW len \in 0 .. Size, NEW p,
         NEW at, Laid(p, at, fs, len)
  PROVE  /\ Len(fs) \in Nat /\ Size \in Nat /\ Reach \in Nat
         /\ at[Len(fs) + 1] = len
         /\ \A k \in 1 .. Len(fs) + 1 : at[k] \in 0 .. Reach /\ at[k] <= len
<1>1. Len(fs) \in Nat /\ Size \in Nat /\ Reach \in Nat /\ len \in Nat
  BY DEF PacketAssumption, Reach
<1>2. ASSUME NEW k \in 1 .. Len(fs) + 1 PROVE at[k] \in 0 .. Reach /\ at[k] <= len
  <2>1. at[k] \in 0 .. len
    BY DEF Laid
  <2> QED BY <1>1, <2>1 DEF Reach
<1>3. at[Len(fs) + 1] = len
  BY DEF Laid
<1> QED BY <1>1, <1>2, <1>3

\* Whoever parses the packet with its own size comes to its end.
LEMMA LayoutParses ==
  ASSUME PacketAssumption, NEW p \in Bytes, NEW fs, NEW len, Layout(p, fs, len)
  PROVE  Parse(p, Size) = [ok |-> TRUE, length |-> len]
<1>1. PICK at : Laid(p, at, fs, len) /\ at[1] = 0
  BY DEF Layout
<1>2. /\ fs \in Seq(Fields) /\ len \in 0 .. Size
      /\ len < Size - 2 => \A k \in len .. Size - 1 : p[k] = 0
  BY DEF Layout
<1>3. /\ Len(fs) \in Nat /\ Size \in Nat /\ Reach \in Nat /\ at[Len(fs) + 1] = len
      /\ \A k \in 1 .. Len(fs) + 1 : at[k] \in 0 .. Reach /\ at[k] <= len
  BY <1>1, <1>2, LaidType
<1>4. PICK f : IsParse(f, p, Size) /\ Parse(p, Size) = f[0]
  BY <1>3, ParseExists
<1> DEFINE ends(pos)  == pos >= Size - 2 \/ p[pos + 1] = 0
           fails(pos) == p[pos] < 1 \/ pos + p[pos] + 1 > Size
           n == Len(fs) + 1
           S == {k \in 1 .. n : f[at[k]] = [ok |-> TRUE, length |-> len]}
<1>5. ASSUME NEW pos \in 0 .. Reach
      PROVE  f[pos] = IF ends(pos) THEN [ok |-> TRUE, length |-> pos]
                      ELSE IF fails(pos) THEN [ok |-> FALSE, length |-> pos]
                      ELSE f[pos + p[pos] + 1]
  BY <1>4 DEF IsParse, Reach
<1>6. ASSUME NEW k \in 1 .. n, \A j \in k + 1 .. n : j \in S PROVE k \in S
  <2>1. CASE k = n
    <3>1. at[k] = len /\ len \in 0 .. Reach /\ len \in Nat
      BY <1>2, <1>3, <2>1
    <3>2. ends(len)
      <4>1. CASE len >= Size - 2
        BY <4>1
      <4>2. CASE len < Size - 2
        <5>1. len + 1 \in len .. Size - 1
          BY <1>3, <3>1, <4>2
        <5> QED BY <1>2, <4>2, <5>1
      <4> QED BY <1>3, <3>1, <4>1, <4>2
    <3> HIDE DEF ends, fails
    <3> QED BY <1>5, <3>1, <3>2
  <2>2. CASE k # n
    <3>1. k \in 1 .. Len(fs) /\ k + 1 \in k + 1 .. n
      BY <1>3, <2>2
    <3>2. /\ at[k] \in 0 .. Size - 3 /\ at[k] \in 0 .. Reach
          /\ p[at[k]] \in 1 .. 255 /\ p[at[k] + 1] # 0
          /\ at[k + 1] = at[k] + p[at[k]] + 1 /\ at[k] + p[at[k]] + 1 <= len
      <4>1. Lies(p, at, fs, len, k)
        BY <1>1, <1>2, <3>1, LaidField
      <4> QED BY <4>1 DEF Lies
    <3>3. ~ends(at[k]) /\ ~fails(at[k])
      <4>1. PICK x \in 0 .. Size - 3 : x = at[k]
        BY <3>2
      <4>2. PICK y \in 1 .. 255 : y = p[at[k]]
        BY <3>2
      <4>3. x + y + 1 <= Size /\ ~(x >= Size - 2)
        <5>1. x + y + 1 <= len
          BY <3>2, <4>1, <4>2
        <5>2. len <= Size /\ len \in Nat
          BY <1>2, <1>3
        <5> QED BY <1>3, <5>1, <5>2
      <4>4. ~ends(at[k])
        <5>1. p[at[k] + 1] # 0
          BY <3>2
        <5>2. ~(at[k] >= Size - 2)
          BY <4>1, <4>3
        <5> QED BY <5>1, <5>2
      <4>5. ~(y < 1) /\ ~(x + y + 1 > Size)
        BY <1>3, <4>3
      <4> QED BY <4>1, <4>2, <4>4, <4>5
    <3>4. f[at[k]] = f[at[k + 1]]
      <4> HIDE DEF ends, fails
      <4> QED BY <1>5, <3>2, <3>3
    <3> QED BY <1>6, <3>1, <3>4
  <2> QED BY <2>1, <2>2
<1>7. 1 .. n \subseteq S
  <2>1. n \in Nat
    BY <1>3
  <2> HIDE DEF S, n
  <2>2. Inherits(1, n, S)
    BY <1>6 DEF Inherits
  <2>3. 1 \in Nat
    OBVIOUS
  <2> QED BY ONLY <2>1, <2>2, <2>3, DownInduction
<1>8. 1 \in S
  <2>1. 1 \in 1 .. n
    BY <1>3
  <2> HIDE DEF S, n
  <2> QED BY <1>7, <2>1
<1> QED BY <1>1, <1>4, <1>8

\* A list from an element on, and from the next one on.
LEMMA Onwards ==
  ASSUME NEW W, NEW fs \in Seq(W)
  PROVE  /\ SubSeq(fs, 1, Len(fs)) = fs
         /\ SubSeq(fs, Len(fs) + 1, Len(fs)) = <<>>
         /\ \A k \in 1 .. Len(fs) :
              SubSeq(fs, k, Len(fs)) = <<fs[k]>> \o SubSeq(fs, k + 1, Len(fs))
<1>1. SubSeq(fs, 1, Len(fs)) = fs
  OBVIOUS
<1>2. SubSeq(fs, Len(fs) + 1, Len(fs)) = <<>>
  OBVIOUS
<1>3. ASSUME NEW k \in 1 .. Len(fs)
      PROVE  SubSeq(fs, k, Len(fs)) = <<fs[k]>> \o SubSeq(fs, k + 1, Len(fs))
  <2> DEFINE a == SubSeq(fs, k, Len(fs))
             b == SubSeq(fs, k + 1, Len(fs))
  <2>1. fs[k] \in W
    OBVIOUS
  <2>2. /\ a \in Seq(W) /\ Len(a) = Len(fs) - k + 1
        /\ \A j \in 1 .. Len(fs) - k + 1 : a[j] = fs[k + j - 1]
    OBVIOUS
  <2>3. /\ b \in Seq(W) /\ Len(b) = Len(fs) - k
        /\ \A j \in 1 .. Len(fs) - k : b[j] = fs[k + j]
    OBVIOUS
  <2>4. fs[k] = a[1]
    BY <2>2
  <2> HIDE DEF a, b
  <2>5. /\ <<fs[k]>> \o b \in Seq(W) /\ Len(<<fs[k]>> \o b) = Len(fs) - k + 1
        /\ (<<fs[k]>> \o b)[1] = fs[k]
        /\ \A j \in 2 .. Len(fs) - k + 1 : (<<fs[k]>> \o b)[j] = b[j - 1]
    <3>1. <<fs[k]>> \in Seq(W) /\ Len(<<fs[k]>>) = 1 /\ <<fs[k]>>[1] = fs[k]
      BY <2>1
    <3>2. PICK h : h = <<fs[k]>>
      OBVIOUS
    <3>3. h \in Seq(W) /\ Len(h) = 1 /\ h[1] = fs[k]
      BY <3>1, <3>2
    <3>4. /\ h \o b \in Seq(W) /\ Len(h \o b) = 1 + Len(b)
          /\ (h \o b)[1] = h[1] /\ \A j \in 2 .. 1 + Len(b) : (h \o b)[j] = b[j - 1]
      <4>1. b \in Seq(W) /\ Len(b) \in Nat
        BY <2>3
      <4>2. /\ h \o b \in Seq(W) /\ Len(h \o b) = 1 + Len(b)
            /\ \A j \in 1 .. 1 + Len(b) :
                 (h \o b)[j] = IF j <= 1 THEN h[j] ELSE b[j - 1]
        <5>1. /\ h \o b \in Seq(W) /\ Len(h \o b) = Len(h) + Len(b)
              /\ \A j \in 1 .. Len(h) + Len(b) :
                   (h \o b)[j] = IF j <= Len(h) THEN h[j] ELSE b[j - Len(h)]
          <6>1. h \in Seq(W) /\ b \in Seq(W)
            BY <3>3, <4>1
          <6> QED BY ONLY <6>1, ConcatProperties
        <5> QED BY <3>3, <5>1
      <4>3. 1 \in 1 .. 1 + Len(b) /\ \A j \in 2 .. 1 + Len(b) : j \in 1 .. 1 + Len(b) /\ ~(j <= 1)
        BY <4>1
      <4> QED BY <4>2, <4>3
    <3> QED BY <2>3, <3>2, <3>3, <3>4
  <2>6. ASSUME NEW j \in 1 .. Len(fs) - k + 1 PROVE a[j] = (<<fs[k]>> \o b)[j]
    <3>1. CASE j = 1
      BY <2>4, <2>5, <3>1
    <3>2. CASE j # 1
      <4>1. j \in 2 .. Len(fs) - k + 1 /\ j - 1 \in 1 .. Len(fs) - k /\ k + (j - 1) = k + j - 1
        BY <3>2
      <4>2. b[j - 1] = fs[k + (j - 1)]
        BY <2>3, <4>1
      <4> QED BY <2>2, <2>5, <4>1, <4>2
    <3> QED BY <3>1, <3>2
  <2> DEFINE c == <<fs[k]>> \o b
  <2>7. c \in Seq(W) /\ Len(c) = Len(a) /\ \A j \in 1 .. Len(a) : a[j] = c[j]
    BY <2>2, <2>5, <2>6
  <2>8. a = c
    <3> HIDE DEF c
    <3> QED BY <2>2, <2>7
  <2> QED BY <2>8 DEF a, b
<1> QED BY <1>1, <1>2, <1>3

\* Whoever decodes the packet has its fields.
LEMMA LayoutDecodes ==
  ASSUME PacketAssumption, NEW p \in Bytes, NEW fs, NEW len, Layout(p, fs, len)
  PROVE  Decode(p, len) = fs
<1>1. PICK at : Laid(p, at, fs, len) /\ at[1] = 0
  BY DEF Layout
<1>2. fs \in Seq(Fields) /\ len \in 0 .. Size
  BY DEF Layout
<1>3. /\ Len(fs) \in Nat /\ Size \in Nat /\ Reach \in Nat /\ at[Len(fs) + 1] = len
      /\ \A k \in 1 .. Len(fs) + 1 : at[k] \in 0 .. Reach /\ at[k] <= len
  BY <1>1, <1>2, LaidType
<1>4. PICK f : IsDecode(f, p, len) /\ Decode(p, len) = f[0]
  BY <1>2, DecodeExists
<1> DEFINE n == Len(fs) + 1
           S == {k \in 1 .. n : f[at[k]] = SubSeq(fs, k, Len(fs))}
<1>5. ASSUME NEW pos \in 0 .. Reach
      PROVE  f[pos] = IF pos >= len THEN <<>> ELSE <<FieldAt(p, pos)>> \o f[pos + p[pos] + 1]
  BY <1>4 DEF IsDecode, Reach
<1>6. ASSUME NEW k \in 1 .. n, \A j \in k + 1 .. n : j \in S PROVE k \in S
  <2>1. CASE k = n
    <3>1. at[k] = len /\ len \in 0 .. Reach /\ len \in Nat
      BY <1>2, <1>3, <2>1
    <3>2. f[at[k]] = <<>>
      <4>1. len >= len
        BY <3>1
      <4>2. f[len] = <<>>
        BY <1>5, <3>1, <4>1
      <4> QED BY <3>1, <4>2
    <3>3. SubSeq(fs, k, Len(fs)) = <<>>
      BY <1>2, <2>1, Onwards
    <3> QED BY <3>2, <3>3
  <2>2. CASE k # n
    <3>1. k \in 1 .. Len(fs) /\ k + 1 \in k + 1 .. n
      BY <1>3, <2>2
    <3>2. /\ at[k] \in 0 .. Reach /\ at[k] \in Nat /\ at[k] < len
          /\ at[k + 1] = at[k] + p[at[k]] + 1 /\ fs[k] = FieldAt(p, at[k])
      <4>1. Lies(p, at, fs, len, k)
        BY <1>1, <1>2, <3>1, LaidField
      <4> QED BY <4>1 DEF Lies
    <3>3. ~(at[k] >= len)
      BY <1>2, <3>2
    <3>4. f[at[k]] = <<fs[k]>> \o f[at[k + 1]]
      BY <1>5, <3>2, <3>3
    <3>5. f[at[k + 1]] = SubSeq(fs, k + 1, Len(fs))
      BY <1>6, <3>1
    <3>6. SubSeq(fs, k, Len(fs)) = <<fs[k]>> \o SubSeq(fs, k + 1, Len(fs))
      BY <1>2, <3>1, Onwards
    <3> QED BY <3>4, <3>5, <3>6
  <2> QED BY <2>1, <2>2
<1>7. 1 .. n \subseteq S
  <2>1. n \in Nat
    BY <1>3
  <2> HIDE DEF S, n
  <2>2. Inherits(1, n, S)
    BY <1>6 DEF Inherits
  <2>3. 1 \in Nat
    OBVIOUS
  <2> QED BY ONLY <2>1, <2>2, <2>3, DownInduction
<1>8. 1 \in S
  <2>1. 1 \in 1 .. n
    BY <1>3
  <2> HIDE DEF S, n
  <2> QED BY <1>7, <2>1
<1>9. f[at[1]] = fs
  BY <1>2, <1>8, Onwards
<1> QED BY <1>1, <1>4, <1>9

\* The first field of a type is the one that is found.
LEMMA LayoutFinds ==
  ASSUME PacketAssumption, NEW p \in Bytes, NEW fs, NEW len, Layout(p, fs, len),
         NEW i \in 1 .. Len(fs)
  PROVE  /\ Field(p, fs[i].type) # NotFound
         /\ \E j \in 1 .. i : fs[j] = [type |-> fs[i].type,
                                       data |-> DataAt(p, Field(p, fs[i].type))]
<1>1. PICK at : Laid(p, at, fs, len) /\ at[1] = 0
  BY DEF Layout
<1>2. fs \in Seq(Fields) /\ len \in 0 .. Size
  BY DEF Layout
<1>3. /\ Len(fs) \in Nat /\ Size \in Nat /\ Reach \in Nat
      /\ \A k \in 1 .. Len(fs) + 1 : at[k] \in 0 .. Reach /\ at[k] <= len
  BY <1>1, <1>2, LaidType
<1>4. PICK type : type = fs[i].type
  OBVIOUS
<1>5. PICK f : IsField(f, p, type) /\ Field(p, type) = f[0]
  BY FieldExists
<1>6. PICK first \in 1 .. i : /\ fs[first].type = type
                              /\ \A k \in 1 .. first - 1 : fs[k].type # type
  <2> DEFINE T == {k \in 1 .. i : fs[k].type = type}
  <2>1. T \subseteq Nat /\ i \in T
    BY <1>4
  <2>2. PICK n \in T : \A k \in T : n <= k
    <3> HIDE DEF T
    <3>1. T # {}
      BY <2>1
    <3> QED BY <2>1, <3>1, SmallestOf
  <2>3. n \in 1 .. i /\ fs[n].type = type
    OBVIOUS
  <2>4. ASSUME NEW k \in 1 .. n - 1 PROVE fs[k].type # type
    <3>1. k \in 1 .. i /\ ~(n <= k)
      BY <2>3
    <3> QED BY <2>2, <3>1
  <2> QED BY <2>3, <2>4
<1>7. first \in 1 .. Len(fs) /\ first \in Nat
  BY <1>3
<1> DEFINE none(pos) == pos >= Size - 2 \/ p[pos + 1] = 0
           S == {k \in 1 .. first : f[at[k]] = at[first]}
<1>8. ASSUME NEW pos \in 0 .. Reach
      PROVE  f[pos] = IF none(pos) THEN NotFound
                      ELSE IF p[pos + 1] = type THEN pos ELSE f[pos + p[pos] + 1]
  BY <1>5 DEF IsField, Reach
<1>9. ASSUME NEW k \in 1 .. first
      PROVE  /\ k \in 1 .. Len(fs) /\ at[k] \in 0 .. Reach /\ ~none(at[k])
             /\ fs[k].type = p[at[k] + 1] /\ at[k + 1] = at[k] + p[at[k]] + 1
  <2>1. k \in 1 .. Len(fs)
    BY <1>3, <1>7
  <2>2. /\ at[k] \in 0 .. Size - 3 /\ at[k] \in 0 .. Reach /\ p[at[k] + 1] # 0
        /\ fs[k].type = p[at[k] + 1] /\ at[k + 1] = at[k] + p[at[k]] + 1
    <3>1. Lies(p, at, fs, len, k)
      BY <1>1, <1>2, <2>1, LaidField
    <3> QED BY <3>1 DEF Lies
  <2>3. ~(at[k] >= Size - 2)
    BY <1>3, <2>2
  <2>4. ~none(at[k])
    BY <2>2, <2>3
  <2> QED BY <2>1, <2>2, <2>4
<1>10. ASSUME NEW k \in 1 .. first, \A j \in k + 1 .. first : j \in S PROVE k \in S
  <2>1. CASE k = first
    <3> HIDE DEF none
    <3> QED BY <1>6, <1>8, <1>9, <2>1
  <2>2. CASE k # first
    <3>1. k \in 1 .. first - 1 /\ k + 1 \in k + 1 .. first
      BY <1>7, <2>2
    <3>2. fs[k].type # type
      BY <1>6, <3>1
    <3>3. f[at[k]] = f[at[k + 1]]
      <4> HIDE DEF none
      <4> QED BY <1>8, <1>9, <3>2
    <3> QED BY <1>10, <3>1, <3>3
  <2> QED BY <2>1, <2>2
<1>11. 1 .. first \subseteq S
  <2> HIDE DEF S
  <2>1. Inherits(1, first, S)
    BY <1>10 DEF Inherits
  <2>2. first \in Nat /\ 1 \in Nat
    BY <1>7
  <2> QED BY ONLY <2>1, <2>2, DownInduction
<1>12. f[at[1]] = at[first]
  <2>1. 1 \in 1 .. first
    BY <1>7
  <2> QED BY <1>11, <2>1
<1>13. Field(p, type) = at[first]
  BY <1>1, <1>5, <1>12
<1>14. at[first] # NotFound /\ fs[first] = FieldAt(p, at[first])
  <2>1. at[first] \in 0 .. Size - 3 /\ fs[first] = FieldAt(p, at[first])
    <3>1. Lies(p, at, fs, len, first)
      BY <1>1, <1>2, <1>7, LaidField
    <3> QED BY <3>1 DEF Lies
  <2> QED BY <1>3, <2>1 DEF NotFound
<1>15. fs[first] = [type |-> type, data |-> DataAt(p, at[first])]
  <2>1. fs[first] = [type |-> p[at[first] + 1], data |-> DataAt(p, at[first])]
    BY <1>14 DEF FieldAt
  <2>2. p[at[first] + 1] = type
    <3>1. first \in 1 .. first
      BY <1>7
    <3> QED BY <1>6, <1>9, <3>1
  <2> QED BY <2>1, <2>2
<1> QED BY <1>4, <1>13, <1>14, <1>15

----------------------------------------------------------------------------
\* The fields are still there in a packet that has the same bytes so far.
LEMMA LaidSame ==
  ASSUME PacketAssumption, NEW p \in Bytes, NEW r \in Bytes, NEW fs \in Seq(Fields),
         NEW len \in 0 .. Size, NEW at, Laid(p, at, fs, len),
         \A k \in 0 .. Size - 1 : k < len => r[k] = p[k]
  PROVE  Laid(r, at, fs, len)
<1>1. ASSUME NEW i \in 1 .. Len(fs)
      PROVE  /\ at[i] < Size - 2 /\ r[at[i]] >= 1 /\ r[at[i] + 1] # 0
             /\ at[i + 1] = at[i] + r[at[i]] + 1
             /\ fs[i] = FieldAt(r, at[i])
  <2>1. /\ Size \in Nat /\ len \in Nat /\ at[i] \in 0 .. Size - 3
        /\ p[at[i]] \in 1 .. 255 /\ p[at[i] + 1] # 0
        /\ at[i + 1] = at[i] + p[at[i]] + 1 /\ at[i] + p[at[i]] + 1 <= len
        /\ fs[i] = FieldAt(p, at[i])
    <3>1. Lies(p, at, fs, len, i)
      BY LaidField
    <3> QED BY <3>1 DEF Lies
  <2>2. PICK x \in 0 .. Size - 3 : x = at[i]
    BY <2>1
  <2>3. PICK n \in 1 .. 255 : n = p[x]
    BY <2>1, <2>2
  <2>4. x + n + 1 <= len /\ len <= Size
    BY <2>1, <2>2, <2>3
  <2>5. /\ x \in 0 .. Size - 1 /\ x < len /\ x + 1 \in 0 .. Size - 1 /\ x + 1 < len
    <3>1. Size \in Nat /\ len \in Nat /\ x \in Nat /\ n \in Nat /\ n >= 1
      BY <2>1
    <3>2. x + 1 < len
      BY <2>4, <3>1
    <3> QED BY <2>4, <3>1, <3>2
  <2>6. r[x] = p[x] /\ r[x + 1] = p[x + 1]
    BY <2>5
  <2>7. DataAt(r, x) = DataAt(p, x)
    <3>1. ASSUME NEW k \in 1 .. n - 1 PROVE r[x + 1 + k] = p[x + 1 + k]
      <4>1. x + 1 + k \in 0 .. Size - 1 /\ x + 1 + k < len
        BY <2>1, <2>4
      <4> QED BY <4>1
    <3> QED BY <2>3, <2>6, <3>1 DEF DataAt
  <2>8. FieldAt(r, x) = FieldAt(p, x)
    BY <2>6, <2>7 DEF FieldAt
  <2>9. at[i] < Size - 2 /\ p[at[i]] >= 1
    BY DEF Laid
  <2> QED BY <2>1, <2>2, <2>6, <2>8, <2>9
<1> QED BY <1>1 DEF Laid

\* What a field of the payload is.
LEMMA FieldAtType ==
  ASSUME PacketAssumption, NEW p \in Bytes, NEW pos \in 0 .. Size - 3, p[pos] >= 1,
         pos + p[pos] + 1 <= Size
  PROVE  FieldAt(p, pos) \in Fields
<1>1. Size \in Nat /\ pos \in Nat /\ pos < Size - 1 /\ pos < Size /\ pos \in 0 .. Reach
  BY DEF PacketAssumption, Reach
<1>2. p[pos] \in 0 .. 255 /\ p[pos + 1] \in 0 .. 255
  BY <1>1, NextInReach
<1>3. PICK n \in 1 .. 255 : n = p[pos]
  <2>1. PICK m \in 0 .. 255 : m = p[pos]
    BY <1>2
  <2>2. m \in 1 .. 255
    BY <2>1
  <2> QED BY <2>1, <2>2
<1>4. ASSUME NEW k \in 1 .. n - 1 PROVE p[pos + 1 + k] \in 0 .. 255
  <2>1. pos + n + 1 <= Size
    BY <1>3
  <2>2. pos + 1 + k \in 0 .. Size - 1
    BY <1>1, <2>1
  <2> QED BY <2>2 DEF Bytes
<1>5. [k \in 1 .. n - 1 |-> p[pos + 1 + k]] \in Seq(0 .. 255)
  <2>1. n - 1 \in Nat
    OBVIOUS
  <2>2. [k \in 1 .. n - 1 |-> p[pos + 1 + k]] \in [1 .. n - 1 -> 0 .. 255]
    BY <1>4
  <2> DEFINE d == [k \in 1 .. n - 1 |-> p[pos + 1 + k]]
  <2>3. \E m \in Nat : d \in [1 .. m -> 0 .. 255]
    BY <2>1, <2>2
  <2> HIDE DEF d
  <2>4. d \in Seq(0 .. 255)
    BY <2>3, SeqDef
  <2> QED BY <2>4 DEF d
<1>6. DataAt(p, pos) \in Seq(0 .. 255)
  BY <1>3, <1>5 DEF DataAt
<1> QED BY <1>2, <1>6 DEF FieldAt, Fields

\* One field in front of those that are laid from where it ends.
LEMMA LaidFront ==
  ASSUME PacketAssumption, NEW p \in Bytes, NEW fs \in Seq(Fields), NEW len \in 0 .. Size,
         NEW at, Laid(p, at, fs, len), NEW pos \in 0 .. Size - 3,
         p[pos] >= 1, p[pos + 1] # 0, at[1] = pos + p[pos] + 1,
         FieldAt(p, pos) \in Fields
  PROVE  \E e : e[1] = pos /\ Laid(p, e, <<FieldAt(p, pos)>> \o fs, len)
<1> DEFINE e   == [k \in 1 .. Len(fs) + 2 |-> IF k = 1 THEN pos ELSE at[k - 1]]
           all == <<FieldAt(p, pos)>> \o fs
<1>1. /\ Len(fs) \in Nat /\ Size \in Nat /\ len \in Nat /\ at[Len(fs) + 1] = len
      /\ at \in [1 .. Len(fs) + 1 -> 0 .. len]
  BY DEF PacketAssumption, Laid
<1>2. /\ Len(all) = Len(fs) + 1 /\ all[1] = FieldAt(p, pos)
      /\ \A k \in 2 .. Len(fs) + 1 : all[k] = fs[k - 1]
  OBVIOUS
<1>3. pos < len
  <2>1. at[1] \in 0 .. len
    BY <1>1
  <2>2. PICK n \in 0 .. 255 : n = p[pos]
    <3>1. pos \in 0 .. Reach /\ pos < Size
      BY <1>1 DEF Reach
    <3> QED BY <3>1, NextInReach
  <2> QED BY <1>1, <2>1, <2>2
<1>4. ASSUME NEW k \in 1 .. Len(fs) + 2 PROVE e[k] \in 0 .. len
  <2>1. CASE k = 1
    BY <1>1, <1>3, <2>1
  <2>2. CASE k # 1
    <3>1. k - 1 \in 1 .. Len(fs) + 1
      BY <1>1, <2>2
    <3> QED BY <1>1, <2>2, <3>1
  <2> QED BY <2>1, <2>2
<1>5. e[1] = pos /\ \A k \in 2 .. Len(fs) + 2 : e[k] = at[k - 1]
  BY <1>1
<1>6. e \in [1 .. Len(all) + 1 -> 0 .. len]
  <2> HIDE DEF all
  <2> QED BY <1>1, <1>2, <1>4
<1> HIDE DEF e, all
<1>7. e[Len(all) + 1] = len
  BY <1>1, <1>2, <1>5
<1>8. ASSUME NEW i \in 1 .. Len(all)
      PROVE  /\ e[i] < Size - 2 /\ p[e[i]] >= 1 /\ p[e[i] + 1] # 0
             /\ e[i + 1] = e[i] + p[e[i]] + 1
             /\ all[i] = FieldAt(p, e[i])
  <2>1. CASE i = 1
    <3>1. e[1] = pos /\ e[2] = at[1] /\ all[1] = FieldAt(p, pos) /\ pos < Size - 2
      BY <1>1, <1>2, <1>5
    <3> QED BY <2>1, <3>1
  <2>2. CASE i # 1
    <3>1. i - 1 \in 1 .. Len(fs) /\ i \in 2 .. Len(fs) + 1 /\ i + 1 \in 2 .. Len(fs) + 2
          /\ (i - 1) + 1 = i /\ (i + 1) - 1 = i
      BY <1>1, <1>2, <2>2
    <3>2. e[i] = at[i - 1] /\ e[i + 1] = at[i] /\ all[i] = fs[i - 1]
      BY <1>2, <1>5, <3>1
    <3>3. LET h == i - 1 IN
            /\ at[h] < Size - 2 /\ p[at[h]] >= 1 /\ p[at[h] + 1] # 0
            /\ at[h + 1] = at[h] + p[at[h]] + 1 /\ fs[h] = FieldAt(p, at[h])
      BY <3>1 DEF Laid
    <3> QED BY <3>1, <3>2, <3>3
  <2> QED BY <2>1, <2>2
<1>9. Laid(p, e, all, len)
  BY <1>6, <1>7, <1>8 DEF Laid
<1> QED BY <1>5, <1>9 DEF all

\* Nothing is laid at the end.
LEMMA LaidNothing ==
  ASSUME NEW p, NEW len \in Nat
  PROVE  \E at : at[1] = len /\ Laid(p, at, <<>>, len)
<1> DEFINE at == [k \in 1 .. 1 |-> len]
<1>1. at \in [1 .. Len(<<>>) + 1 -> 0 .. len] /\ at[1] = len /\ Len(<<>>) = 0
  OBVIOUS
<1> HIDE DEF at
<1>2. Laid(p, at, <<>>, len)
  BY <1>1 DEF Laid
<1> QED BY <1>1, <1>2

\* What was sent is what was parsed, or has an empty field more, in the last two
\* bytes.
EmptyField(type) == [type |-> type, data |-> <<>>]
Ahead(all, fs, len) ==
  \/ all = fs
  \/ len = Size - 2 /\ \E type \in 0 .. 255 : all = fs \o <<EmptyField(type)>>

\* What the parser has read when it stops are fields, one after the other.
LEMMA ParsedIsLaid ==
  ASSUME PacketAssumption, NEW source \in Bytes, NEW size \in Nat, size = Size
  PROVE  LET len == Parse(source, size).length
             fs  == Decode(source, len)
         IN  /\ len \in 0 .. size /\ fs \in Seq(Fields)
             /\ \E at : Laid(source, at, fs, len) /\ at[1] = 0
             /\ Ahead(Sent(source), fs, len)
<1>1. Size \in Nat /\ Size >= 3 /\ Reach \in Nat /\ 0 \in 0 .. Reach
  BY DEF PacketAssumption, Reach
<1>2. PICK f : IsParse(f, source, size) /\ Parse(source, size) = f[0]
  BY ParseExists
<1>3. PICK len : len = Parse(source, size).length
  OBVIOUS
<1>4. len \in 0 .. size /\ len \in 0 .. Size /\ len \in 0 .. Reach
  <2>1. 0 <= size
    OBVIOUS
  <2>2. \A pos \in 0 .. Reach : /\ f[pos].length \in pos .. Reach
                                /\ pos <= size => f[pos].length <= size
    BY <1>2, ParseEnds
  <2>3. f[0].length \in 0 .. Reach /\ (0 <= size => f[0].length <= size)
    BY <1>1, <2>2
  <2> QED BY <1>1, <1>2, <1>3, <2>1, <2>3
<1>5. PICK d : IsDecode(d, source, len) /\ Decode(source, len) = d[0]
  BY <1>4, DecodeExists
<1>a. PICK a : IsSent(a, source) /\ Sent(source) = a[0]
  BY SentExists
<1>b. ASSUME NEW pos \in 0 .. Reach
      PROVE  a[pos] = IF NoneAt(source, pos) THEN <<>>
                      ELSE <<FieldAt(source, pos)>> \o a[pos + source[pos] + 1]
  BY <1>a DEF IsSent, Reach
<1> DEFINE From(pos) == /\ d[pos] \in Seq(Fields)
                        /\ \E at : at[1] = pos /\ Laid(source, at, d[pos], len)
                        /\ Ahead(a[pos], d[pos], len)
           S == {pos \in 0 .. Reach : pos <= size /\ f[pos].length = len => From(pos)}
           ends(pos)  == pos >= size - 2 \/ pos >= Size - 2 \/ source[pos + 1] = 0
           fails(pos) == source[pos] < 1 \/ pos + source[pos] + 1 > size
<1>6. ASSUME NEW pos \in 0 .. Reach
      PROVE  f[pos] = IF ends(pos) THEN [ok |-> TRUE, length |-> pos]
                      ELSE IF fails(pos) THEN [ok |-> FALSE, length |-> pos]
                      ELSE f[pos + source[pos] + 1]
  BY <1>2 DEF IsParse, Reach
<1>7. ASSUME NEW pos \in 0 .. Reach
      PROVE  d[pos] = IF pos >= len THEN <<>>
                      ELSE <<FieldAt(source, pos)>> \o d[pos + source[pos] + 1]
  BY <1>5 DEF IsDecode, Reach
<1>8. ASSUME NEW pos \in 0 .. Reach, \A j \in pos + 1 .. Reach : j \in S PROVE pos \in S
  <2> SUFFICES ASSUME pos <= size, f[pos].length = len PROVE From(pos)
    OBVIOUS
  <2>1. CASE ends(pos) \/ fails(pos)
    <3>1. f[pos].length = pos
      <4>1. f[pos] = IF ends(pos) THEN [ok |-> TRUE, length |-> pos]
                     ELSE IF fails(pos) THEN [ok |-> FALSE, length |-> pos]
                     ELSE f[pos + source[pos] + 1]
        <5> HIDE DEF ends, fails
        <5> QED BY <1>6
      <4> HIDE DEF ends, fails
      <4>2. f[pos] = [ok |-> TRUE, length |-> pos] \/ f[pos] = [ok |-> FALSE, length |-> pos]
        BY <2>1, <4>1
      <4> QED BY <4>2
    <3>2. len = pos /\ pos >= len /\ len \in Nat
      BY <1>4, <3>1
    <3>3. d[pos] = <<>>
      BY <1>7, <3>2
    <3>4. \E at : at[1] = pos /\ Laid(source, at, d[pos], len)
      <4>1. \E at : at[1] = len /\ Laid(source, at, <<>>, len)
        BY <3>2, LaidNothing
      <4> QED BY <3>2, <3>3, <4>1
    <3>5. Ahead(a[pos], d[pos], len)
      <4>1. CASE NoneAt(source, pos)
        BY <1>b, <3>3, <4>1 DEF Ahead
      <4>2. CASE ~NoneAt(source, pos)
        <5>1. /\ pos + 2 <= Size /\ pos < Size /\ pos < Size - 1 /\ source[pos + 1] # 0
              /\ ~(source[pos] < 1) /\ ~(pos + source[pos] + 1 > Size)
          BY <1>1, <4>2 DEF NoneAt
        <5>2. pos = Size - 2
          <6>1. ~fails(pos)
            BY <5>1
          <6>2. pos >= Size - 2
            BY <2>1, <5>1, <6>1
          <6> QED BY <1>1, <5>1, <6>2
        <5>3. source[pos] \in 0 .. 255 /\ source[pos + 1] \in 0 .. 255
          BY <5>1, NextInReach
        <5>4. PICK n \in 0 .. 255 : n = source[pos]
          BY <5>3
        <5>5. n = 1
          BY <1>1, <5>1, <5>2, <5>4
        <5>6. FieldAt(source, pos) = EmptyField(source[pos + 1])
          <6>1. DataAt(source, pos) = <<>>
            BY <5>4, <5>5 DEF DataAt
          <6> QED BY <6>1 DEF FieldAt, EmptyField
        <5>7. pos + source[pos] + 1 = Size /\ Size \in 0 .. Reach
          BY <1>1, <5>2, <5>4, <5>5 DEF Reach
        <5>8. a[Size] = <<>>
          <6>1. NoneAt(source, Size)
            BY <1>1 DEF NoneAt
          <6> QED BY <1>b, <5>7, <6>1
        <5>9. a[pos] = <<EmptyField(source[pos + 1])>> \o <<>>
          BY <1>b, <4>2, <5>6, <5>7, <5>8
        <5>10. a[pos] = d[pos] \o <<EmptyField(source[pos + 1])>>
          BY <3>3, <5>9
        <5> QED BY <3>2, <5>2, <5>3, <5>10 DEF Ahead
      <4> QED BY <4>1, <4>2
    <3> QED BY <3>3, <3>4, <3>5
  <2>2. CASE ~ends(pos) /\ ~fails(pos)
    <3>1. /\ pos < Size /\ pos \in 0 .. Size - 3 /\ pos < Size - 1
          /\ source[pos + 1] # 0 /\ ~(source[pos] < 1)
          /\ ~(pos + source[pos] + 1 > size)
      BY <1>1, <2>2
    <3>2. source[pos] \in 0 .. 255 /\ pos + source[pos] + 1 \in pos + 1 .. Reach
      <4>1. pos < Size
        BY <3>1
      <4>2. pos \in 0 .. Reach
        BY <1>8
      <4>3. /\ source[pos] \in 0 .. 255 /\ pos + source[pos] + 1 \in pos + 1 .. Reach
            /\ pos < Size - 1 => source[pos + 1] \in 0 .. 255
        BY ONLY PacketAssumption, source \in Bytes, <4>1, <4>2, NextInReach
      <4> QED BY <4>3
    <3>3. source[pos] >= 1 /\ pos + source[pos] + 1 <= size /\ pos + source[pos] + 1 <= Size
      <4>1. PICK n \in 0 .. 255 : n = source[pos]
        BY <3>2
      <4> QED BY <1>1, <3>1, <4>1
    <3>4. f[pos] = f[pos + source[pos] + 1]
      <4> HIDE DEF ends, fails
      <4> QED BY <1>6, <2>2
    <3>5. PICK next : next = pos + source[pos] + 1
      OBVIOUS
    <3>6. next \in pos + 1 .. Reach /\ next <= size /\ f[next].length = len
      BY <3>2, <3>3, <3>4, <3>5
    <3>7. next \in S
      BY <1>8, <3>6
    <3>8. From(next)
      BY <3>6, <3>7
    <3>9. len >= next
      <4>1. next \in 0 .. Reach
        BY <3>6
      <4>2. \A k \in 0 .. Reach : /\ f[k].length \in k .. Reach
                                  /\ k <= size => f[k].length <= size
        BY <1>2, ParseEnds
      <4>3. f[next].length \in next .. Reach
        BY ONLY <4>1, <4>2
      <4> QED BY <3>6, <4>3
    <3>10. ~(pos >= len)
      BY <1>4, <3>6, <3>9
    <3>11. d[pos] = <<FieldAt(source, pos)>> \o d[next]
      BY <1>7, <3>5, <3>10
    <3>12. FieldAt(source, pos) \in Fields
      BY <3>1, <3>3, FieldAtType
    <3>13. PICK at : at[1] = next /\ Laid(source, at, d[next], len)
      BY <3>8
    <3>14. d[next] \in Seq(Fields)
      BY <3>8
    <3>15. \E e : e[1] = pos /\ Laid(source, e, <<FieldAt(source, pos)>> \o d[next], len)
      BY <1>4, <3>1, <3>3, <3>5, <3>12, <3>13, <3>14, LaidFront
    <3>16. d[pos] \in Seq(Fields)
      BY <3>11, <3>12, <3>14
    <3>17. ~NoneAt(source, pos)
      BY <1>1, <3>1, <3>3 DEF NoneAt
    <3>18. a[pos] = <<FieldAt(source, pos)>> \o a[next]
      BY <1>b, <3>5, <3>17
    <3>19. Ahead(a[pos], d[pos], len)
      <4>1. Ahead(a[next], d[next], len)
        BY <3>8
      <4>2. CASE a[next] = d[next]
        BY <3>11, <3>18, <4>2 DEF Ahead
      <4>3. CASE a[next] # d[next]
        <5>1. len = Size - 2
          BY <4>1, <4>3 DEF Ahead
        <5>2. PICK type \in 0 .. 255 : a[next] = d[next] \o <<EmptyField(type)>>
          BY <4>1, <4>3 DEF Ahead
        <5>3. <<FieldAt(source, pos)>> \in Seq(Fields) /\ <<EmptyField(type)>> \in Seq(Fields)
          <6>1. EmptyField(type) \in Fields
            BY DEF EmptyField, Fields
          <6> QED BY <3>12, <6>1
        <5>4. a[pos] = (<<FieldAt(source, pos)>> \o d[next]) \o <<EmptyField(type)>>
          <6>1. PICK u \in Seq(Fields) : u = <<FieldAt(source, pos)>>
            BY <5>3
          <6>2. PICK v \in Seq(Fields) : v = d[next]
            BY <3>14
          <6>3. PICK w \in Seq(Fields) : w = <<EmptyField(type)>>
            BY <5>3
          <6>4. (u \o v) \o w = u \o (v \o w)
            BY ONLY u \in Seq(Fields), v \in Seq(Fields), w \in Seq(Fields), ConcatAssociative, SMTT(30)
          <6>5. a[pos] = u \o (v \o w)
            BY <3>18, <5>2, <6>1, <6>2, <6>3
          <6> QED BY <6>1, <6>2, <6>3, <6>4, <6>5
        <5> QED BY <3>11, <5>1, <5>4 DEF Ahead
      <4> QED BY <4>2, <4>3
    <3> QED BY <3>11, <3>15, <3>16, <3>19
  <2> QED BY <2>1, <2>2
<1>9. 0 .. Reach \subseteq S
  <2> HIDE DEF S
  <2>1. Inherits(0, Reach, S)
    BY <1>8 DEF Inherits
  <2>2. Reach \in Nat /\ 0 \in Nat
    BY <1>1
  <2> QED BY ONLY <2>1, <2>2, DownInduction
<1>10. 0 \in S /\ f[0].length = len
  BY <1>1, <1>2, <1>3, <1>9
<1>11. From(0)
  BY <1>10
<1> QED BY <1>3, <1>4, <1>5, <1>11, <1>a

\* setPayload lays out what it parsed.
LEMMA CopiedLayout ==
  ASSUME PacketAssumption, NEW source \in Bytes, NEW size \in Nat, size = Size,
         NEW len, len = Parse(source, size).length, NEW p,
         p = [i \in 0 .. Size - 1 |-> IF i < len THEN source[i] ELSE 0]
  PROVE  Layout(p, Decode(source, len), len)
<1>1. PICK fs : fs = Decode(source, len)
  OBVIOUS
<1>2. len \in 0 .. size /\ fs \in Seq(Fields) /\ Size \in Nat
  BY <1>1, ParsedIsLaid DEF PacketAssumption
<1>3. PICK at : Laid(source, at, fs, len) /\ at[1] = 0
  BY <1>1, ParsedIsLaid
<1>4. len \in 0 .. Size /\ len \in Nat
  BY <1>2
<1>5. p \in Bytes
  <2>1. \A i \in 0 .. Size - 1 : source[i] \in 0 .. 255
    BY DEF Bytes
  <2> QED BY <2>1 DEF Bytes
<1>6. \A k \in 0 .. Size - 1 : k < len => p[k] = source[k]
  OBVIOUS
<1>7. len < Size - 2 => \A k \in len .. Size - 1 : p[k] = 0
  BY <1>4
<1>8. Laid(p, at, fs, len)
  BY <1>2, <1>3, <1>4, <1>5, <1>6, LaidSame
<1> QED BY <1>1, <1>2, <1>3, <1>4, <1>7, <1>8 DEF Layout

\* There is room for the data of a field behind the packet's length.
Fits(len, data) == len + Len(data) + 2 <= Size

\* What is stored there leaves the bytes before and behind it.
Holds(p, len, type, data, r) ==
  /\ r \in Bytes /\ Len(data) \in 0 .. 253 /\ Len(data) \in Nat
  /\ data \in Seq(0 .. 255) /\ type \in 1 .. 255
  /\ \A k \in 0 .. Size - 1 : k < len => r[k] = p[k]
  /\ r[len] = Len(data) + 1 /\ r[len + 1] = type
  /\ \A k \in 1 .. Len(data) : r[len + 1 + k] = data[k]
  /\ \A k \in len + Len(data) + 2 .. Size - 1 : r[k] = p[k]

LEMMA StoredType ==
  ASSUME PacketAssumption, NEW p \in Bytes, NEW len \in Nat, NEW type \in Types,
         NEW data \in Values, Fits(len, data),
         NEW r, r = Stored(p, len, type, data)
  PROVE  Holds(p, len, type, data, r)
<1> DEFINE n == Len(data)
<1>1. /\ data \in Seq(0 .. 255) /\ type \in 1 .. 255 /\ Size \in 3 .. 255
  BY DEF PacketAssumption
<1>2. n \in Nat /\ n \in 0 .. 253 /\ \A k \in 1 .. n : data[k] \in 0 .. 255
  <2>1. n \in Nat /\ \A k \in 1 .. n : data[k] \in 0 .. 255
    <3>1. data \in Seq(0 .. 255)
      BY <1>1
    <3> QED BY ONLY <3>1, ElementOfSeq, LenProperties
  <2>2. len + n + 2 <= Size
    BY DEF Fits
  <2> HIDE DEF n
  <2>3. n <= 253
    BY <1>1, <2>1, <2>2
  <2> QED BY <2>1, <2>3
<1> HIDE DEF n
<1>3. len + n + 2 <= Size
  BY DEF n, Fits
<1>4. r = [i \in 0 .. Size - 1 |->
             CASE i = len -> n + 1
               [] i = len + 1 -> type
               [] i \in len + 2 .. len + 1 + n -> data[i - len - 1]
               [] OTHER -> p[i]]
  BY DEF Stored, n
<1>5. ASSUME NEW k \in 0 .. Size - 1, k < len \/ k > len + 1 + n PROVE r[k] = p[k]
  <2>1. k # len /\ k # len + 1 /\ k \notin len + 2 .. len + 1 + n
    BY <1>2, <1>5
  <2> QED BY <1>4, <2>1
<1>6. r[len] = n + 1 /\ r[len + 1] = type
  <2>1. len \in 0 .. Size - 1 /\ len + 1 \in 0 .. Size - 1 /\ len + 1 # len
    BY <1>1, <1>2, <1>3
  <2>2. len \notin len + 2 .. len + 1 + n /\ len + 1 \notin len + 2 .. len + 1 + n
    BY <1>2
  <2> QED BY <1>4, <2>1, <2>2
<1>7. ASSUME NEW k \in 1 .. n PROVE r[len + 1 + k] = data[k]
  <2>1. PICK i : i = len + 1 + k
    OBVIOUS
  <2>2. i \in 0 .. Size - 1 /\ i \in len + 2 .. len + 1 + n /\ i # len /\ i # len + 1
        /\ i - len - 1 = k
    BY <1>1, <1>2, <1>3, <2>1
  <2>3. r[i] = data[i - len - 1]
    BY <1>4, <2>2
  <2> QED BY <2>1, <2>2, <2>3
<1>8. ASSUME NEW k \in 0 .. Size - 1 PROVE r[k] \in 0 .. 255
  <2>1. CASE k < len \/ k > len + 1 + n
    <3>1. p[k] \in 0 .. 255
      BY DEF Bytes
    <3> QED BY <1>5, <2>1, <3>1
  <2>2. CASE k = len \/ k = len + 1
    <3>1. n + 1 \in 0 .. 255 /\ type \in 0 .. 255
      BY <1>1, <1>2
    <3>2. CASE k = len
      BY <1>6, <3>1, <3>2
    <3>3. CASE k = len + 1
      BY <1>6, <3>1, <3>3
    <3> QED BY <2>2, <3>2, <3>3
  <2>3. CASE k > len + 1 /\ k <= len + 1 + n
    <3>1. PICK j : j = k - len - 1
      OBVIOUS
    <3>2. j \in 1 .. n /\ k = len + 1 + j
      BY <1>2, <2>3, <3>1
    <3> QED BY <1>2, <1>7, <3>2
  <2> QED BY <1>2, <2>1, <2>2, <2>3
<1>9. r \in Bytes
  <2>1. r = [k \in 0 .. Size - 1 |-> r[k]]
    BY <1>4
  <2> QED BY <1>8, <2>1 DEF Bytes
<1>10. \A k \in len + n + 2 .. Size - 1 : r[k] = p[k]
  <2> SUFFICES ASSUME NEW k \in len + n + 2 .. Size - 1 PROVE r[k] = p[k]
    OBVIOUS
  <2>1. k \in 0 .. Size - 1 /\ k > len + 1 + n
    BY <1>1, <1>2
  <2> QED BY <1>5, <2>1
<1>11. \A k \in 0 .. Size - 1 : k < len => r[k] = p[k]
  BY <1>5
<1> QED BY <1>1, <1>2, <1>6, <1>7, <1>9, <1>10, <1>11 DEF n, Holds

\* A field that is stored where the loops still look is laid behind the others.
LEMMA StoredLayout ==
  ASSUME PacketAssumption, NEW p \in Bytes, NEW fs, NEW len, Layout(p, fs, len),
         NEW type \in Types, NEW data \in Values, Fits(len, data), len < Size - 2
  PROVE  Layout(Stored(p, len, type, data), Append(fs, [type |-> type, data |-> data]),
                len + Len(data) + 2)
<1>1. /\ fs \in Seq(Fields) /\ len \in 0 .. Size /\ len \in Nat /\ Size \in Nat
      /\ \A k \in len .. Size - 1 : p[k] = 0
  BY DEF Layout, PacketAssumption
<1>2. PICK at : Laid(p, at, fs, len) /\ at[1] = 0
  BY DEF Layout
<1>3. PICK r : r = Stored(p, len, type, data)
  OBVIOUS
<1>4. PICK n : n = Len(data)
  OBVIOUS
<1>5. /\ r \in Bytes /\ n \in 0 .. 253
      /\ data \in Seq(0 .. 255) /\ type \in 1 .. 255
      /\ \A k \in 0 .. Size - 1 : k < len => r[k] = p[k]
      /\ r[len] = n + 1 /\ r[len + 1] = type
      /\ \A k \in 1 .. n : r[len + 1 + k] = data[k]
      /\ \A k \in len + n + 2 .. Size - 1 : r[k] = p[k]
  <2>1. Holds(p, len, type, data, r)
    BY <1>1, <1>3, StoredType
  <2> QED BY <1>4, <2>1 DEF Holds
<1>6. PICK end : end = len + n + 2
  OBVIOUS
<1>7. end \in 0 .. Size /\ len < Size - 2 /\ len < end /\ end <= Size /\ end \in Nat
  <2>1. end <= Size
    BY <1>4, <1>6 DEF Fits
  <2>2. n \in Nat
    BY <1>5
  <2> QED BY <1>1, <1>6, <2>1, <2>2
<1>8. FieldAt(r, len) = [type |-> type, data |-> data]
  <2>1. DataAt(r, len) = [k \in 1 .. n |-> data[k]]
    <3>1. r[len] - 1 = n
      BY <1>5
    <3> QED BY <1>5, <3>1 DEF DataAt
  <2>2. data = [k \in 1 .. n |-> data[k]]
    <3>1. data \in Seq(0 .. 255)
      BY <1>5
    <3> QED BY ONLY <1>4, <3>1, LenProperties
  <2> QED BY <1>5, <2>1, <2>2 DEF FieldAt
<1> DEFINE new == [type |-> type, data |-> data]
           all == Append(fs, new)
           e == [k \in 1 .. Len(fs) + 2 |-> IF k = Len(fs) + 2 THEN end ELSE at[k]]
<1>9. new \in Fields
  BY <1>5 DEF Fields
<1>10. /\ Len(fs) \in Nat /\ at \in [1 .. Len(fs) + 1 -> 0 .. len] /\ at[Len(fs) + 1] = len
  BY <1>1, <1>2 DEF Laid
<1> HIDE DEF new
<1>11. /\ all \in Seq(Fields) /\ Len(all) = Len(fs) + 1 /\ all[Len(fs) + 1] = new
       /\ \A k \in 1 .. Len(fs) : all[k] = fs[k]
  BY <1>1, <1>9
<1>12. ASSUME NEW k \in 1 .. Len(fs) + 2 PROVE e[k] \in 0 .. end
  <2>1. CASE k = Len(fs) + 2
    BY <1>7, <2>1
  <2>2. CASE k # Len(fs) + 2
    <3>1. k \in 1 .. Len(fs) + 1
      BY <1>10, <2>2
    <3>2. e[k] = at[k] /\ at[k] \in 0 .. len
      BY <1>10, <2>2, <3>1
    <3> QED BY <1>1, <1>7, <3>2
  <2> QED BY <2>1, <2>2
<1>13. e[Len(fs) + 2] = end /\ \A k \in 1 .. Len(fs) + 1 : e[k] = at[k]
  BY <1>10
<1>14. e \in [1 .. Len(all) + 1 -> 0 .. end]
  <2>1. Len(all) + 1 = Len(fs) + 2
    BY <1>10, <1>11
  <2> HIDE DEF all
  <2> QED BY <1>12, <2>1
<1> HIDE DEF e, all
<1>15. e[Len(all) + 1] = end
  BY <1>10, <1>11, <1>13
<1>16. Laid(r, at, fs, len)
  BY <1>1, <1>2, <1>5, LaidSame
<1>17. ASSUME NEW i \in 1 .. Len(all)
       PROVE  /\ e[i] < Size - 2 /\ r[e[i]] >= 1 /\ r[e[i] + 1] # 0
              /\ e[i + 1] = e[i] + r[e[i]] + 1
              /\ all[i] = FieldAt(r, e[i])
  <2>1. CASE i = Len(fs) + 1
    <3>1. e[i] = len /\ e[i + 1] = end /\ all[i] = new
      BY <1>10, <1>11, <1>13, <2>1
    <3>2. r[len] >= 1 /\ r[len + 1] # 0 /\ end = len + r[len] + 1
      BY <1>1, <1>5, <1>6
    <3>3. FieldAt(r, len) = new
      BY <1>8 DEF new
    <3> QED BY <1>7, <3>1, <3>2, <3>3
  <2>2. CASE i # Len(fs) + 1
    <3>1. i \in 1 .. Len(fs) /\ i \in 1 .. Len(fs) + 1 /\ i + 1 \in 1 .. Len(fs) + 1
      BY <1>10, <1>11, <2>2
    <3>2. e[i] = at[i] /\ e[i + 1] = at[i + 1] /\ all[i] = fs[i]
      BY <1>11, <1>13, <3>1
    <3>3. /\ at[i] < Size - 2 /\ r[at[i]] >= 1 /\ r[at[i] + 1] # 0
          /\ at[i + 1] = at[i] + r[at[i]] + 1
          /\ fs[i] = FieldAt(r, at[i])
      BY <1>16, <3>1 DEF Laid
    <3> QED BY <3>2, <3>3
  <2> QED BY <2>1, <2>2
<1>18. Laid(r, e, all, end)
  BY <1>14, <1>15, <1>17 DEF Laid
<1>19. e[1] = 0
  BY <1>2, <1>10, <1>13
<1>20. \A k \in end .. Size - 1 : r[k] = 0
  <2> SUFFICES ASSUME NEW k \in end .. Size - 1 PROVE r[k] = 0
    OBVIOUS
  <2>1. k \in len .. Size - 1 /\ k \in len + n + 2 .. Size - 1
    BY <1>1, <1>6, <1>7
  <2> QED BY <1>1, <1>5, <2>1
<1>21. Layout(r, all, end)
  BY <1>7, <1>11, <1>18, <1>19, <1>20 DEF Layout
<1> QED BY <1>3, <1>4, <1>6, <1>21 DEF all, new

\* remove(), as long as it stays inside the payload.
LEMMA RemovedType ==
  ASSUME PacketAssumption, payload \in Bytes, length \in Nat, NEW pos \in 0 .. Size - 3,
         RemoveInside(payload, pos)
  PROVE  Removed(payload, pos) \in Bytes
<1>1. Size \in Nat /\ pos \in 0 .. Size - 1
  BY DEF PacketAssumption
<1>2. PICK n \in 0 .. 255 : n = payload[pos]
  BY <1>1 DEF Bytes
<1>3. PICK count : count = RemoveCount(payload, pos)
  OBVIOUS
<1>4. count \in Nat
  BY <1>1, <1>2, <1>3 DEF RemoveCount
<1>5. PICK first : first = payload[pos + n]
  OBVIOUS
<1>6. ASSUME count > 0 PROVE first \in 0 .. 255
  <2>1. pos + n < Size
    BY <1>2, <1>3, <1>6 DEF RemoveInside
  <2>2. pos + n \in 0 .. Size - 1
    BY <1>1, <2>1
  <2> QED BY <1>5, <2>2 DEF Bytes
<1>7. count > 1 => pos + count - 1 + first < Size
  BY <1>2, <1>3, <1>5 DEF RemoveInside
<1> DEFINE moved == [i \in 0 .. Size - 1 |->
                      IF i \notin pos .. pos + count - 1 THEN payload[i]
                      ELSE IF i = pos THEN first
                      ELSE payload[i + first]]
<1>8. ASSUME NEW i \in 0 .. Size - 1 PROVE moved[i] \in 0 .. 255
  <2>1. CASE i \notin pos .. pos + count - 1
    <3>1. payload[i] \in 0 .. 255
      BY DEF Bytes
    <3> QED BY <2>1, <3>1
  <2>2. CASE i \in pos .. pos + count - 1 /\ i = pos
    <3>1. count > 0
      BY <1>1, <1>4, <2>2
    <3>2. moved[i] = first
      BY <2>2
    <3> QED BY <1>6, <3>1, <3>2
  <2>3. CASE i \in pos .. pos + count - 1 /\ i # pos
    <3>1. count > 1 /\ i <= pos + count - 1
      BY <1>1, <1>4, <2>3
    <3>2. PICK m \in 0 .. 255 : m = first
      BY <1>4, <1>6, <3>1
    <3>3. i + m \in 0 .. Size - 1
      BY <1>1, <1>4, <1>7, <3>1, <3>2
    <3>4. moved[i] = payload[i + m]
      BY <2>3, <3>2
    <3> QED BY <3>3, <3>4 DEF Bytes
  <2> QED BY <2>1, <2>2, <2>3
<1>9. moved \in Bytes
  <2>1. moved = [i \in 0 .. Size - 1 |-> moved[i]]
    OBVIOUS
  <2> QED BY <1>8, <2>1 DEF Bytes
<1>10. Removed(payload, pos) = [moved EXCEPT ![pos + pos + count] = 0]
  BY <1>2, <1>3, <1>5 DEF Removed
<1> HIDE DEF moved
<1>11. PICK x : x = pos + pos + count
  OBVIOUS
<1>12. [moved EXCEPT ![x] = 0] \in [0 .. Size - 1 -> 0 .. 255]
  <2>1. ASSUME NEW S, NEW T, NEW f \in [S -> T], NEW y \in T
        PROVE  [f EXCEPT ![x] = y] \in [S -> T]
    OBVIOUS
  <2>2. 0 \in 0 .. 255
    OBVIOUS
  <2> QED BY <1>9, <2>1, <2>2 DEF Bytes
<1> QED BY <1>10, <1>11, <1>12 DEF Bytes

----------------------------------------------------------------------------
\* The fields after the ones that are seen are empty, and there is one.
EmptyBehind(seen, fs) ==
  /\ Len(seen) < Len(fs) /\ IsPrefix(seen, fs)
  /\ \A i \in Len(seen) + 1 .. Len(fs) : fs[i].data = <<>>

\* The packet holds the fields, or all of them but empty ones at its end.
Packed(p, fs, len) ==
  /\ fs \in Seq(Fields)
  /\ \/ Layout(p, fs, len)
     \/ /\ len \in {Size - 2, Size}
        /\ \E seen \in Seq(Fields) : Layout(p, seen, Size - 2) /\ EmptyBehind(seen, fs)

\* TypeOK, and the layout of a packet whose bytes can be trusted.
Inv == TypeOK /\ (intact /\ ~overrun => Packed(payload, fields, length))

\* One empty field more.
LEMMA EmptyAppended ==
  ASSUME NEW seen \in Seq(Fields), NEW fs \in Seq(Fields), NEW f \in Fields,
         f.data = <<>>, seen = fs \/ EmptyBehind(seen, fs)
  PROVE  Append(fs, f) \in Seq(Fields) /\ EmptyBehind(seen, Append(fs, f))
<1>1. PICK all : all = Append(fs, f)
  OBVIOUS
<1>2. PICK n \in Nat, k \in Nat : n = Len(fs) /\ k = Len(seen)
  OBVIOUS
<1>3. /\ all \in Seq(Fields) /\ Len(all) = n + 1 /\ all[n + 1] = f
      /\ \A i \in 1 .. n : all[i] = fs[i]
  BY <1>1, <1>2
<1>4. k <= n
  BY <1>2 DEF EmptyBehind
<1>5. \A i \in 1 .. k : seen[i] = fs[i]
  <2>1. CASE seen = fs
    BY <2>1
  <2>2. CASE EmptyBehind(seen, fs)
    <3>1. SubSeq(seen, 1, k) = SubSeq(fs, 1, k)
      BY <1>2, <2>2 DEF EmptyBehind, IsPrefix
    <3>2. /\ \A i \in 1 .. k : SubSeq(seen, 1, k)[i] = seen[i]
          /\ \A i \in 1 .. k : SubSeq(fs, 1, k)[i] = fs[i]
      BY <1>2, <1>4
    <3> QED BY <3>1, <3>2
  <2> QED BY <2>1, <2>2
<1>6. IsPrefix(seen, all)
  <2>1. PICK u : u = SubSeq(seen, 1, k)
    OBVIOUS
  <2>2. u \in Seq(Fields) /\ Len(u) = k /\ \A i \in 1 .. k : u[i] = seen[i]
    BY <1>2, <2>1
  <2>3. PICK v : v = SubSeq(all, 1, k)
    OBVIOUS
  <2>4. k \in 0 .. n + 1
    BY <1>2, <1>4
  <2>5. v \in Seq(Fields) /\ Len(v) = k /\ \A i \in 1 .. k : v[i] = all[i]
    BY <1>3, <2>3, <2>4
  <2>6. \A i \in 1 .. k : u[i] = v[i]
    BY <1>3, <1>4, <1>5, <2>2, <2>5
  <2>7. u = v
    BY <2>2, <2>5, <2>6, SeqEqual
  <2>8. SubSeq(seen, 1, k) = SubSeq(all, 1, k)
    BY <2>1, <2>3, <2>7
  <2> QED BY <1>2, <1>3, <1>4, <2>8 DEF IsPrefix
<1>7. ASSUME NEW i \in k + 1 .. n + 1 PROVE all[i].data = <<>>
  <2>1. CASE i = n + 1
    BY <1>3, <2>1
  <2>2. CASE i # n + 1
    <3>1. i \in k + 1 .. n /\ all[i] = fs[i]
      BY <1>2, <1>3, <2>2
    <3>2. fs[i].data = <<>>
      BY <1>2, <3>1 DEF EmptyBehind
    <3> QED BY <3>1, <3>2
  <2> QED BY <2>1, <2>2
<1> QED BY <1>1, <1>2, <1>3, <1>4, <1>6, <1>7 DEF EmptyBehind

\* A new packet has no field.
LEMMA InvInit == PacketAssumption /\ Init => Inv
<1> SUFFICES ASSUME PacketAssumption, Init PROVE Inv
  OBVIOUS
<1>1. Size \in Nat /\ payload \in [0 .. Size - 1 -> 0 .. 255]
  BY DEF Init, Blank, PacketAssumption
<1>2. TypeOK
  <2>1. length = 0 /\ intact = TRUE /\ overrun = FALSE
    BY DEF Init
  <2>2. length \in Nat /\ length <= Size
    BY <1>1, <2>1
  <2> QED BY <1>1, <2>1, <2>2 DEF TypeOK
<1>3. Layout(payload, fields, length)
  <2>1. \E at : at[1] = 0 /\ Laid(payload, at, <<>>, 0)
    BY LaidNothing
  <2>2. \A k \in 0 .. Size - 1 : payload[k] = 0
    BY DEF Init, Blank
  <2>3. <<>> \in Seq(Fields) /\ 0 \in 0 .. Size
    BY <1>1
  <2> QED BY <2>1, <2>2, <2>3 DEF Layout, Init
<1> QED BY <1>2, <1>3 DEF Inv, Packed, Layout

\* Parsing a payload that somebody sent.
LEMMA SetPayloadKeeps ==
  ASSUME PacketAssumption, Inv, NEW source \in Received, NEW size \in Sizes,
         SetPayload(source, size)
  PROVE  Inv'
<1>1. /\ source \in Bytes /\ size \in Nat /\ Size \in Nat /\ Reach \in Nat
      /\ payload \in Bytes /\ 0 \in 0 .. Reach
  <2>1. source \in Bytes
    BY DEF PacketAssumption, Bytes
  <2>2. size \in Nat /\ Size \in Nat
    BY DEF PacketAssumption
  <2>3. payload \in Bytes
    BY DEF Bytes, Inv, TypeOK
  <2> QED BY <2>1, <2>2, <2>3 DEF Reach
<1>2. PICK end : end = Parse(source, size).length
  OBVIOUS
<1>3. end \in Nat /\ (size <= Size => end <= Size)
  <2>1. PICK f : IsParse(f, source, size) /\ Parse(source, size) = f[0]
    BY <1>1, ParseExists
  <2>2. \A pos \in 0 .. Reach : /\ f[pos].length \in pos .. Reach
                                /\ pos <= size => f[pos].length <= size
    BY <1>1, <2>1, ParseEnds
  <2>3. 0 <= size
    BY <1>1
  <2>4. end \in 0 .. Reach /\ end <= size
    <3>1. f[0].length \in 0 .. Reach /\ (0 <= size => f[0].length <= size)
      BY <1>1, <2>2
    <3> QED BY <1>2, <2>1, <2>3, <3>1
  <2> QED BY <1>1, <2>4
<1>4. /\ length' = end /\ overrun' = (end > Size) /\ intact' = (size = Size)
      /\ payload' = IF end > Size THEN payload
                    ELSE [i \in 0 .. Size - 1 |-> IF i < end THEN source[i] ELSE 0]
      /\ fields' = Sent(source)
  BY <1>2 DEF SetPayload
<1>5. payload' \in Bytes
  <2>1. CASE end > Size
    BY <1>1, <1>4, <2>1
  <2>2. CASE ~(end > Size)
    <3>1. \A i \in 0 .. Size - 1 : (IF i < end THEN source[i] ELSE 0) \in 0 .. 255
      BY <1>1 DEF Bytes
    <3>2. payload' = [i \in 0 .. Size - 1 |-> IF i < end THEN source[i] ELSE 0]
      BY <1>4, <2>2
    <3> QED BY <3>1, <3>2 DEF Bytes
  <2> QED BY <2>1, <2>2
<1>6. TypeOK'
  <2>1. overrun' \in BOOLEAN /\ intact' \in BOOLEAN
    BY <1>4
  <2>2. overrun' <=> end > Size
    BY <1>4
  <2>3. intact' <=> size = Size
    BY <1>4
  <2>4. ~(end > Size) => end <= Size
    BY <1>1, <1>3
  <2>5. end > Size => size # Size
    BY <1>1, <1>3
  <2>6. length' \in Nat /\ (~overrun' => length' <= Size)
    BY <1>3, <1>4, <2>2, <2>4
  <2> QED BY <1>5, <2>1, <2>2, <2>3, <2>5, <2>6 DEF TypeOK, Bytes
<1>7. ASSUME intact', ~overrun' PROVE Packed(payload', fields', length')
  <2>1. size = Size /\ ~(end > Size)
    BY <1>4, <1>7
  <2>2. PICK p : p = [i \in 0 .. Size - 1 |-> IF i < end THEN source[i] ELSE 0]
    OBVIOUS
  <2>3. payload' = p /\ length' = end
    BY <1>4, <2>1, <2>2
  <2>4. PICK fs : fs = Decode(source, end)
    OBVIOUS
  <2>5. Layout(p, fs, end) /\ fs \in Seq(Fields)
    <3>1. Layout(p, fs, end)
      BY <1>1, <1>2, <2>1, <2>2, <2>4, CopiedLayout
    <3> QED BY <3>1 DEF Layout
  <2>6. PICK all : all = Sent(source)
    OBVIOUS
  <2>7. Ahead(all, fs, end)
    BY <1>1, <1>2, <2>1, <2>4, <2>6, ParsedIsLaid
  <2>8. Packed(p, all, end)
    <3>1. CASE all = fs
      BY <2>5, <3>1 DEF Packed
    <3>2. CASE all # fs
      <4>1. end = Size - 2
        BY <2>7, <3>2 DEF Ahead
      <4>2. PICK type \in 0 .. 255 : all = fs \o <<EmptyField(type)>>
        BY <2>7, <3>2 DEF Ahead
      <4>3. EmptyField(type) \in Fields /\ EmptyField(type).data = <<>>
        BY DEF EmptyField, Fields
      <4>4. all = Append(fs, EmptyField(type))
        BY <2>5, <4>2, <4>3, AppendIsConcat
      <4>5. all \in Seq(Fields) /\ EmptyBehind(fs, all)
        BY <2>5, <4>3, <4>4, EmptyAppended
      <4> QED BY <2>5, <4>1, <4>5 DEF Packed
    <3> QED BY <3>1, <3>2
  <2> QED BY <1>4, <2>3, <2>6, <2>8
<1>8. intact' /\ ~overrun' => Packed(payload, fields, length)'
  BY <1>7 DEF Packed, Layout, Laid, EmptyBehind
<1> QED BY <1>6, <1>8 DEF Inv

\* A field that is not there yet.
LEMMA SetNewKeeps ==
  ASSUME PacketAssumption, Inv, NEW type \in Types, NEW data \in Values,
         SetNew(type, data)
  PROVE  Inv'
<1>1. /\ payload \in Bytes /\ length \in Nat /\ Size \in Nat
      /\ ~overrun /\ Fits(length, data)
  BY DEF PacketAssumption, Bytes, Inv, TypeOK, SetNew, Fits
<1>2. PICK r : r = Stored(payload, length, type, data)
  OBVIOUS
<1>3. PICK fs : fs = Append(fields, [type |-> type, data |-> data])
  OBVIOUS
<1>4. PICK len : len = length + Len(data) + 2
  OBVIOUS
<1>5. /\ payload' = r /\ length' = len /\ fields' = fs
      /\ intact' = intact /\ overrun' = overrun
  BY <1>2, <1>3, <1>4 DEF SetNew
<1>6. r \in Bytes /\ Len(data) \in Nat
  <2>1. Holds(payload, length, type, data, r)
    BY <1>1, <1>2, StoredType
  <2> QED BY <2>1 DEF Holds
<1>7. len \in Nat /\ len <= Size
  <2>1. len <= Size
    BY <1>1, <1>4 DEF Fits
  <2>2. Len(data) \in Nat
    BY <1>6
  <2> QED BY <1>1, <1>4, <2>1, <2>2
<1>8. TypeOK'
  BY <1>1, <1>5, <1>6, <1>7 DEF TypeOK, Bytes, Inv
<1> DEFINE new == [type |-> type, data |-> data]
<1>9. ASSUME intact PROVE Packed(r, fs, len)
  <2>1. Packed(payload, fields, length)
    BY <1>1, <1>9 DEF Inv
  <2>2. new \in Fields /\ fs = Append(fields, new) /\ fields \in Seq(Fields)
    <3>1. data \in Seq(0 .. 255) /\ type \in 0 .. 255
      BY DEF PacketAssumption
    <3> QED BY <1>3, <2>1, <3>1 DEF Packed, Fields
  <2>3. CASE length < Size - 2
    <3>1. Layout(payload, fields, length)
      BY <1>1, <2>1, <2>3 DEF Packed
    <3>2. Layout(Stored(payload, length, type, data),
                 Append(fields, [type |-> type, data |-> data]), length + Len(data) + 2)
      BY <1>1, <2>3, <3>1, StoredLayout
    <3>3. Layout(r, fs, len)
      BY <1>2, <1>3, <1>4, <3>2
    <3> QED BY <3>3 DEF Packed, Layout
  <2>4. CASE ~(length < Size - 2)
    <3>1. length = Size - 2 /\ Len(data) = 0 /\ len = Size /\ Size - 2 \in 0 .. Size
      <4>1. length + Len(data) + 2 <= Size
        BY <1>1 DEF Fits
      <4>2. PICK k \in Nat : k = Len(data)
        BY <1>6
      <4>3. Size >= 3
        BY DEF PacketAssumption
      <4> QED BY <1>1, <1>4, <2>4, <4>1, <4>2, <4>3
    <3>2. data = <<>>
      <4>1. data \in Seq(0 .. 255)
        BY DEF PacketAssumption
      <4> QED BY <3>1, <4>1, EmptySeq
    <3>3. PICK seen \in Seq(Fields) : /\ Layout(payload, seen, Size - 2)
                                      /\ seen = fields \/ EmptyBehind(seen, fields)
      <4>1. CASE Layout(payload, fields, length)
        BY <2>2, <3>1, <4>1
      <4>2. CASE ~Layout(payload, fields, length)
        BY <2>1, <4>2 DEF Packed
      <4> QED BY <4>1, <4>2
    <3>4. fs \in Seq(Fields) /\ EmptyBehind(seen, fs)
      <4>1. new.data = <<>>
        BY <3>2
      <4> HIDE DEF new
      <4> QED BY <2>2, <3>3, <4>1, EmptyAppended
    <3>5. \A k \in 0 .. Size - 1 : k < Size - 2 => r[k] = payload[k]
      <4>1. Holds(payload, length, type, data, r)
        BY <1>1, <1>2, StoredType
      <4> QED BY <3>1, <4>1 DEF Holds
    <3>6. Layout(r, seen, Size - 2)
      <4>1. PICK at : Laid(payload, at, seen, Size - 2) /\ at[1] = 0
        BY <3>3 DEF Layout
      <4>2. PICK m \in 0 .. Size : m = Size - 2
        BY <3>1
      <4>3. Laid(r, at, seen, m)
        BY <1>1, <1>6, <3>5, <4>1, <4>2, LaidSame
      <4>4. ~(Size - 2 < Size - 2)
        BY <1>1
      <4> QED BY <3>1, <4>1, <4>2, <4>3, <4>4 DEF Layout
    <3> QED BY <3>1, <3>4, <3>6 DEF Packed
  <2> QED BY <2>3, <2>4
<1>10. ASSUME intact', ~overrun' PROVE Packed(payload', fields', length')
  BY <1>5, <1>9, <1>10
<1>11. intact' /\ ~overrun' => Packed(payload, fields, length)'
  BY <1>10 DEF Packed, Layout, Laid, EmptyBehind
<1> QED BY <1>8, <1>11 DEF Inv

\* A field that is there: nothing is promised of the layout any more.
LEMMA SetAgainKeeps ==
  ASSUME PacketAssumption, Inv, NEW type \in Types, NEW data \in Values,
         SetAgain(type, data)
  PROVE  Inv'
<1>1. /\ payload \in Bytes /\ length \in Nat /\ Size \in Nat
      /\ ~overrun /\ length <= Size /\ intact' = FALSE
  BY DEF PacketAssumption, Bytes, Inv, TypeOK, SetAgain
<1>2. PICK pos : pos = Field(payload, type)
  OBVIOUS
<1>3. pos \in 0 .. Size - 3
  <2>1. Field(payload, type) # NotFound
    BY DEF SetAgain
  <2> QED BY <1>1, <1>2, <2>1, FieldType
<1>4. /\ overrun' = ~(Fits(length, data) /\ RemoveInside(payload, pos))
      /\ IF overrun' THEN payload' = payload /\ length' = length
         ELSE /\ payload' = Stored(Removed(payload, pos), length, type, data)
              /\ length' = length + Len(data) + 2
  BY <1>2 DEF SetAgain, Fits
<1>5. overrun' \in BOOLEAN
  BY <1>4
<1>6. CASE overrun'
  <2>1. payload' = payload /\ length' = length
    BY <1>4, <1>6
  <2>2. TypeOK'
    BY <1>1, <1>5, <1>6, <2>1 DEF TypeOK, Bytes
  <2> QED BY <1>1, <2>2 DEF Inv
<1>7. CASE ~overrun'
  <2>1. Fits(length, data) /\ RemoveInside(payload, pos)
    BY <1>4, <1>7
  <2>2. Removed(payload, pos) \in Bytes
    BY <1>1, <1>3, <2>1, RemovedType
  <2>3. PICK p \in Bytes : p = Removed(payload, pos)
    BY <2>2
  <2>4. PICK r : r = Stored(p, length, type, data)
    OBVIOUS
  <2>5. r \in Bytes /\ Len(data) \in Nat
    <3>1. Holds(p, length, type, data, r)
      BY <1>1, <2>1, <2>4, StoredType
    <3> QED BY <3>1 DEF Holds
  <2>6. payload' = r /\ length' = length + Len(data) + 2
    BY <1>4, <1>7, <2>3, <2>4
  <2>7. length' \in Nat /\ length' <= Size
    <3>1. length' <= Size
      BY <2>1, <2>6 DEF Fits
    <3>2. Len(data) \in Nat
      BY <2>5
    <3> QED BY <1>1, <2>6, <3>1, <3>2
  <2>8. TypeOK'
    BY <1>1, <1>5, <1>7, <2>5, <2>6, <2>7 DEF TypeOK, Bytes
  <2> QED BY <1>1, <2>8 DEF Inv
<1> QED BY <1>6, <1>7

\* Every step keeps the invariant.
LEMMA InvNext == PacketAssumption /\ Inv /\ [Next]_vars => Inv'
<1> SUFFICES ASSUME PacketAssumption, Inv, [Next]_vars PROVE Inv'
  OBVIOUS
<1>1. ASSUME NEW source \in Received, NEW size \in Sizes, SetPayload(source, size)
      PROVE  Inv'
  BY <1>1, SetPayloadKeeps
<1>2. ASSUME NEW type \in Types, NEW data \in Values, SetNew(type, data) PROVE Inv'
  BY <1>2, SetNewKeeps
<1>3. ASSUME NEW type \in Types, NEW data \in Values, SetAgain(type, data) PROVE Inv'
  BY <1>3, SetAgainKeeps
<1>4. CASE UNCHANGED vars
  <2>1. /\ payload' = payload /\ length' = length /\ fields' = fields
        /\ intact' = intact /\ overrun' = overrun
    BY <1>4 DEF vars
  <2>2. TypeOK'
    BY <2>1 DEF Inv, TypeOK
  <2>3. intact' /\ ~overrun' => Packed(payload, fields, length)'
    <3>1. intact /\ ~overrun => Packed(payload, fields, length)
      BY DEF Inv
    <3>2. ASSUME intact', ~overrun' PROVE Packed(payload', fields', length')
      BY <2>1, <3>1, <3>2
    <3> QED BY <3>2 DEF Packed, Layout, Laid, EmptyBehind
  <2> QED BY <2>2, <2>3 DEF Inv
<1> QED BY <1>1, <1>2, <1>3, <1>4 DEF Next

\* The fields a layout holds are parsed out of the packet and found under their
\* types.
LEMMA LayoutReceived == PacketAssumption /\ Inv => SentIsReceived
<1> SUFFICES ASSUME PacketAssumption, Inv, intact, ~overrun,
                    NEW end, end = Parse(payload, Size).length,
                    NEW seen, seen = Decode(payload, end)
             PROVE  /\ Parse(payload, Size).ok
                    /\ IsPrefix(seen, fields)
                    /\ seen = fields => length = end
                    /\ seen # fields =>
                         /\ end = Size - 2
                         /\ \A i \in Len(seen) + 1 .. Len(fields) : fields[i].data = <<>>
                    /\ \A i \in 1 .. Len(seen) :
                         LET pos == Field(payload, seen[i].type) IN
                           /\ pos # NotFound
                           /\ \E j \in 1 .. i : seen[j] = [type |-> seen[i].type,
                                                           data |-> DataAt(payload, pos)]
  BY DEF SentIsReceived
<1>1. payload \in Bytes /\ Packed(payload, fields, length)
  BY DEF Inv, TypeOK, Bytes
<1>2. ASSUME NEW fs, NEW len, Layout(payload, fs, len)
      PROVE  Parse(payload, Size).ok /\ end = len /\ seen = fs
  <2>1. Parse(payload, Size) = [ok |-> TRUE, length |-> len]
    BY <1>1, <1>2, LayoutParses
  <2>2. Decode(payload, len) = fs
    BY <1>1, <1>2, LayoutDecodes
  <2>3. end = len
    BY <2>1
  <2> QED BY <2>1, <2>2, <2>3
<1>3. ASSUME Layout(payload, seen, end), NEW i \in 1 .. Len(seen)
      PROVE  /\ Field(payload, seen[i].type) # NotFound
             /\ \E j \in 1 .. i : seen[j] = [type |-> seen[i].type,
                                     data |-> DataAt(payload, Field(payload, seen[i].type))]
  BY <1>1, <1>3, LayoutFinds
<1>4. CASE Layout(payload, fields, length)
  <2>1. Parse(payload, Size).ok /\ end = length /\ seen = fields
    BY <1>2, <1>4
  <2>2. IsPrefix(seen, fields)
    <3>1. fields \in Seq(Fields)
      BY <1>4 DEF Layout
    <3>2. PICK n \in Nat : n = Len(fields)
      BY <3>1
    <3> QED BY <2>1, <3>1, <3>2 DEF IsPrefix
  <2>3. Layout(payload, seen, end)
    BY <1>4, <2>1
  <2> QED BY <1>3, <2>1, <2>2, <2>3
<1>5. CASE ~Layout(payload, fields, length)
  <2>1. PICK fs \in Seq(Fields) : Layout(payload, fs, Size - 2) /\ EmptyBehind(fs, fields)
    BY <1>1, <1>5 DEF Packed
  <2>2. Parse(payload, Size).ok /\ end = Size - 2 /\ seen = fs
    BY <1>2, <2>1
  <2>3. /\ IsPrefix(seen, fields) /\ seen # fields
        /\ \A i \in Len(seen) + 1 .. Len(fields) : fields[i].data = <<>>
    <3>1. seen # fields
      <4>1. PICK n \in Nat : n = Len(fs)
        OBVIOUS
      <4>2. Len(fs) < Len(fields)
        BY <2>1 DEF EmptyBehind
      <4>3. fs # fields
        BY <4>1, <4>2
      <4> QED BY <2>2, <4>3
    <3> QED BY <2>1, <2>2, <3>1 DEF EmptyBehind
  <2>4. Layout(payload, seen, end)
    BY <2>1, <2>2
  <2> QED BY <1>3, <2>2, <2>3, <2>4
<1> QED BY <1>4, <1>5

\* Parsing a payload of the packet's size, given with that size, and setting each
\* field once never use memory behind the packet.
THEOREM TypeCorrect == Spec => []TypeOK
<1>1. Inv => TypeOK
  BY DEF Inv
<1> QED BY <1>1, PacketAssumption, InvInit, InvNext, PTL DEF Spec

\* setField, field and setPayload agree on where each field is, and on all fields
\* but empty ones in the last two bytes.
THEOREM SentIsReceivedCorrect == Spec => []SentIsReceived
BY PacketAssumption, InvInit, InvNext, LayoutReceived, PTL DEF Spec
=============================================================================
