----------------------------- MODULE SlipProofs -----------------------------
(***************************************************************************)
(* Proofs about Slip, for any payloads, any checksum, any noise and any    *)
(* number of frames and of damaged bytes.                                  *)
(***************************************************************************)
EXTENDS Slip, FiniteSetTheorems, SequenceTheorems, WellFoundedInduction, TLAPS

\* Induction over the natural numbers, for a set: the loops of the code are
\* followed from one iteration to the next with it.
LEMMA SetInduction ==
  ASSUME NEW S, 0 \in S, \A n \in Nat : n \in S => n + 1 \in S
  PROVE  Nat \subseteq S
<1> DEFINE T == Nat \ S
<1> SUFFICES ASSUME T # {} PROVE FALSE
  OBVIOUS
<1>1. IsWellFoundedOn(OpToRel(<, Nat), Nat)
  BY NatLessThanWellFounded
<1>2. T \subseteq Nat
  OBVIOUS
<1>3. \E x \in T : \A y \in T : ~(<<y, x>> \in OpToRel(<, Nat))
  <2> HIDE DEF T
  <2> QED BY ONLY <1>1, <1>2, T # {}, WFMin
<1>4. PICK x \in T : \A y \in T : ~(<<y, x>> \in OpToRel(<, Nat))
  BY <1>3
<1>5. \A y \in T : ~(y < x)
  BY <1>2, <1>4 DEF OpToRel
<1>6. CASE x = 0
  BY <1>6
<1>7. CASE x # 0
  <2>1. x - 1 \in Nat
    BY <1>7
  <2>2. x - 1 \notin T
    BY <1>5, <2>1
  <2> QED
    BY <2>1, <2>2
<1> QED
  BY <1>6, <1>7

\* A set of natural numbers that is not empty has a smallest element: what a
\* loop finds first.
LEMMA SmallestOf ==
  ASSUME NEW S, S \subseteq Nat, S # {}
  PROVE  \E n \in S : \A k \in S : n <= k
<1> SUFFICES ASSUME \A n \in S : \E k \in S : k < n PROVE FALSE
  OBVIOUS
<1> DEFINE T == {n \in Nat : \A k \in 0 .. n : k \notin S}
<1>1. 0 \in T
  OBVIOUS
<1>2. \A n \in Nat : n \in T => n + 1 \in T
  OBVIOUS
<1>3. Nat \subseteq T
  <2> HIDE DEF T
  <2> QED BY <1>1, <1>2, SetInduction
<1>4. PICK n \in S : TRUE
  OBVIOUS
<1>5. n \in T /\ n \in 0 .. n
  BY <1>3, <1>4
<1> QED BY <1>4, <1>5

(***************************************************************************)
(* f is the function that starts with b and goes on with g, up to n.       *)
(***************************************************************************)
Recurs(f, n, b, g) == f[0] = b /\ \A k \in 0 .. n - 1 : f[k + 1] = g[k][f[k]]

\* Up to any n there is a function that recurs.
LEMMA RecursionUpTo ==
  ASSUME NEW V, NEW b \in V, NEW g \in [Nat -> [V -> V]], NEW n \in Nat
  PROVE  \E f \in [0 .. n -> V] : Recurs(f, n, b, g)
<1> DEFINE S == {m \in Nat : \E f \in [0 .. m -> V] : Recurs(f, m, b, g)}
<1>1. 0 \in S
  <2>1. [k \in 0 .. 0 |-> b] \in [0 .. 0 -> V] /\ Recurs([k \in 0 .. 0 |-> b], 0, b, g)
    BY DEF Recurs
  <2> QED BY <2>1
<1>2. ASSUME NEW m \in Nat, m \in S PROVE m + 1 \in S
  <2>1. PICK f \in [0 .. m -> V] : Recurs(f, m, b, g)
    BY <1>2
  <2> DEFINE e == [k \in 0 .. m + 1 |-> IF k <= m THEN f[k] ELSE g[m][f[m]]]
  <2>2. e \in [0 .. m + 1 -> V]
    <3>1. f[m] \in V /\ g[m] \in [V -> V]
      OBVIOUS
    <3>2. g[m][f[m]] \in V
      BY <3>1
    <3>3. \A k \in 0 .. m + 1 : k <= m => f[k] \in V
      OBVIOUS
    <3> QED BY <3>2, <3>3
  <2>3. e[0] = b
    BY <2>1 DEF Recurs
  <2>4. ASSUME NEW k \in 0 .. m + 1 - 1 PROVE e[k + 1] = g[k][e[k]]
    <3>1. CASE k = m
      BY <3>1
    <3>2. CASE k # m
      <4>1. k \in 0 .. m - 1 /\ k + 1 <= m /\ k <= m
        BY <3>2
      <4>2. f[k + 1] = g[k][f[k]]
        BY <2>1, <4>1 DEF Recurs
      <4> QED BY <4>1, <4>2
    <3> QED BY <3>1, <3>2
  <2> HIDE DEF e
  <2>5. Recurs(e, m + 1, b, g)
    BY <2>3, <2>4 DEF Recurs
  <2> QED BY <2>2, <2>5
<1>3. Nat \subseteq S
  <2> HIDE DEF S
  <2> QED BY <1>1, <1>2, SetInduction
<1> QED BY <1>3

\* Induction over the sequences of bytes, one byte more at the end.
LEMMA BytesInduction ==
  ASSUME NEW D, NEW S, <<>> \in S,
         \A s \in Seq(D), b \in D : s \in S => Append(s, b) \in S
  PROVE  Seq(D) \subseteq S
<1> DEFINE T == {n \in Nat : \A s \in Seq(D) : Len(s) = n => s \in S}
<1>1. 0 \in T
  BY EmptySeq
<1>2. ASSUME NEW n \in Nat, n \in T PROVE n + 1 \in T
  <2> SUFFICES ASSUME NEW s \in Seq(D), Len(s) = n + 1 PROVE s \in S
    OBVIOUS
  <2> DEFINE u == SubSeq(s, 1, n)
             b == s[n + 1]
  <2>1. b \in D
    OBVIOUS
  <2>2. u \in Seq(D) /\ Len(u) = n
    OBVIOUS
  <2>3. s = Append(u, b)
    OBVIOUS
  <2>4. u \in S
    BY <1>2, <2>2
  <2> HIDE DEF u, b
  <2> QED BY <2>1, <2>2, <2>3, <2>4
<1>3. Nat \subseteq T
  <2> HIDE DEF T
  <2> QED BY <1>1, <1>2, SetInduction
<1> QED BY <1>3

\* A concatenation falls into its parts.
LEMMA ConcatSplits ==
  ASSUME NEW D, NEW u \in Seq(D), NEW v \in Seq(D)
  PROVE  /\ u \o v \in Seq(D) /\ Len(u \o v) = Len(u) + Len(v)
         /\ SubSeq(u \o v, 1, Len(u)) = u
         /\ SubSeq(u \o v, Len(u) + 1, Len(u) + Len(v)) = v
<1>1. u \o v \in Seq(D) /\ Len(u \o v) = Len(u) + Len(v)
  OBVIOUS
<1>2. SubSeq(u \o v, 1, Len(u)) = u
  OBVIOUS
<1>3. SubSeq(u \o v, Len(u) + 1, Len(u) + Len(v)) = v
  OBVIOUS
<1> QED BY <1>1, <1>2, <1>3

LEMMA ConcatAppend ==
  ASSUME NEW D, NEW u \in Seq(D), NEW v \in Seq(D), NEW b \in D
  PROVE  u \o Append(v, b) = Append(u \o v, b)
OBVIOUS

(***************************************************************************)
(* The loops of the code: the function that a loop over n bytes defines,   *)
(* g[i] what round i does to the value so far.                             *)
(***************************************************************************)
Loops(f, n, start, g) == f = [i \in 0 .. n |-> IF i = 0 THEN start ELSE g[i][f[i - 1]]]

LEMMA LoopExists ==
  ASSUME NEW V, NEW start \in V, NEW n \in Nat, NEW g \in [1 .. n -> [V -> V]]
  PROVE  \E f \in [0 .. n -> V] : Loops(f, n, start, g)
<1> DEFINE h == [k \in Nat |-> IF k + 1 \in 1 .. n THEN g[k + 1] ELSE [v \in V |-> v]]
<1>1. h \in [Nat -> [V -> V]]
  OBVIOUS
<1>2. PICK f \in [0 .. n -> V] : Recurs(f, n, start, h)
  <2> HIDE DEF h
  <2> QED BY <1>1, RecursionUpTo
<1>3. f[0] = start
  BY <1>2 DEF Recurs
<1>4. ASSUME NEW i \in 0 .. n, i # 0 PROVE f[i] = g[i][f[i - 1]]
  <2>1. i - 1 \in 0 .. n - 1 /\ i - 1 \in Nat /\ (i - 1) + 1 = i /\ i \in 1 .. n
    BY <1>4
  <2>2. f[i] = h[i - 1][f[i - 1]]
    BY <1>2, <2>1 DEF Recurs
  <2>3. h[i - 1] = g[i]
    BY <2>1
  <2> QED BY <2>2, <2>3
<1>5. f = [i \in 0 .. n |-> IF i = 0 THEN start ELSE g[i][f[i - 1]]]
  BY <1>3, <1>4
<1> QED BY <1>5 DEF Loops

(***************************************************************************)
(* decode().  Room for its bytes and for the payloads it has decoded.      *)
(***************************************************************************)
Decoders == [escaping : BOOLEAN, decoded : Seq(Byte), delivered : Seq(Seq(Byte))]

LEMMA CodeValues ==
  /\ Code[END_] = 220 /\ Code[ESC] = 221 /\ Code[XON] = 222 /\ Code[XOFF] = 223
BY DEF Code, Special, END_, ESC, XON, XOFF

LEMMA UnescapeType == \A v \in Byte : Unescape(v) \in Byte
BY DEF Unescape, Byte, Special, END_, ESC, XON, XOFF

\* Taking the escape away gives the byte that was escaped.
LEMMA UnescapeCode == \A b \in Special : Unescape(Code[b]) = b
<1> SUFFICES ASSUME NEW b \in Special PROVE Unescape(Code[b]) = b
  OBVIOUS
<1>1. \A c \in Special : Code[c] = Code[b] => c = b
  BY CodeValues DEF Special, END_, ESC, XON, XOFF
<1> QED BY <1>1 DEF Unescape

LEMMA FinishType ==
  ASSUME NEW r \in Decoders
  PROVE  Finish(r) \in Decoders
<1> DEFINE size == Len(r.decoded)
           main == SubSeq(r.decoded, 1, size - 2)
<1>1. CASE size < 2
  BY <1>1 DEF Finish
<1>2. CASE ~(size < 2)
  <2>1. r.decoded \in Seq(Byte) /\ r.delivered \in Seq(Seq(Byte)) /\ r.escaping \in BOOLEAN
    BY DEF Decoders
  <2>2. main \in Seq(Byte)
    BY <1>2, <2>1
  <2>3. PICK d : d = IF SubSeq(r.decoded, size - 1, size) = Checksum(main)
                       THEN Append(r.delivered, main) ELSE r.delivered
    OBVIOUS
  <2>4. d \in Seq(Seq(Byte))
    <3>1. Append(r.delivered, main) \in Seq(Seq(Byte))
      <4> HIDE DEF main
      <4> QED BY <2>1, <2>2
    <3> QED BY <2>1, <2>3, <3>1
  <2>5. Finish(r) = [r EXCEPT !.decoded = <<>>, !.delivered = d]
    BY <1>2, <2>3 DEF Finish
  <2>6. <<>> \in Seq(Byte)
    OBVIOUS
  <2> QED BY <2>1, <2>4, <2>5, <2>6 DEF Decoders
<1> QED BY <1>1, <1>2

\* A round of the loop, case by case.
LEMMA AcceptCases ==
  ASSUME NEW r \in Decoders, NEW v
  PROVE  /\ r.escaping => Accept(r, v) = [r EXCEPT !.decoded = Append(@, Unescape(v)),
                                                   !.escaping = FALSE]
         /\ ~r.escaping /\ v = END_ => Accept(r, v) = Finish(r)
         /\ ~r.escaping /\ v = ESC => Accept(r, v) = [r EXCEPT !.escaping = TRUE]
         /\ ~r.escaping /\ v \notin {END_, ESC} =>
              Accept(r, v) = [r EXCEPT !.decoded = Append(@, v)]
<1>1. r.escaping \in BOOLEAN /\ END_ # ESC
  BY DEF Decoders, END_, ESC
<1>2. CASE r.escaping
  BY <1>2 DEF Accept
<1>3. CASE ~r.escaping /\ v = END_
  BY <1>1, <1>3, Zenon DEF Accept
<1>4. CASE ~r.escaping /\ v = ESC
  BY <1>1, <1>4, Zenon DEF Accept
<1>5. CASE ~r.escaping /\ v \notin {END_, ESC}
  BY <1>5 DEF Accept
<1> QED BY <1>1, <1>2, <1>3, <1>4, <1>5

LEMMA AcceptType ==
  ASSUME NEW r \in Decoders, NEW v \in Byte
  PROVE  Accept(r, v) \in Decoders
<1>1. r.decoded \in Seq(Byte) /\ r.escaping \in BOOLEAN
  BY DEF Decoders
<1>2. Append(r.decoded, v) \in Seq(Byte) /\ Append(r.decoded, Unescape(v)) \in Seq(Byte)
  BY <1>1, UnescapeType
<1>3. CASE r.escaping
  <2>1. PICK d \in Seq(Byte) : d = Append(r.decoded, Unescape(v))
    BY <1>2
  <2>2. Accept(r, v) = [r EXCEPT !.decoded = d, !.escaping = FALSE]
    BY <1>3, <2>1, AcceptCases
  <2> QED BY <2>2 DEF Decoders
<1>4. CASE ~r.escaping /\ v = END_
  BY <1>4, FinishType, AcceptCases
<1>5. CASE ~r.escaping /\ v = ESC
  BY <1>5, AcceptCases DEF Decoders
<1>6. CASE ~r.escaping /\ v \notin {END_, ESC}
  <2>1. PICK d \in Seq(Byte) : d = Append(r.decoded, v)
    BY <1>2
  <2>2. Accept(r, v) = [r EXCEPT !.decoded = d]
    BY <1>6, <2>1, AcceptCases
  <2> QED BY <2>2 DEF Decoders
<1> QED BY <1>1, <1>3, <1>4, <1>5, <1>6

\* Feeding a decoder is a loop.
Fed(f, r, s) == f = [i \in 0 .. Len(s) |-> IF i = 0 THEN r ELSE Accept(f[i - 1], s[i])]

LEMMA FedExists ==
  ASSUME NEW r \in Decoders, NEW s \in Seq(Byte)
  PROVE  \E f \in [0 .. Len(s) -> Decoders] : Fed(f, r, s) /\ Feed(r, s) = f[Len(s)]
<1> DEFINE n == Len(s)
           g == [i \in 1 .. n |-> [v \in Decoders |-> Accept(v, s[i])]]
<1>1. n \in Nat /\ \A i \in 1 .. n : s[i] \in Byte
  OBVIOUS
<1> HIDE DEF n
<1>2. g \in [1 .. n -> [Decoders -> Decoders]]
  BY <1>1, AcceptType
<1>3. PICK f \in [0 .. n -> Decoders] : Loops(f, n, r, g)
  <2> HIDE DEF g
  <2> QED BY <1>1, <1>2, LoopExists
<1>4. f[0] = r
  BY <1>1, <1>3 DEF Loops
<1>5. ASSUME NEW i \in 0 .. n, i # 0 PROVE f[i] = Accept(f[i - 1], s[i])
  <2>1. i \in 1 .. n /\ i - 1 \in 0 .. n
    BY <1>1, <1>5
  <2>2. f[i] = g[i][f[i - 1]]
    BY <1>3, <1>5 DEF Loops
  <2>3. f[i - 1] \in Decoders
    BY <2>1
  <2> QED BY <2>1, <2>2, <2>3
<1>6. Fed(f, r, s)
  BY <1>4, <1>5 DEF Fed, n
<1>7. PICK e : e = CHOOSE h : Fed(h, r, s)
  OBVIOUS
<1>8. Fed(e, r, s)
  BY <1>6, <1>7
<1>9. Feed(r, s) = e[n]
  BY <1>7 DEF Feed, Fed, n
<1> DEFINE T == {k \in Nat : k <= n => e[k] = f[k]}
<1>10. 0 \in T
  BY <1>1, <1>6, <1>8 DEF Fed, n
<1>11. ASSUME NEW k \in Nat, k \in T PROVE k + 1 \in T
  <2> SUFFICES ASSUME k + 1 <= n PROVE e[k + 1] = f[k + 1]
    OBVIOUS
  <2>1. k + 1 \in 0 .. n /\ k + 1 # 0 /\ (k + 1) - 1 = k /\ e[k] = f[k]
    BY <1>1, <1>11
  <2>2. e[k + 1] = Accept(e[k], s[k + 1]) /\ f[k + 1] = Accept(f[k], s[k + 1])
    BY <1>6, <1>8, <2>1 DEF Fed, n
  <2> QED BY <2>1, <2>2
<1>12. Nat \subseteq T
  <2> HIDE DEF T
  <2> QED BY <1>10, <1>11, SetInduction
<1>13. e[n] = f[n]
  BY <1>1, <1>12
<1> QED BY <1>6, <1>9, <1>13 DEF n

\* The decoder after no byte, and after one byte more.
LEMMA FeedNone ==
  ASSUME NEW r \in Decoders
  PROVE  Feed(r, <<>>) = r
<1>1. <<>> \in Seq(Byte) /\ Len(<<>>) = 0
  OBVIOUS
<1>2. PICK f : Fed(f, r, <<>>) /\ Feed(r, <<>>) = f[0]
  BY <1>1, FedExists
<1>3. f = [i \in 0 .. 0 |-> IF i = 0 THEN r ELSE Accept(f[i - 1], <<>>[i])]
  BY <1>1, <1>2 DEF Fed
<1> QED BY <1>2, <1>3

LEMMA FeedType ==
  ASSUME NEW r \in Decoders, NEW s \in Seq(Byte)
  PROVE  Feed(r, s) \in Decoders
<1>1. PICK f \in [0 .. Len(s) -> Decoders] : Feed(r, s) = f[Len(s)]
  BY FedExists
<1> QED BY <1>1

LEMMA FeedAppend ==
  ASSUME NEW r \in Decoders, NEW s \in Seq(Byte), NEW b \in Byte
  PROVE  Feed(r, Append(s, b)) = Accept(Feed(r, s), b)
<1> DEFINE t == Append(s, b)
<1>1. PICK n \in Nat : n = Len(s)
  OBVIOUS
<1>2. /\ t \in Seq(Byte) /\ Len(t) = n + 1
      /\ \A i \in 1 .. n : t[i] = s[i]
      /\ t[n + 1] = b
  BY <1>1
<1> HIDE DEF t
<1>3. PICK f : Fed(f, r, s) /\ Feed(r, s) = f[n]
  BY <1>1, FedExists
<1>4. PICK e : Fed(e, r, t) /\ Feed(r, t) = e[n + 1]
  BY <1>1, <1>2, FedExists
<1> DEFINE T == {k \in Nat : k <= n => e[k] = f[k]}
<1>5. 0 \in T
  BY <1>1, <1>2, <1>3, <1>4 DEF Fed
<1>6. ASSUME NEW k \in Nat, k \in T PROVE k + 1 \in T
  <2> SUFFICES ASSUME k + 1 <= n PROVE e[k + 1] = f[k + 1]
    OBVIOUS
  <2>1. /\ k + 1 \in 0 .. n /\ k + 1 \in 0 .. n + 1 /\ k + 1 # 0 /\ (k + 1) - 1 = k
        /\ k + 1 \in 1 .. n /\ e[k] = f[k]
    BY <1>6
  <2>2. e[k + 1] = Accept(e[k], t[k + 1])
    BY <1>2, <1>4, <2>1 DEF Fed
  <2>3. f[k + 1] = Accept(f[k], s[k + 1])
    BY <1>1, <1>3, <2>1 DEF Fed
  <2> QED BY <1>2, <2>1, <2>2, <2>3
<1>7. Nat \subseteq T
  <2> HIDE DEF T
  <2> QED BY <1>5, <1>6, SetInduction
<1>8. e[n] = f[n]
  BY <1>7
<1>9. n + 1 \in 0 .. n + 1 /\ n + 1 # 0 /\ (n + 1) - 1 = n
  OBVIOUS
<1>10. e[n + 1] = Accept(e[n], t[n + 1])
  BY <1>2, <1>4, <1>9 DEF Fed
<1> QED BY <1>2, <1>3, <1>4, <1>8, <1>10 DEF t
\* However the reads cut the stream, the decoder goes on where it was.
LEMMA FeedConcat ==
  ASSUME NEW r \in Decoders, NEW u \in Seq(Byte), NEW w \in Seq(Byte)
  PROVE  Feed(r, u \o w) = Feed(Feed(r, u), w)
<1> DEFINE S == {v \in Seq(Byte) : Feed(r, u \o v) = Feed(Feed(r, u), v)}
<1>1. <<>> \in S
  <2>1. u \o <<>> = u /\ <<>> \in Seq(Byte)
    OBVIOUS
  <2> QED BY <2>1, FeedType, FeedNone
<1>2. ASSUME NEW v \in Seq(Byte), NEW b \in Byte, v \in S PROVE Append(v, b) \in S
  <2>1. u \o v \in Seq(Byte) /\ Append(v, b) \in Seq(Byte)
    OBVIOUS
  <2>2. u \o Append(v, b) = Append(u \o v, b)
    OBVIOUS
  <2>3. Feed(r, u \o Append(v, b)) = Accept(Feed(r, u \o v), b)
    BY <2>1, <2>2, FeedAppend
  <2>4. Feed(Feed(r, u), Append(v, b)) = Accept(Feed(Feed(r, u), v), b)
    BY FeedType, FeedAppend
  <2> QED BY <1>2, <2>1, <2>3, <2>4
<1>3. Seq(Byte) \subseteq S
  <2> HIDE DEF S
  <2> QED BY <1>1, <1>2, BytesInduction
<1> QED BY <1>3

\* One byte hands over at most one payload, and only an END does; nothing that
\* was handed over is taken back.
Grows(d, e) == \/ e = d
               \/ \E p \in Seq(Byte) : e = Append(d, p)

LEMMA AcceptGrows ==
  ASSUME NEW r \in Decoders, NEW b \in Byte
  PROVE  /\ Grows(r.delivered, Accept(r, b).delivered)
         /\ b # END_ => Accept(r, b).delivered = r.delivered
<1>1. r.escaping \in BOOLEAN /\ r.decoded \in Seq(Byte) /\ r.delivered \in Seq(Seq(Byte))
  BY DEF Decoders
<1>2. CASE r.escaping
  <2>1. PICK d : d = Append(r.decoded, Unescape(b))
    OBVIOUS
  <2>2. Accept(r, b) = [r EXCEPT !.decoded = d, !.escaping = FALSE]
    BY <1>2, <2>1, AcceptCases
  <2>3. Accept(r, b).delivered = r.delivered
    BY <2>2 DEF Decoders
  <2> QED BY <2>3 DEF Grows
<1>3. CASE ~r.escaping /\ b = ESC
  <2>1. Accept(r, b).delivered = r.delivered
    BY <1>3, AcceptCases DEF Decoders
  <2> QED BY <2>1 DEF Grows
<1>4. CASE ~r.escaping /\ b \notin {END_, ESC}
  <2>1. Accept(r, b).delivered = r.delivered
    BY <1>4, AcceptCases DEF Decoders
  <2> QED BY <2>1 DEF Grows
<1>5. CASE ~r.escaping /\ b = END_
  <2>1. PICK size \in Nat : size = Len(r.decoded)
    BY <1>1
  <2>2. Accept(r, b) = Finish(r)
    BY <1>5, AcceptCases
  <2>3. CASE size < 2
    <3>1. Finish(r) = r
      BY <2>1, <2>3 DEF Finish
    <3> QED BY <1>5, <2>2, <3>1 DEF Grows
  <2>4. CASE ~(size < 2)
    <3>1. PICK main : main = SubSeq(r.decoded, 1, size - 2)
      OBVIOUS
    <3>2. main \in Seq(Byte)
      BY <1>1, <2>1, <2>4, <3>1
    <3>3. PICK d : d = IF SubSeq(r.decoded, size - 1, size) = Checksum(main)
                         THEN Append(r.delivered, main) ELSE r.delivered
      OBVIOUS
    <3>4. Finish(r) = [r EXCEPT !.decoded = <<>>, !.delivered = d]
      BY <2>1, <2>4, <3>1, <3>3 DEF Finish
    <3>5. Finish(r).delivered = d
      BY <3>4 DEF Decoders
    <3>6. Grows(r.delivered, d)
      BY <3>2, <3>3 DEF Grows
    <3> QED BY <1>5, <2>2, <3>5, <3>6
  <2> QED BY <2>3, <2>4
<1> QED BY <1>1, <1>2, <1>3, <1>4, <1>5

\* The places of the ENDs among the bytes.
Ends(s) == {i \in DOMAIN s : s[i] = END_}

LEMMA EndsFinite ==
  ASSUME NEW s \in Seq(Byte)
  PROVE  IsFiniteSet(Ends(s)) /\ Cardinality(Ends(s)) \in Nat
<1>1. DOMAIN s = 1 .. Len(s) /\ Len(s) \in Nat
  OBVIOUS
<1>2. IsFiniteSet(1 .. Len(s))
  BY <1>1, FS_Interval
<1>3. Ends(s) \subseteq 1 .. Len(s)
  BY <1>1 DEF Ends
<1> QED BY <1>2, <1>3, FS_Subset, FS_CardinalityType

LEMMA EndsAppend ==
  ASSUME NEW s \in Seq(Byte), NEW b \in Byte
  PROVE  Cardinality(Ends(Append(s, b))) = Cardinality(Ends(s)) + (IF b = END_ THEN 1 ELSE 0)
<1>1. PICK n \in Nat : n = Len(s)
  OBVIOUS
<1>2. DOMAIN s = 1 .. n /\ DOMAIN Append(s, b) = 1 .. n + 1
      /\ Append(s, b)[n + 1] = b /\ \A i \in 1 .. n : Append(s, b)[i] = s[i]
  BY <1>1
<1>3. CASE b = END_
  <2>1. Ends(Append(s, b)) = Ends(s) \cup {n + 1}
    BY <1>2, <1>3 DEF Ends
  <2>2. n + 1 \notin Ends(s)
    BY <1>2 DEF Ends
  <2>3. Cardinality(Ends(s) \cup {n + 1}) = Cardinality(Ends(s)) + 1
    BY <2>2, EndsFinite, FS_AddElement
  <2> QED BY <1>3, <2>1, <2>3
<1>4. CASE b # END_
  <2>1. Ends(Append(s, b)) = Ends(s)
    BY <1>2, <1>4 DEF Ends
  <2> QED BY <1>4, <2>1, EndsFinite
<1> QED BY <1>3, <1>4

LEMMA EndsConcat ==
  ASSUME NEW u \in Seq(Byte), NEW w \in Seq(Byte)
  PROVE  Cardinality(Ends(u \o w)) = Cardinality(Ends(u)) + Cardinality(Ends(w))
<1> DEFINE S == {v \in Seq(Byte) :
                   Cardinality(Ends(u \o v)) = Cardinality(Ends(u)) + Cardinality(Ends(v))}
<1>1. <<>> \in S
  <2>1. u \o <<>> = u /\ <<>> \in Seq(Byte)
    OBVIOUS
  <2>2. Ends(<<>>) = {}
    BY DEF Ends
  <2>3. Cardinality(Ends(<<>>)) = 0
    BY <2>2, FS_EmptySet
  <2> QED BY <2>1, <2>3, EndsFinite
<1>2. ASSUME NEW v \in Seq(Byte), NEW b \in Byte, v \in S PROVE Append(v, b) \in S
  <2>1. u \o v \in Seq(Byte) /\ Append(v, b) \in Seq(Byte)
    OBVIOUS
  <2>2. u \o Append(v, b) = Append(u \o v, b)
    OBVIOUS
  <2>3. PICK k : k = IF b = END_ THEN 1 ELSE 0
    OBVIOUS
  <2>4. Cardinality(Ends(u \o Append(v, b))) = Cardinality(Ends(u \o v)) + k
    BY <2>1, <2>2, <2>3, EndsAppend
  <2>5. Cardinality(Ends(Append(v, b))) = Cardinality(Ends(v)) + k
    BY <2>3, EndsAppend
  <2>6. Cardinality(Ends(u)) \in Nat /\ Cardinality(Ends(v)) \in Nat /\ k \in Nat
    BY <2>3, EndsFinite
  <2> QED BY <1>2, <2>1, <2>4, <2>5, <2>6
<1>3. Seq(Byte) \subseteq S
  <2> HIDE DEF S
  <2> QED BY <1>1, <1>2, BytesInduction
<1> QED BY <1>3

\* Feeding a decoder only adds to what it handed over, at most a payload for
\* each END.
LEMMA FeedGrows ==
  ASSUME NEW r \in Decoders, NEW s \in Seq(Byte)
  PROVE  /\ IsPrefix(r.delivered, Feed(r, s).delivered)
         /\ Len(Feed(r, s).delivered) <= Len(r.delivered) + Cardinality(Ends(s))
<1> DEFINE Bounded(v) ==
             /\ IsPrefix(r.delivered, Feed(r, v).delivered)
             /\ Len(Feed(r, v).delivered) <= Len(r.delivered) + Cardinality(Ends(v))
           S == {v \in Seq(Byte) : Bounded(v)}
<1>1. <<>> \in S
  <2>1. <<>> \in Seq(Byte) /\ Feed(r, <<>>) = r
    BY FeedNone
  <2>2. Ends(<<>>) = {}
    BY DEF Ends
  <2>3. Cardinality(Ends(<<>>)) = 0
    BY <2>2, FS_EmptySet
  <2>4. r.delivered \in Seq(Seq(Byte))
    BY DEF Decoders
  <2>5. IsPrefix(r.delivered, r.delivered)
    BY <2>4 DEF IsPrefix
  <2> QED BY <2>1, <2>3, <2>4, <2>5
<1>2. ASSUME NEW v \in Seq(Byte), NEW b \in Byte, v \in S PROVE Append(v, b) \in S
  <2>1. PICK q : q = Feed(r, v)
    OBVIOUS
  <2>2. q \in Decoders /\ Feed(r, Append(v, b)) = Accept(q, b)
    BY <2>1, FeedType, FeedAppend
  <2>3. PICK k : k = IF b = END_ THEN 1 ELSE 0
    OBVIOUS
  <2>4. Cardinality(Ends(Append(v, b))) = Cardinality(Ends(v)) + k
    BY <2>3, EndsAppend
  <2>5. Cardinality(Ends(v)) \in Nat
    BY EndsFinite
  <2>6. /\ r.delivered \in Seq(Seq(Byte)) /\ q.delivered \in Seq(Seq(Byte))
        /\ IsPrefix(r.delivered, q.delivered)
        /\ Len(q.delivered) <= Len(r.delivered) + Cardinality(Ends(v))
    BY <1>2, <2>1, <2>2 DEF Decoders
  <2>7. PICK e : e = Accept(q, b).delivered
    OBVIOUS
  <2>8. Grows(q.delivered, e) /\ (b # END_ => e = q.delivered)
    BY <2>2, <2>7, AcceptGrows
  <2>9. IsPrefix(r.delivered, e) /\ Len(e) <= Len(q.delivered) + k
    <3>1. CASE e = q.delivered
      <4>1. Len(e) = Len(q.delivered) /\ Len(q.delivered) \in Nat /\ k \in {0, 1}
        BY <2>3, <2>6, <3>1
      <4>2. Len(e) <= Len(q.delivered) + k
        BY ONLY <4>1
      <4> QED BY <2>6, <3>1, <4>2
    <3>2. CASE e # q.delivered
      <4>1. PICK p \in Seq(Byte) : e = Append(q.delivered, p)
        BY <2>8, <3>2 DEF Grows
      <4>2. k = 1
        BY <2>3, <2>8, <3>2
      <4>3. IsPrefix(r.delivered, e)
        BY <2>6, <4>1 DEF IsPrefix
      <4> QED BY <2>6, <4>1, <4>2, <4>3
    <3> QED BY <3>1, <3>2
  <2>10. Len(e) <= Len(r.delivered) + Cardinality(Ends(Append(v, b)))
    <3>1. /\ Len(e) \in Nat /\ Len(q.delivered) \in Nat /\ Len(r.delivered) \in Nat
          /\ k \in {0, 1}
      <4>1. e \in Seq(Seq(Byte))
        BY <2>2, <2>7, AcceptType DEF Decoders
      <4> QED BY <2>3, <2>6, <4>1
    <3>2. PICK c \in Nat : c = Cardinality(Ends(v))
      BY <2>5
    <3>3. Len(e) <= Len(r.delivered) + (c + k)
      <4>1. Len(q.delivered) <= Len(r.delivered) + c /\ Len(e) <= Len(q.delivered) + k
        BY <2>6, <2>9, <3>2
      <4> QED BY ONLY <3>1, <3>2, <4>1
    <3> QED BY <2>4, <3>2, <3>3
  <2>11. Append(v, b) \in Seq(Byte)
    OBVIOUS
  <2> QED BY <2>2, <2>7, <2>9, <2>10, <2>11
<1>3. Seq(Byte) \subseteq S
  <2> HIDE DEF S
  <2> QED BY <1>1, <1>2, BytesInduction
<1> QED BY <1>3
(***************************************************************************)
(* encode(): the escaped bytes and the room made for them, byte by byte.   *)
(***************************************************************************)
LEMMA StuffedType == \A b \in Byte : Stuffed(b) \in Seq(Byte)
<1> SUFFICES ASSUME NEW b \in Byte PROVE Stuffed(b) \in Seq(Byte)
  OBVIOUS
<1>1. ESC \in Byte
  BY DEF ESC, Byte
<1>2. b \in Special => Code[b] \in Byte
  BY CodeValues DEF Special, Byte
<1> QED BY <1>1, <1>2 DEF Stuffed

LEMMA RoomType == \A b \in Byte : Room(b) \in Nat
BY DEF Room

\* Escaping bytes is a loop.
Escapes(f, s) == f = [i \in 0 .. Len(s) |-> IF i = 0 THEN <<>> ELSE f[i - 1] \o Stuffed(s[i])]

LEMMA EscapesExists ==
  ASSUME NEW s \in Seq(Byte)
  PROVE  \E f \in [0 .. Len(s) -> Seq(Byte)] : Escapes(f, s) /\ Escape(s) = f[Len(s)]
<1> DEFINE n == Len(s)
           g == [i \in 1 .. n |-> [v \in Seq(Byte) |-> v \o Stuffed(s[i])]]
<1>1. n \in Nat /\ \A i \in 1 .. n : s[i] \in Byte
  OBVIOUS
<1>2. <<>> \in Seq(Byte)
  OBVIOUS
<1> HIDE DEF n
<1>3. g \in [1 .. n -> [Seq(Byte) -> Seq(Byte)]]
  <2>1. ASSUME NEW i \in 1 .. n, NEW v \in Seq(Byte) PROVE v \o Stuffed(s[i]) \in Seq(Byte)
    <3>1. Stuffed(s[i]) \in Seq(Byte)
      BY <1>1, StuffedType
    <3> QED BY <3>1
  <2> QED BY <2>1
<1>4. PICK f \in [0 .. n -> Seq(Byte)] : Loops(f, n, <<>>, g)
  <2> HIDE DEF g
  <2> QED BY <1>1, <1>2, <1>3, LoopExists
<1>5. f[0] = <<>>
  BY <1>1, <1>4 DEF Loops
<1>6. ASSUME NEW i \in 0 .. n, i # 0 PROVE f[i] = f[i - 1] \o Stuffed(s[i])
  <2>1. i \in 1 .. n /\ i - 1 \in 0 .. n
    BY <1>1, <1>6
  <2>2. f[i] = g[i][f[i - 1]]
    BY <1>4, <1>6 DEF Loops
  <2>3. f[i - 1] \in Seq(Byte)
    BY <2>1
  <2> QED BY <2>1, <2>2, <2>3
<1>7. Escapes(f, s)
  BY <1>5, <1>6 DEF Escapes, n
<1>8. PICK e : e = CHOOSE h : Escapes(h, s)
  OBVIOUS
<1>9. Escapes(e, s)
  BY <1>7, <1>8
<1>10. Escape(s) = e[n]
  BY <1>8 DEF Escape, Escapes, n
<1> DEFINE T == {k \in Nat : k <= n => e[k] = f[k]}
<1>11. 0 \in T
  BY <1>1, <1>7, <1>9 DEF Escapes, n
<1>12. ASSUME NEW k \in Nat, k \in T PROVE k + 1 \in T
  <2> SUFFICES ASSUME k + 1 <= n PROVE e[k + 1] = f[k + 1]
    OBVIOUS
  <2>1. k + 1 \in 0 .. n /\ k + 1 # 0 /\ (k + 1) - 1 = k /\ e[k] = f[k]
    BY <1>1, <1>12
  <2>2. e[k + 1] = e[k] \o Stuffed(s[k + 1]) /\ f[k + 1] = f[k] \o Stuffed(s[k + 1])
    BY <1>7, <1>9, <2>1 DEF Escapes, n
  <2> QED BY <2>1, <2>2
<1>13. Nat \subseteq T
  <2> HIDE DEF T
  <2> QED BY <1>11, <1>12, SetInduction
<1>14. e[n] = f[n]
  BY <1>1, <1>13
<1> QED BY <1>7, <1>10, <1>14 DEF n

LEMMA EscapeNone == Escape(<<>>) = <<>>
<1>1. <<>> \in Seq(Byte) /\ Len(<<>>) = 0
  OBVIOUS
<1>2. PICK f : Escapes(f, <<>>) /\ Escape(<<>>) = f[0]
  BY <1>1, EscapesExists
<1>3. f = [i \in 0 .. 0 |-> IF i = 0 THEN <<>> ELSE f[i - 1] \o Stuffed(<<>>[i])]
  BY <1>1, <1>2 DEF Escapes
<1> QED BY <1>2, <1>3

LEMMA EscapeType ==
  ASSUME NEW s \in Seq(Byte)
  PROVE  Escape(s) \in Seq(Byte)
<1>1. PICK f \in [0 .. Len(s) -> Seq(Byte)] : Escape(s) = f[Len(s)]
  BY EscapesExists
<1> QED BY <1>1

LEMMA EscapeAppend ==
  ASSUME NEW s \in Seq(Byte), NEW b \in Byte
  PROVE  Escape(Append(s, b)) = Escape(s) \o Stuffed(b)
<1> DEFINE t == Append(s, b)
<1>1. PICK n \in Nat : n = Len(s)
  OBVIOUS
<1>2. /\ t \in Seq(Byte) /\ Len(t) = n + 1
      /\ \A i \in 1 .. n : t[i] = s[i]
      /\ t[n + 1] = b
  BY <1>1
<1> HIDE DEF t
<1>3. PICK f : Escapes(f, s) /\ Escape(s) = f[n]
  BY <1>1, EscapesExists
<1>4. PICK e : Escapes(e, t) /\ Escape(t) = e[n + 1]
  BY <1>1, <1>2, EscapesExists
<1> DEFINE T == {k \in Nat : k <= n => e[k] = f[k]}
<1>5. 0 \in T
  BY <1>1, <1>2, <1>3, <1>4 DEF Escapes
<1>6. ASSUME NEW k \in Nat, k \in T PROVE k + 1 \in T
  <2> SUFFICES ASSUME k + 1 <= n PROVE e[k + 1] = f[k + 1]
    OBVIOUS
  <2>1. /\ k + 1 \in 0 .. n /\ k + 1 \in 0 .. n + 1 /\ k + 1 # 0 /\ (k + 1) - 1 = k
        /\ k + 1 \in 1 .. n /\ e[k] = f[k]
    BY <1>6
  <2>2. e[k + 1] = e[k] \o Stuffed(t[k + 1])
    BY <1>2, <1>4, <2>1 DEF Escapes
  <2>3. f[k + 1] = f[k] \o Stuffed(s[k + 1])
    BY <1>1, <1>3, <2>1 DEF Escapes
  <2> QED BY <1>2, <2>1, <2>2, <2>3
<1>7. Nat \subseteq T
  <2> HIDE DEF T
  <2> QED BY <1>5, <1>6, SetInduction
<1>8. e[n] = f[n]
  BY <1>7
<1>9. n + 1 \in 0 .. n + 1 /\ n + 1 # 0 /\ (n + 1) - 1 = n
  OBVIOUS
<1>10. e[n + 1] = e[n] \o Stuffed(t[n + 1])
  BY <1>2, <1>4, <1>9 DEF Escapes
<1> QED BY <1>2, <1>3, <1>4, <1>8, <1>10 DEF t

\* So is counting the room for them.
Sizes(f, s) == f = [i \in 0 .. Len(s) |-> IF i = 0 THEN 0 ELSE f[i - 1] + Room(s[i])]

LEMMA SizesExists ==
  ASSUME NEW s \in Seq(Byte)
  PROVE  \E f \in [0 .. Len(s) -> Nat] : Sizes(f, s) /\ EncodedSize(s) = f[Len(s)]
<1> DEFINE n == Len(s)
           g == [i \in 1 .. n |-> [v \in Nat |-> v + Room(s[i])]]
<1>1. n \in Nat /\ \A i \in 1 .. n : s[i] \in Byte
  OBVIOUS
<1>2. 0 \in Nat
  OBVIOUS
<1> HIDE DEF n
<1>3. g \in [1 .. n -> [Nat -> Nat]]
  <2>1. ASSUME NEW i \in 1 .. n, NEW v \in Nat PROVE v + Room(s[i]) \in Nat
    <3>1. Room(s[i]) \in Nat
      BY <1>1, RoomType
    <3> QED BY <3>1
  <2> QED BY <2>1
<1>4. PICK f \in [0 .. n -> Nat] : Loops(f, n, 0, g)
  <2> HIDE DEF g
  <2> QED BY <1>1, <1>2, <1>3, LoopExists
<1>5. f[0] = 0
  BY <1>1, <1>4 DEF Loops
<1>6. ASSUME NEW i \in 0 .. n, i # 0 PROVE f[i] = f[i - 1] + Room(s[i])
  <2>1. i \in 1 .. n /\ i - 1 \in 0 .. n
    BY <1>1, <1>6
  <2>2. f[i] = g[i][f[i - 1]]
    BY <1>4, <1>6 DEF Loops
  <2>3. f[i - 1] \in Nat
    BY <2>1
  <2> QED BY <2>1, <2>2, <2>3
<1>7. Sizes(f, s)
  BY <1>5, <1>6 DEF Sizes, n
<1>8. PICK e : e = CHOOSE h : Sizes(h, s)
  OBVIOUS
<1>9. Sizes(e, s)
  BY <1>7, <1>8
<1>10. EncodedSize(s) = e[n]
  BY <1>8 DEF EncodedSize, Sizes, n
<1> DEFINE T == {k \in Nat : k <= n => e[k] = f[k]}
<1>11. 0 \in T
  BY <1>1, <1>7, <1>9 DEF Sizes, n
<1>12. ASSUME NEW k \in Nat, k \in T PROVE k + 1 \in T
  <2> SUFFICES ASSUME k + 1 <= n PROVE e[k + 1] = f[k + 1]
    OBVIOUS
  <2>1. k + 1 \in 0 .. n /\ k + 1 # 0 /\ (k + 1) - 1 = k /\ e[k] = f[k]
    BY <1>1, <1>12
  <2>2. e[k + 1] = e[k] + Room(s[k + 1]) /\ f[k + 1] = f[k] + Room(s[k + 1])
    BY <1>7, <1>9, <2>1 DEF Sizes, n
  <2> QED BY <2>1, <2>2
<1>13. Nat \subseteq T
  <2> HIDE DEF T
  <2> QED BY <1>11, <1>12, SetInduction
<1>14. e[n] = f[n]
  BY <1>1, <1>13
<1> QED BY <1>7, <1>10, <1>14 DEF n

LEMMA EncodedSizeNone == EncodedSize(<<>>) = 0
<1>1. <<>> \in Seq(Byte) /\ Len(<<>>) = 0
  OBVIOUS
<1>2. PICK f : Sizes(f, <<>>) /\ EncodedSize(<<>>) = f[0]
  BY <1>1, SizesExists
<1>3. f = [i \in 0 .. 0 |-> IF i = 0 THEN 0 ELSE f[i - 1] + Room(<<>>[i])]
  BY <1>1, <1>2 DEF Sizes
<1> QED BY <1>2, <1>3

LEMMA EncodedSizeType ==
  ASSUME NEW s \in Seq(Byte)
  PROVE  EncodedSize(s) \in Nat
<1>1. PICK f \in [0 .. Len(s) -> Nat] : EncodedSize(s) = f[Len(s)]
  BY SizesExists
<1> QED BY <1>1

LEMMA EncodedSizeAppend ==
  ASSUME NEW s \in Seq(Byte), NEW b \in Byte
  PROVE  EncodedSize(Append(s, b)) = EncodedSize(s) + Room(b)
<1> DEFINE t == Append(s, b)
<1>1. PICK n \in Nat : n = Len(s)
  OBVIOUS
<1>2. /\ t \in Seq(Byte) /\ Len(t) = n + 1
      /\ \A i \in 1 .. n : t[i] = s[i]
      /\ t[n + 1] = b
  BY <1>1
<1> HIDE DEF t
<1>3. PICK f : Sizes(f, s) /\ EncodedSize(s) = f[n]
  BY <1>1, SizesExists
<1>4. PICK e : Sizes(e, t) /\ EncodedSize(t) = e[n + 1]
  BY <1>1, <1>2, SizesExists
<1> DEFINE T == {k \in Nat : k <= n => e[k] = f[k]}
<1>5. 0 \in T
  BY <1>1, <1>2, <1>3, <1>4 DEF Sizes
<1>6. ASSUME NEW k \in Nat, k \in T PROVE k + 1 \in T
  <2> SUFFICES ASSUME k + 1 <= n PROVE e[k + 1] = f[k + 1]
    OBVIOUS
  <2>1. /\ k + 1 \in 0 .. n /\ k + 1 \in 0 .. n + 1 /\ k + 1 # 0 /\ (k + 1) - 1 = k
        /\ k + 1 \in 1 .. n /\ e[k] = f[k]
    BY <1>6
  <2>2. e[k + 1] = e[k] + Room(t[k + 1])
    BY <1>2, <1>4, <2>1 DEF Sizes
  <2>3. f[k + 1] = f[k] + Room(s[k + 1])
    BY <1>1, <1>3, <2>1 DEF Sizes
  <2> QED BY <1>2, <2>1, <2>2, <2>3
<1>7. Nat \subseteq T
  <2> HIDE DEF T
  <2> QED BY <1>5, <1>6, SetInduction
<1>8. e[n] = f[n]
  BY <1>7
<1>9. n + 1 \in 0 .. n + 1 /\ n + 1 # 0 /\ (n + 1) - 1 = n
  OBVIOUS
<1>10. e[n + 1] = e[n] + Room(t[n + 1])
  BY <1>2, <1>4, <1>9 DEF Sizes
<1> QED BY <1>2, <1>3, <1>4, <1>8, <1>10 DEF t

\* encode() writes as many bytes as encodedSize() counted.
LEMMA EscapeFills == \A s \in Seq(Byte) : EncodedSize(s) = Len(Escape(s))
<1> DEFINE S == {s \in Seq(Byte) : EncodedSize(s) = Len(Escape(s))}
<1>1. <<>> \in S
  BY EscapeNone, EncodedSizeNone
<1>2. ASSUME NEW s \in Seq(Byte), NEW b \in Byte, s \in S PROVE Append(s, b) \in S
  <2>1. Escape(s) \in Seq(Byte) /\ Stuffed(b) \in Seq(Byte)
    BY EscapeType, StuffedType
  <2>2. Len(Escape(s) \o Stuffed(b)) = Len(Escape(s)) + Len(Stuffed(b))
    BY <2>1
  <2>3. Len(Stuffed(b)) = Room(b)
    BY DEF Stuffed, Room
  <2>4. EncodedSize(Append(s, b)) = Len(Escape(s)) + Room(b)
    BY <1>2, EncodedSizeAppend
  <2>5. Append(s, b) \in Seq(Byte)
    OBVIOUS
  <2> QED BY <2>2, <2>3, <2>4, <2>5, EscapeAppend
<1>3. Seq(Byte) \subseteq S
  <2> HIDE DEF S
  <2> QED BY <1>1, <1>2, BytesInduction
<1> QED BY <1>3

\* None of these bytes is written for a payload or a checksum.
Kept == {END_, XON, XOFF}

LEMMA EscapeClean ==
  \A s \in Seq(Byte) : \A i \in DOMAIN Escape(s) : Escape(s)[i] \notin Kept
<1> DEFINE Clean(v) == \A i \in DOMAIN v : v[i] \notin Kept
           S == {s \in Seq(Byte) : Clean(Escape(s))}
<1>1. <<>> \in S
  BY EscapeNone
<1>2. ASSUME NEW s \in Seq(Byte), NEW b \in Byte, s \in S PROVE Append(s, b) \in S
  <2>1. PICK u \in Seq(Byte) : u = Escape(s)
    BY EscapeType
  <2>2. PICK v \in Seq(Byte) : v = Stuffed(b)
    BY StuffedType
  <2>3. \A i \in DOMAIN v : v[i] \notin Kept
    <3>1. CASE b \in Special
      <4>1. v = <<ESC, Code[b]>>
        BY <2>2, <3>1 DEF Stuffed
      <4>2. ESC \notin Kept /\ Code[b] \notin Kept
        BY <3>1, CodeValues DEF Kept, Special, END_, ESC, XON, XOFF
      <4> QED BY <4>1, <4>2
    <3>2. CASE b \notin Special
      <4>1. v = <<b>>
        BY <2>2, <3>2 DEF Stuffed
      <4> QED BY <3>2, <4>1 DEF Kept, Special
    <3> QED BY <3>1, <3>2
  <2>4. Clean(u \o v)
    <3>1. \A i \in DOMAIN u : u[i] \notin Kept
      BY <1>2, <2>1
    <3> QED BY <2>3, <3>1
  <2>5. Escape(Append(s, b)) = u \o v
    BY <2>1, <2>2, EscapeAppend
  <2>6. Append(s, b) \in Seq(Byte)
    OBVIOUS
  <2> QED BY <2>4, <2>5, <2>6
<1>3. Seq(Byte) \subseteq S
  <2> HIDE DEF S
  <2> QED BY <1>1, <1>2, BytesInduction
<1> QED BY <1>3

\* Feeding one byte.
LEMMA FeedOne ==
  ASSUME NEW r \in Decoders, NEW b \in Byte
  PROVE  Feed(r, <<b>>) = Accept(r, b)
<1>1. <<b>> = Append(<<>>, b) /\ <<>> \in Seq(Byte)
  OBVIOUS
<1> QED BY <1>1, FeedAppend, FeedNone

\* Feeding an escaped byte, and one that needs no escape.
LEMMA FeedStuffed ==
  ASSUME NEW r \in Decoders, NEW b \in Byte
  PROVE  Feed(r, Stuffed(b)) = IF b \in Special THEN Accept(Accept(r, ESC), Code[b])
                                                ELSE Accept(r, b)
<1>1. CASE b \in Special
  <2>1. Stuffed(b) = Append(<<ESC>>, Code[b])
    BY <1>1 DEF Stuffed
  <2>2. ESC \in Byte /\ Code[b] \in Byte /\ <<ESC>> \in Seq(Byte)
    <3>1. ESC \in Byte /\ Code[b] \in Byte
      BY <1>1, CodeValues DEF Special, Byte, ESC
    <3> QED BY <3>1
  <2> QED BY <1>1, <2>1, <2>2, FeedAppend, FeedOne
<1>2. CASE b \notin Special
  BY <1>2, FeedOne DEF Stuffed
<1> QED BY <1>1, <1>2

\* A decoder that is not in the middle of an escape gets the byte that was
\* stuffed.
LEMMA StuffedRead ==
  ASSUME NEW r \in Decoders, ~r.escaping, NEW b \in Byte
  PROVE  Feed(r, Stuffed(b)) = [r EXCEPT !.decoded = Append(@, b)]
<1>1. CASE b \in Special
  <2>1. PICK q : q = Accept(r, ESC)
    OBVIOUS
  <2>2. q = [r EXCEPT !.escaping = TRUE]
    BY <2>1, AcceptCases
  <2>3. q \in Decoders /\ q.escaping /\ q.decoded = r.decoded /\ q.delivered = r.delivered
    BY <2>2 DEF Decoders
  <2>4. Accept(q, Code[b]) = [q EXCEPT !.decoded = Append(@, Unescape(Code[b])),
                                       !.escaping = FALSE]
    BY <2>3, AcceptCases
  <2>5. Accept(q, Code[b]) = [q EXCEPT !.decoded = Append(@, b), !.escaping = FALSE]
    BY <1>1, <2>4, UnescapeCode
  <2>6. r.escaping = FALSE
    BY DEF Decoders
  <2>7. PICK d : d = Append(r.decoded, b)
    OBVIOUS
  <2>8. Accept(q, Code[b]) = [q EXCEPT !.decoded = d, !.escaping = FALSE]
    BY <2>3, <2>5, <2>7
  <2>9. [q EXCEPT !.decoded = d, !.escaping = FALSE] = [r EXCEPT !.decoded = d]
    BY <2>2, <2>3, <2>6 DEF Decoders
  <2> QED BY <1>1, <2>1, <2>7, <2>8, <2>9, FeedStuffed
<1>2. CASE b \notin Special
  <2>1. b \notin {END_, ESC}
    BY <1>2 DEF Special
  <2> QED BY <1>2, <2>1, FeedStuffed, AcceptCases
<1> QED BY <1>1, <1>2

\* The bytes of one byte more are read after those of the others.
LEMMA FeedEscape ==
  ASSUME NEW r \in Decoders, NEW s \in Seq(Byte), NEW b \in Byte
  PROVE  Feed(r, Escape(Append(s, b))) = Feed(Feed(r, Escape(s)), Stuffed(b))
<1>1. PICK u \in Seq(Byte) : u = Escape(s)
  BY EscapeType
<1>2. PICK v \in Seq(Byte) : v = Stuffed(b)
  BY StuffedType
<1>3. Escape(Append(s, b)) = u \o v
  BY <1>1, <1>2, EscapeAppend
<1>4. Feed(r, u \o v) = Feed(Feed(r, u), v)
  BY FeedConcat
<1> QED BY <1>1, <1>2, <1>3, <1>4

LEMMA EscapeRead ==
  ASSUME NEW r \in Decoders, ~r.escaping, NEW s \in Seq(Byte)
  PROVE  Feed(r, Escape(s)) = [r EXCEPT !.decoded = @ \o s]
<1> DEFINE S == {v \in Seq(Byte) : Feed(r, Escape(v)) = [r EXCEPT !.decoded = @ \o v]}
<1>1. r.decoded \in Seq(Byte)
  BY DEF Decoders
<1>2. <<>> \in S
  <2>1. r.decoded \o <<>> = r.decoded /\ <<>> \in Seq(Byte)
    BY <1>1
  <2>2. [r EXCEPT !.decoded = @ \o <<>>] = r
    BY <2>1 DEF Decoders
  <2> QED BY <2>1, <2>2, EscapeNone, FeedNone
<1>3. ASSUME NEW v \in Seq(Byte), NEW b \in Byte, v \in S PROVE Append(v, b) \in S
  <2>1. PICK q : q = Feed(r, Escape(v))
    OBVIOUS
  <2>2. PICK d \in Seq(Byte) : d = r.decoded \o v
    <3>1. r.decoded \o v \in Seq(Byte)
      BY <1>1
    <3> QED BY <3>1
  <2>3. q = [r EXCEPT !.decoded = d]
    BY <1>3, <2>1, <2>2
  <2>4. q \in Decoders /\ ~q.escaping /\ q.decoded = d
    BY <2>3 DEF Decoders
  <2>5. Escape(v) \in Seq(Byte) /\ Stuffed(b) \in Seq(Byte)
    BY EscapeType, StuffedType
  <2>6. Feed(r, Escape(Append(v, b))) = Feed(q, Stuffed(b))
    BY <2>1, FeedEscape
  <2>7. PICK e : e = Append(d, b)
    OBVIOUS
  <2>8. Feed(q, Stuffed(b)) = [q EXCEPT !.decoded = e]
    BY <2>4, <2>7, StuffedRead
  <2>9. [q EXCEPT !.decoded = e] = [r EXCEPT !.decoded = e]
    BY <2>3 DEF Decoders
  <2>10. e = r.decoded \o Append(v, b)
    <3>1. PICK w \in Seq(Byte) : w = r.decoded
      BY <1>1
    <3>2. w \o Append(v, b) = Append(w \o v, b)
      <4>1. w \in Seq(Byte) /\ v \in Seq(Byte) /\ b \in Byte
        OBVIOUS
      <4> QED BY ONLY <4>1, ConcatAppend
    <3> QED BY <2>2, <2>7, <3>1, <3>2
  <2>11. Append(v, b) \in Seq(Byte)
    OBVIOUS
  <2> QED BY <2>6, <2>8, <2>9, <2>10, <2>11
<1>4. Seq(Byte) \subseteq S
  <2> HIDE DEF S
  <2> QED BY <1>2, <1>3, BytesInduction
<1> QED BY <1>4

\* A decoder in any state gets at least one byte for a byte that was stuffed,
\* and is not in the middle of an escape behind it.
LEMMA StuffedEnds ==
  ASSUME NEW r \in Decoders, NEW b \in Byte
  PROVE  /\ ~Feed(r, Stuffed(b)).escaping
         /\ Len(Feed(r, Stuffed(b)).decoded) >= Len(r.decoded) + 1
<1>1. r.escaping \in BOOLEAN /\ r.decoded \in Seq(Byte) /\ Len(r.decoded) \in Nat
  BY DEF Decoders
<1>2. CASE ~r.escaping
  <2>1. PICK d : d = Append(r.decoded, b)
    OBVIOUS
  <2>2. Feed(r, Stuffed(b)) = [r EXCEPT !.decoded = d]
    BY <1>2, <2>1, StuffedRead
  <2>3. Feed(r, Stuffed(b)).decoded = d /\ Feed(r, Stuffed(b)).escaping = r.escaping
    BY <2>2 DEF Decoders
  <2>4. Len(d) = Len(r.decoded) + 1
    BY <1>1, <2>1
  <2> QED BY <1>1, <1>2, <2>3, <2>4
<1>3. CASE r.escaping
  <2> DEFINE v == IF b \in Special THEN ESC ELSE b
  <2>1. PICK d : d = Append(r.decoded, Unescape(v))
    OBVIOUS
  <2>2. Accept(r, v) = [r EXCEPT !.decoded = d, !.escaping = FALSE]
    BY <1>3, <2>1, AcceptCases
  <2>3. v \in Byte
    BY DEF ESC, Byte
  <2>4. d \in Seq(Byte) /\ Len(d) = Len(r.decoded) + 1
    <3>1. Unescape(v) \in Byte
      BY <2>3, UnescapeType
    <3> HIDE DEF v
    <3> QED BY <1>1, <2>1, <3>1
  <2>5. PICK q : q = Accept(r, v)
    OBVIOUS
  <2>6. q \in Decoders /\ ~q.escaping /\ q.decoded = d
    BY <2>2, <2>4, <2>5 DEF Decoders
  <2>7. CASE b \notin Special
    BY <1>1, <2>4, <2>5, <2>6, <2>7, FeedStuffed
  <2>8. CASE b \in Special
    <3>1. Feed(r, Stuffed(b)) = Accept(q, Code[b])
      BY <2>5, <2>8, FeedStuffed
    <3>2. Code[b] \notin {END_, ESC}
      BY <2>8, CodeValues DEF Special, END_, ESC, XON, XOFF
    <3>3. PICK e : e = Append(d, Code[b])
      OBVIOUS
    <3>4. Accept(q, Code[b]) = [q EXCEPT !.decoded = e]
      BY <2>6, <3>2, <3>3, AcceptCases
    <3>5. Accept(q, Code[b]).decoded = e /\ ~Accept(q, Code[b]).escaping
      BY <2>6, <3>4 DEF Decoders
    <3>6. Len(e) = Len(d) + 1
      BY <2>4, <3>3
    <3> QED BY <1>1, <2>4, <3>1, <3>5, <3>6
  <2> QED BY <2>7, <2>8
<1> QED BY <1>1, <1>2, <1>3

LEMMA EscapeEnds ==
  ASSUME NEW r \in Decoders, NEW s \in Seq(Byte)
  PROVE  /\ s # <<>> => ~Feed(r, Escape(s)).escaping
         /\ Len(Feed(r, Escape(s)).decoded) >= Len(r.decoded) + Len(s)
<1> DEFINE Filled(v) == /\ v # <<>> => ~Feed(r, Escape(v)).escaping
                        /\ Len(Feed(r, Escape(v)).decoded) >= Len(r.decoded) + Len(v)
           S == {v \in Seq(Byte) : Filled(v)}
<1>1. r.decoded \in Seq(Byte) /\ Len(r.decoded) \in Nat
  BY DEF Decoders
<1>2. <<>> \in S
  <2>1. <<>> \in Seq(Byte) /\ Len(<<>>) = 0
    OBVIOUS
  <2> QED BY <1>1, <2>1, EscapeNone, FeedNone
<1>3. ASSUME NEW v \in Seq(Byte), NEW b \in Byte, v \in S PROVE Append(v, b) \in S
  <2>1. PICK q : q = Feed(r, Escape(v))
    OBVIOUS
  <2>2. Escape(v) \in Seq(Byte) /\ Stuffed(b) \in Seq(Byte)
    BY EscapeType, StuffedType
  <2>3. q \in Decoders
    BY <2>1, <2>2, FeedType
  <2>4. PICK p : p = Feed(q, Stuffed(b))
    OBVIOUS
  <2>5. Feed(r, Escape(Append(v, b))) = p
    BY <2>1, <2>4, FeedEscape
  <2>6. p \in Decoders /\ ~p.escaping /\ Len(p.decoded) >= Len(q.decoded) + 1
    BY <2>2, <2>3, <2>4, StuffedEnds, FeedType
  <2>7. Len(q.decoded) >= Len(r.decoded) + Len(v)
    BY <1>3, <2>1
  <2>8. Len(p.decoded) \in Nat /\ Len(q.decoded) \in Nat
    BY <2>3, <2>6 DEF Decoders
  <2>9. Append(v, b) \in Seq(Byte) /\ Len(Append(v, b)) = Len(v) + 1 /\ Len(v) \in Nat
    OBVIOUS
  <2>10. Len(p.decoded) >= Len(r.decoded) + (Len(v) + 1)
    <3>1. PICK lp \in Nat, lq \in Nat, lr \in Nat, lv \in Nat :
            lp = Len(p.decoded) /\ lq = Len(q.decoded) /\ lr = Len(r.decoded) /\ lv = Len(v)
      BY <1>1, <2>8, <2>9
    <3>2. lp >= lq + 1 /\ lq >= lr + lv
      BY <2>6, <2>7, <3>1
    <3>3. lp >= lr + (lv + 1)
      BY <3>2
    <3> QED BY <3>1, <3>3
  <2>11. Filled(Append(v, b))
    BY <2>5, <2>6, <2>9, <2>10
  <2> HIDE DEF Filled
  <2> QED BY <2>9, <2>11
<1>4. Seq(Byte) \subseteq S
  <2> HIDE DEF S
  <2> QED BY <1>2, <1>3, BytesInduction
<1> QED BY <1>4

(***************************************************************************)
(* A frame: the escaped payload, its escaped checksum and an END.          *)
(***************************************************************************)
Body(p) == Escape(p) \o Escape(Checksum(p))

LEMMA HalvesAreBytes ==
  ASSUME NEW c \in Nat, c < 65536
  PROVE  c % 256 \in Byte /\ c \div 256 \in Byte
<1>1. PICK q \in Int : q = c \div 256
  OBVIOUS
<1>2. 256 * q <= c /\ c < 256 * q + 256
  BY <1>1
<1>3. 0 <= q /\ q <= 255
  BY <1>2
<1>4. PICK m \in Int : m = c % 256
  OBVIOUS
<1>5. 0 <= m /\ m <= 255
  BY <1>4
<1>6. q \in 0 .. 255 /\ m \in 0 .. 255
  BY <1>3, <1>5
<1> QED BY <1>1, <1>4, <1>6 DEF Byte

LEMMA ChecksumType ==
  ASSUME NEW p \in Payloads
  PROVE  Checksum(p) \in Seq(Byte) /\ Len(Checksum(p)) = 2
<1>1. PICK crc \in Nat : crc = CRC16(p) /\ crc < 65536
  BY CrcAssumption
<1>2. crc % 256 \in Byte /\ crc \div 256 \in Byte
  BY <1>1, HalvesAreBytes
<1>3. Checksum(p) = <<crc % 256, crc \div 256>>
  BY <1>1 DEF Checksum
<1> QED BY <1>2, <1>3

LEMMA BodyType ==
  ASSUME NEW p \in Payloads
  PROVE  /\ p \in Seq(Byte) /\ Escape(p) \in Seq(Byte) /\ Escape(Checksum(p)) \in Seq(Byte)
         /\ Body(p) \in Seq(Byte) /\ Frame(p) = Append(Body(p), END_)
         /\ Frame(p) \in Seq(Byte)
<1>1. p \in Seq(Byte)
  BY PayloadsAssumption
<1>2. PICK u \in Seq(Byte) : u = Escape(p)
  BY <1>1, EscapeType
<1>3. PICK v \in Seq(Byte) : v = Escape(Checksum(p))
  BY ChecksumType, EscapeType
<1>4. PICK w \in Seq(Byte) : w = u \o v
  <2>1. u \o v \in Seq(Byte)
    OBVIOUS
  <2> QED BY <2>1
<1>5. END_ \in Byte
  BY DEF END_, Byte
<1>6. w \o <<END_>> = Append(w, END_) /\ Append(w, END_) \in Seq(Byte)
  BY <1>5
<1> QED BY <1>1, <1>2, <1>3, <1>4, <1>6 DEF Body, Frame

LEMMA FeedFrame ==
  ASSUME NEW r \in Decoders, NEW p \in Payloads
  PROVE  /\ Feed(r, Body(p)) = Feed(Feed(r, Escape(p)), Escape(Checksum(p)))
         /\ Feed(r, Frame(p)) = Accept(Feed(r, Body(p)), END_)
<1>1. END_ \in Byte
  BY DEF END_, Byte
<1>2. Feed(r, Body(p)) = Feed(Feed(r, Escape(p)), Escape(Checksum(p)))
  BY BodyType, FeedConcat DEF Body
<1>3. Feed(r, Frame(p)) = Accept(Feed(r, Body(p)), END_)
  BY <1>1, BodyType, FeedAppend
<1> QED BY <1>2, <1>3

\* A decoder at the beginning of a frame.
Fresh(r) == ~r.escaping /\ r.decoded = <<>>

\* From there a frame hands over its payload, and leaves the decoder there.
LEMMA FrameRead ==
  ASSUME NEW r \in Decoders, Fresh(r), NEW p \in Payloads
  PROVE  Feed(r, Frame(p)) = [r EXCEPT !.delivered = Append(@, p)]
<1>1. PICK c \in Seq(Byte) : c = Checksum(p) /\ Len(c) = 2
  BY ChecksumType
<1>2. p \in Seq(Byte)
  BY BodyType
<1>3. PICK a : a = Feed(r, Escape(p))
  OBVIOUS
<1>4. a = [r EXCEPT !.decoded = p]
  <2>1. r.decoded \o p = p
    BY <1>2 DEF Fresh
  <2> QED BY <1>2, <1>3, <2>1, EscapeRead DEF Fresh
<1>5. a \in Decoders /\ ~a.escaping /\ a.decoded = p /\ a.delivered = r.delivered
  BY <1>2, <1>4 DEF Decoders, Fresh
<1>6. PICK d : d = p \o c
  OBVIOUS
<1>7. PICK z : z = Feed(r, Body(p))
  OBVIOUS
<1>8. z = [a EXCEPT !.decoded = d]
  <2>1. z = Feed(a, Escape(c))
    BY <1>1, <1>3, <1>7, FeedFrame
  <2> QED BY <1>1, <1>5, <1>6, <2>1, EscapeRead
<1>9. /\ d \in Seq(Byte) /\ Len(d) = Len(p) + 2 /\ Len(p) \in Nat
      /\ SubSeq(d, 1, Len(p)) = p /\ SubSeq(d, Len(p) + 1, Len(p) + 2) = c
  <2>1. d \in Seq(Byte) /\ Len(d) = Len(p) + Len(c)
    BY <1>1, <1>2, <1>6, ConcatSplits
  <2>2. SubSeq(d, 1, Len(p)) = p
    BY <1>1, <1>2, <1>6, ConcatSplits
  <2>3. SubSeq(d, Len(p) + 1, Len(p) + Len(c)) = c
    BY <1>1, <1>2, <1>6, ConcatSplits
  <2>4. Len(p) \in Nat
    BY <1>2
  <2> QED BY <1>1, <2>1, <2>2, <2>3, <2>4
<1>10. z \in Decoders /\ ~z.escaping /\ z.decoded = d /\ z.delivered = r.delivered
  BY <1>5, <1>8, <1>9 DEF Decoders
<1>11. Accept(z, END_) = Finish(z)
  BY <1>10, AcceptCases
<1>12. PICK n \in Nat : n = Len(p)
  BY <1>9
<1>13. Len(z.decoded) = n + 2 /\ ~(n + 2 < 2) /\ (n + 2) - 2 = n /\ (n + 2) - 1 = n + 1
  BY <1>9, <1>10, <1>12
<1>14. Finish(z) = [z EXCEPT !.decoded = <<>>, !.delivered = Append(@, p)]
  BY <1>1, <1>9, <1>10, <1>12, <1>13 DEF Finish
<1>15. PICK e : e = Append(r.delivered, p)
  OBVIOUS
<1>16. Finish(z) = [z EXCEPT !.decoded = <<>>, !.delivered = e]
  BY <1>10, <1>14, <1>15
<1>17. [z EXCEPT !.decoded = <<>>, !.delivered = e] = [r EXCEPT !.delivered = e]
  BY <1>4, <1>8 DEF Decoders, Fresh
<1> QED BY <1>7, <1>11, <1>15, <1>16, <1>17, FeedFrame

\* Whatever was damaged before it, behind a frame the decoder is at the
\* beginning of the next one.
LEMMA FrameResyncs ==
  ASSUME NEW r \in Decoders, NEW p \in Payloads
  PROVE  Fresh(Feed(r, Frame(p)))
<1>1. PICK c \in Seq(Byte) : c = Checksum(p) /\ Len(c) = 2
  BY ChecksumType
<1>2. PICK a : a = Feed(r, Escape(p))
  OBVIOUS
<1>3. PICK z : z = Feed(r, Body(p))
  OBVIOUS
<1>4. a \in Decoders /\ z \in Decoders
  BY <1>2, <1>3, BodyType, FeedType
<1>5. z = Feed(a, Escape(c))
  BY <1>1, <1>2, <1>3, FeedFrame
<1>6. c # <<>>
  BY <1>1, EmptySeq
<1>7. ~z.escaping /\ Len(z.decoded) >= Len(a.decoded) + Len(c)
  BY <1>4, <1>5, <1>6, EscapeEnds
<1>8. PICK size \in Nat : size = Len(z.decoded)
  BY <1>4 DEF Decoders
<1>9. ~(size < 2)
  <2>1. PICK k \in Nat : k = Len(a.decoded)
    BY <1>4 DEF Decoders
  <2>2. size >= k + 2
    BY <1>1, <1>7, <1>8, <2>1
  <2> QED BY <2>2
<1>10. Accept(z, END_) = Finish(z)
  BY <1>4, <1>7, AcceptCases
<1>11. PICK d : Finish(z) = [z EXCEPT !.decoded = <<>>, !.delivered = d]
  BY <1>8, <1>9 DEF Finish
<1>12. Fresh(Finish(z))
  BY <1>4, <1>7, <1>11 DEF Fresh, Decoders
<1> QED BY <1>3, <1>10, <1>12, FeedFrame

\* A frame has one END, at its end, and no byte of the flow control.
LEMMA FrameClean ==
  ASSUME NEW p \in Payloads
  PROVE  /\ Cardinality(Ends(Frame(p))) = 1
         /\ \A i \in DOMAIN Frame(p) : Frame(p)[i] \notin {XON, XOFF}
<1>1. PICK u \in Seq(Byte) : u = Escape(p)
  BY BodyType
<1>2. PICK v \in Seq(Byte) : v = Escape(Checksum(p))
  BY BodyType
<1>3. PICK w \in Seq(Byte) : w = u \o v
  <2>1. u \o v \in Seq(Byte)
    OBVIOUS
  <2> QED BY <2>1
<1>4. \A i \in DOMAIN w : w[i] \notin Kept
  <2>1. \A i \in DOMAIN u : u[i] \notin Kept
    BY <1>1, BodyType, EscapeClean
  <2>2. \A i \in DOMAIN v : v[i] \notin Kept
    BY <1>2, ChecksumType, EscapeClean
  <2> QED BY <1>3, <2>1, <2>2
<1>5. Ends(w) = {}
  BY <1>4 DEF Ends, Kept
<1>6. Frame(p) = Append(w, END_) /\ END_ \in Byte
  <2>1. Frame(p) = Append(Body(p), END_)
    BY BodyType
  <2>2. Body(p) = w
    BY <1>1, <1>2, <1>3 DEF Body
  <2>3. END_ \in Byte
    BY DEF END_, Byte
  <2> QED BY <2>1, <2>2, <2>3
<1>7. Cardinality(Ends(Append(w, END_))) = 1
  <2>1. Cardinality(Ends(w)) = 0
    BY <1>5, FS_EmptySet
  <2>2. Cardinality(Ends(Append(w, END_))) = Cardinality(Ends(w)) + (IF END_ = END_ THEN 1 ELSE 0)
    BY <1>6, EndsAppend
  <2> QED BY <2>1, <2>2
<1>8. ASSUME NEW i \in DOMAIN Append(w, END_)
      PROVE  Append(w, END_)[i] \notin {XON, XOFF}
  <2>1. CASE i \in DOMAIN w
    <3>1. Append(w, END_)[i] = w[i]
      BY <2>1
    <3> QED BY <1>4, <2>1, <3>1 DEF Kept
  <2>2. CASE i \notin DOMAIN w
    <3>1. Append(w, END_)[i] = END_
      BY <2>2
    <3> QED BY <3>1 DEF END_, XON, XOFF
  <2> QED BY <2>1, <2>2
<1> QED BY <1>6, <1>7, <1>8

(***************************************************************************)
(* The types.                                                              *)
(***************************************************************************)
LEMMA DecoderType ==
  ASSUME TypeOK
  PROVE  /\ Decoder \in Decoders
         /\ Decoder.escaping = escaping /\ Decoder.decoded = decoded
         /\ Decoder.delivered = delivered
BY DEF TypeOK, Decoder, Decoders

LEMMA DamagedType ==
  ASSUME NEW w \in Seq(Byte), NEW i \in 1 .. Len(w) + 1, NEW b \in Byte
  PROVE  /\ i \in DOMAIN w => RemoveAt(w, i) \in Seq(Byte) /\ ReplaceAt(w, i, b) \in Seq(Byte)
         /\ InsertAt(w, i, b) \in Seq(Byte)
<1>1. PICK n \in Nat : n = Len(w) /\ DOMAIN w = 1 .. n
  OBVIOUS
<1>2. SubSeq(w, 1, i - 1) \in Seq(Byte) /\ SubSeq(w, i, Len(w)) \in Seq(Byte)
  BY <1>1
<1>3. InsertAt(w, i, b) \in Seq(Byte)
  BY <1>2 DEF InsertAt
<1>4. ASSUME i \in DOMAIN w PROVE RemoveAt(w, i) \in Seq(Byte)
  <2>1. SubSeq(w, i + 1, Len(w)) \in Seq(Byte)
    BY <1>1, <1>4
  <2> QED BY <1>2, <2>1 DEF RemoveAt
<1>5. ASSUME i \in DOMAIN w PROVE ReplaceAt(w, i, b) \in Seq(Byte)
  BY <1>1, <1>5 DEF ReplaceAt
<1> QED BY <1>3, <1>4, <1>5

\* What a read takes off the line, and what it leaves there.
LEMMA ReadSplits ==
  ASSUME NEW w \in Seq(Byte), NEW n \in DOMAIN w
  PROVE  /\ SubSeq(w, 1, n) \in Seq(Byte)
         /\ SubSeq(w, n + 1, Len(w)) \in Seq(Byte)
         /\ w = SubSeq(w, 1, n) \o SubSeq(w, n + 1, Len(w))
<1>1. n \in 1 .. Len(w) /\ Len(w) \in Nat
  OBVIOUS
<1>2. SubSeq(w, 1, n) \in Seq(Byte) /\ SubSeq(w, n + 1, Len(w)) \in Seq(Byte)
  BY <1>1
<1>3. w = SubSeq(w, 1, n) \o SubSeq(w, n + 1, Len(w))
  <2>1. PICK m \in Nat : m = Len(w)
    BY <1>1
  <2>2. PICK u \in Seq(Byte) : u = SubSeq(w, 1, n)
    BY <1>2
  <2>3. PICK v \in Seq(Byte) : v = SubSeq(w, n + 1, Len(w))
    BY <1>2
  <2>4. Len(u) = n /\ \A i \in 1 .. n : u[i] = w[i]
    <3>1. 1 \in 1 .. Len(w) + 1 /\ n \in 1 - 1 .. Len(w) /\ 1 <= n
      BY <1>1
    <3>2. Len(SubSeq(w, 1, n)) = n /\ \A i \in 1 .. n : SubSeq(w, 1, n)[i] = w[i]
      BY <3>1, SubSeqProperties
    <3> QED BY <2>2, <3>2
  <2>5. Len(v) = m - n /\ \A i \in 1 .. m - n : v[i] = w[i + n]
    <3>1. n + 1 \in 1 .. m + 1 /\ m \in (n + 1) - 1 .. m /\ m - (n + 1) + 1 = m - n
      BY <1>1, <2>1
    <3>2. Len(v) = IF n + 1 <= m THEN m - (n + 1) + 1 ELSE 0
      BY <2>1, <2>3, <3>1, SubSeqProperties
    <3>3. \A i \in 1 .. m - (n + 1) + 1 : v[i] = w[(n + 1) + i - 1]
      BY <2>1, <2>3, <3>1, SubSeqProperties, SMTT(30)
    <3>4. \A i \in 1 .. m - n : (n + 1) + i - 1 = i + n
      BY <1>1, <2>1
    <3>5. Len(v) = m - n
      BY <1>1, <2>1, <3>2
    <3>6. \A i \in 1 .. m - n : v[i] = w[i + n]
      BY <3>1, <3>3, <3>4
    <3> QED BY <3>5, <3>6
  <2>6. u \o v \in Seq(Byte) /\ Len(u \o v) = m
    <3>1. Len(u \o v) = Len(u) + Len(v) /\ u \o v \in Seq(Byte)
      BY ConcatProperties
    <3> QED BY <1>1, <2>1, <2>4, <2>5, <3>1
  <2>7. ASSUME NEW i \in 1 .. m PROVE (u \o v)[i] = w[i]
    <3>1. (u \o v)[i] = IF i <= n THEN u[i] ELSE v[i - n]
      BY <1>1, <2>1, <2>4, <2>5
    <3>2. i <= n => i \in 1 .. n
      BY <1>1
    <3>3. ~(i <= n) => i - n \in 1 .. m - n /\ (i - n) + n = i
      BY <1>1
    <3> QED BY <2>4, <2>5, <3>1, <3>2, <3>3
  <2>8. u \o v = w
    BY <2>1, <2>6, <2>7, SeqEqual
  <2> QED BY <2>2, <2>3, <2>8
<1> QED BY <1>2, <1>3

LEMMA TypeInit == Init => TypeOK
<1>1. <<>> \in Seq(Payloads) /\ <<>> \in Seq(Byte) /\ <<>> \in Seq(Seq(Byte))
  BY EmptySeq
<1>2. 0 \in 0 .. MaxDamage
  BY BoundsAssumption
<1> QED BY <1>1, <1>2 DEF Init, TypeOK

LEMMA DamagedStep ==
  ASSUME TypeOK, NEW w \in Seq(Byte), Damaged(w), reframed' \in BOOLEAN
  PROVE  TypeOK'
BY BoundsAssumption DEF TypeOK, Damaged

LEMMA TypeStep == TypeOK /\ [Next]_vars => TypeOK'
<1> SUFFICES ASSUME TypeOK, [Next]_vars PROVE TypeOK'
  OBVIOUS
<1>1. ASSUME NEW payload \in Payloads, Encode(payload) PROVE TypeOK'
  <2>1. Frame(payload) \in Seq(Byte)
    BY BodyType
  <2>2. PICK f \in Seq(Byte) : f = Frame(payload)
    BY <2>1
  <2>3. wire' = wire \o f /\ sent' = Append(sent, payload)
    BY <1>1, <2>2 DEF Encode
  <2> QED BY <1>1, <2>3 DEF Encode, TypeOK
<1>2. ASSUME NEW n \in DOMAIN wire, Decode(n) PROVE TypeOK'
  <2>1. wire \in Seq(Byte)
    BY DEF TypeOK
  <2>2. PICK r : r = Feed(Decoder, SubSeq(wire, 1, n))
    OBVIOUS
  <2>3. r \in Decoders
    BY <2>1, <2>2, ReadSplits, DecoderType, FeedType
  <2>4. /\ wire' = SubSeq(wire, n + 1, Len(wire))
        /\ escaping' = r.escaping /\ decoded' = r.decoded /\ delivered' = r.delivered
        /\ UNCHANGED <<sent, damage, reframed>>
    BY <1>2, <2>2 DEF Decode
  <2>5. wire' \in Seq(Byte)
    BY <2>1, <2>4, ReadSplits
  <2> QED BY <2>3, <2>4, <2>5 DEF TypeOK, Decoders
<1>3. ASSUME NEW i \in DOMAIN wire, Lose(i) PROVE TypeOK'
  <2>1. wire \in Seq(Byte) /\ i \in 1 .. Len(wire) + 1 /\ 0 \in Byte
    BY DEF TypeOK, Byte
  <2>2. RemoveAt(wire, i) \in Seq(Byte)
    BY <2>1, DamagedType
  <2> QED BY <1>3, <2>2, DamagedStep DEF Lose
<1>4. ASSUME NEW i \in DOMAIN wire, NEW byte \in Noise, Change(i, byte) PROVE TypeOK'
  <2>1. wire \in Seq(Byte) /\ i \in 1 .. Len(wire) + 1 /\ byte \in Byte
    BY NoiseAssumption DEF TypeOK
  <2>2. ReplaceAt(wire, i, byte) \in Seq(Byte)
    BY <2>1, DamagedType
  <2> QED BY <1>4, <2>2, DamagedStep DEF Change, TypeOK
<1>5. ASSUME NEW i \in 1 .. Len(wire) + 1, NEW byte \in Noise, Invent(i, byte) PROVE TypeOK'
  <2>1. wire \in Seq(Byte) /\ byte \in Byte
    BY NoiseAssumption DEF TypeOK
  <2>2. InsertAt(wire, i, byte) \in Seq(Byte)
    BY <2>1, DamagedType
  <2> QED BY <1>5, <2>2, DamagedStep DEF Invent
<1>6. CASE UNCHANGED vars
  BY <1>6 DEF TypeOK, vars
<1> QED BY <1>1, <1>2, <1>3, <1>4, <1>5, <1>6 DEF Next

\* Every byte is a byte, on the line and in the decoder, whatever the line does
\* and whatever decode() makes of it.
THEOREM TypeCorrect == Spec => []TypeOK
BY TypeInit, TypeStep, PTL DEF Spec

\* encodedSize() and encode() agree on every payload and its checksum: the
\* buffer that encode() sizes is the buffer it fills.
THEOREM BufferFilledCorrect == Spec => []BufferFilled
<1>1. TypeOK => BufferFilled
  <2> SUFFICES ASSUME TypeOK, NEW i \in DOMAIN sent
               PROVE  /\ EncodedSize(sent[i]) = Len(Escape(sent[i]))
                      /\ EncodedSize(Checksum(sent[i])) = Len(Escape(Checksum(sent[i])))
    BY DEF BufferFilled
  <2>1. PICK p \in Payloads : p = sent[i]
    BY DEF TypeOK
  <2> QED BY <2>1, PayloadsAssumption, ChecksumType, EscapeFills
<1> QED BY TypeCorrect, <1>1, PTL

(***************************************************************************)
(* An undamaged line.  Whatever has been read of it, reading the rest will *)
(* have handed over what was sent; and there is an END on the line for     *)
(* each payload nobody has got, so that no END comes too early.            *)
(***************************************************************************)
Whole(payloads) == [escaping |-> FALSE, decoded |-> <<>>, delivered |-> payloads]

LEMMA DecodersEqual ==
  ASSUME NEW r \in Decoders, NEW q \in Decoders,
         r.escaping = q.escaping, r.decoded = q.decoded, r.delivered = q.delivered
  PROVE  r = q
BY DEF Decoders

LEMMA WholeNext ==
  ASSUME NEW s \in Seq(Seq(Byte)), NEW e \in Seq(Seq(Byte))
  PROVE  [Whole(s) EXCEPT !.delivered = e] = Whole(e)
<1>1. <<>> \in Seq(Byte)
  OBVIOUS
<1>2. Whole(s) \in Decoders /\ Whole(e) \in Decoders
  BY <1>1 DEF Whole, Decoders
<1>3. PICK q \in Decoders : q = Whole(s)
  BY <1>2
<1>4. q.escaping = FALSE /\ q.decoded = <<>>
  BY <1>3 DEF Whole
<1>5. PICK z : z = [q EXCEPT !.delivered = e]
  OBVIOUS
<1>6. z \in Decoders
  BY <1>5 DEF Decoders
<1>7. z.escaping = FALSE /\ z.decoded = <<>> /\ z.delivered = e
  BY <1>4, <1>5 DEF Decoders
<1>8. PICK w \in Decoders : w = Whole(e)
  BY <1>2
<1>9. w.escaping = FALSE /\ w.decoded = <<>> /\ w.delivered = e
  BY <1>8 DEF Whole
<1>10. z = w
  BY <1>6, <1>7, <1>9, DecodersEqual
<1> QED BY <1>3, <1>5, <1>8, <1>10

Foretold == damage = 0 => Feed(Decoder, wire) = Whole(sent)

Closed == damage = 0 => Cardinality(Ends(wire)) + Len(delivered) = Len(sent)

Bare == damage = 0 => \A i \in DOMAIN wire : wire[i] \notin {XON, XOFF}

LineInv == TypeOK /\ Foretold /\ Closed /\ Bare

LEMMA LineInit == Init => LineInv
<1> SUFFICES ASSUME Init PROVE LineInv
  OBVIOUS
<1>1. TypeOK
  BY TypeInit
<1>2. wire = <<>> /\ Decoder = Whole(sent) /\ delivered = <<>> /\ sent = <<>>
  BY DEF Init, Decoder, Whole
<1>3. Feed(Decoder, wire) = Decoder
  BY <1>1, <1>2, DecoderType, FeedNone
<1>4. Cardinality(Ends(wire)) = 0
  <2>1. Ends(wire) = {}
    BY <1>2 DEF Ends
  <2> QED BY <2>1, FS_EmptySet
<1>5. Len(delivered) = 0 /\ Len(sent) = 0
  BY <1>2
<1>6. Bare
  BY <1>2 DEF Bare
<1> QED BY <1>1, <1>2, <1>3, <1>4, <1>5, <1>6 DEF LineInv, Foretold, Closed

LEMMA LineEncode ==
  ASSUME LineInv, NEW payload \in Payloads, Encode(payload), damage = 0
  PROVE  Foretold' /\ Closed' /\ Bare'
<1>1. PICK f \in Seq(Byte) : f = Frame(payload)
  BY BodyType
<1>2. wire \in Seq(Byte) /\ sent \in Seq(Payloads) /\ Len(sent) \in Nat
  BY DEF LineInv, TypeOK
<1>3. PICK w \in Seq(Byte) : w = wire \o f
  <2>1. wire \o f \in Seq(Byte)
    BY <1>2
  <2> QED BY <2>1
<1>4. PICK s : s = Append(sent, payload)
  OBVIOUS
<1>5. /\ wire' = w /\ sent' = s /\ damage' = 0 /\ delivered' = delivered
      /\ escaping' = escaping /\ decoded' = decoded
  BY <1>1, <1>3, <1>4 DEF Encode
<1>6. Decoder' = Decoder
  BY <1>5 DEF Decoder
<1>7. Foretold'
  <2>1. PICK q : q = Whole(sent)
    OBVIOUS
  <2>2. Feed(Decoder, wire) = q
    BY <2>1 DEF LineInv, Foretold
  <2>3. q \in Decoders /\ Fresh(q) /\ q.delivered = sent
    <3>1. q \in Decoders
      BY <1>2, <2>2, DecoderType, FeedType DEF LineInv
    <3> QED BY <2>1, <3>1 DEF Whole, Fresh
  <2>4. Feed(Decoder, w) = Feed(q, f)
    BY <1>2, <1>3, <2>2, DecoderType, FeedConcat DEF LineInv
  <2>5. Feed(q, f) = [q EXCEPT !.delivered = s]
    BY <1>1, <1>4, <2>3, FrameRead
  <2>6. [q EXCEPT !.delivered = s] = Whole(s)
    <3>1. sent \in Seq(Seq(Byte)) /\ s \in Seq(Seq(Byte))
      <4>1. payload \in Seq(Byte) /\ sent \in Seq(Seq(Byte))
        BY <1>2, PayloadsAssumption
      <4> QED BY <1>4, <4>1
    <3> QED BY <2>1, <3>1, WholeNext
  <2> QED BY <1>5, <1>6, <2>4, <2>5, <2>6 DEF Foretold, Whole
<1>8. Closed'
  <2>1. Cardinality(Ends(w)) = Cardinality(Ends(wire)) + 1
    BY <1>1, <1>2, <1>3, EndsConcat, FrameClean
  <2>2. Len(s) = Len(sent) + 1
    BY <1>2, <1>4
  <2>3. PICK c \in Nat : c = Cardinality(Ends(wire))
    BY <1>2, EndsFinite
  <2>4. Len(delivered) \in Nat /\ c + Len(delivered) = Len(sent)
    BY <2>3 DEF LineInv, Closed, TypeOK
  <2>5. Cardinality(Ends(w)) + Len(delivered) = Len(s)
    BY <1>2, <2>1, <2>2, <2>3, <2>4
  <2> QED BY <1>5, <2>5 DEF Closed, Ends
<1>9. Bare'
  <2>1. \A i \in DOMAIN f : f[i] \notin {XON, XOFF}
    BY <1>1, FrameClean
  <2>2. \A i \in DOMAIN wire : wire[i] \notin {XON, XOFF}
    BY DEF LineInv, Bare
  <2>3. \A i \in DOMAIN w : w[i] \notin {XON, XOFF}
    BY <1>2, <1>3, <2>1, <2>2
  <2> QED BY <1>5, <2>3 DEF Bare
<1> QED BY <1>7, <1>8, <1>9

LEMMA LineDecode ==
  ASSUME LineInv, NEW n \in DOMAIN wire, Decode(n), damage = 0
  PROVE  Foretold' /\ Closed' /\ Bare'
<1>1. wire \in Seq(Byte) /\ Decoder \in Decoders /\ Decoder.delivered = delivered
  BY DecoderType DEF LineInv, TypeOK
<1>2. PICK u \in Seq(Byte) : u = SubSeq(wire, 1, n)
  BY <1>1, ReadSplits
<1>3. PICK v \in Seq(Byte) : v = SubSeq(wire, n + 1, Len(wire)) /\ wire = u \o v
  BY <1>1, <1>2, ReadSplits
<1>4. PICK r \in Decoders : r = Feed(Decoder, u)
  BY <1>1, FeedType
<1>5. /\ wire' = v /\ escaping' = r.escaping /\ decoded' = r.decoded
      /\ delivered' = r.delivered /\ sent' = sent /\ damage' = 0
  BY <1>2, <1>3, <1>4 DEF Decode
<1>6. Decoder' = r
  <2>1. r = [escaping |-> r.escaping, decoded |-> r.decoded, delivered |-> r.delivered]
    BY DEF Decoders
  <2> QED BY <1>5, <2>1 DEF Decoder
<1>7. Feed(r, v) = Whole(sent)
  <2>1. Feed(Decoder, wire) = Feed(r, v)
    <3>1. Feed(Decoder, u \o v) = Feed(Feed(Decoder, u), v)
      BY <1>1, FeedConcat
    <3> QED BY <1>3, <1>4, <3>1
  <2> QED BY <2>1 DEF LineInv, Foretold
<1>8. Foretold'
  BY <1>5, <1>6, <1>7 DEF Foretold, Whole
<1>9. Closed'
  <2>1. Cardinality(Ends(wire)) = Cardinality(Ends(u)) + Cardinality(Ends(v))
    BY <1>3, EndsConcat
  <2>2. Len(r.delivered) <= Len(delivered) + Cardinality(Ends(u))
    BY <1>1, <1>4, FeedGrows
  <2>3. Len(sent) <= Len(r.delivered) + Cardinality(Ends(v))
    <3>1. Feed(r, v).delivered = sent
      BY <1>7 DEF Whole
    <3> QED BY <3>1, FeedGrows
  <2>4. PICK cu \in Nat, cv \in Nat : cu = Cardinality(Ends(u)) /\ cv = Cardinality(Ends(v))
    BY EndsFinite
  <2>5. PICK d \in Nat, e \in Nat, s \in Nat :
          d = Len(delivered) /\ e = Len(r.delivered) /\ s = Len(sent)
    BY DEF LineInv, TypeOK, Decoders
  <2>6. (cu + cv) + d = s
    BY <2>1, <2>4, <2>5 DEF LineInv, Closed
  <2>7. e <= d + cu /\ s <= e + cv
    BY <2>2, <2>3, <2>4, <2>5
  <2>8. cv + e = s
    BY <2>6, <2>7
  <2> QED BY <1>5, <2>4, <2>5, <2>8 DEF Closed, Ends
<1>10. Bare'
  <2>1. ASSUME NEW i \in DOMAIN v PROVE Len(u) + i \in DOMAIN wire /\ wire[Len(u) + i] = v[i]
    <3>1. PICK w \in Seq(Byte) : w = wire
      BY <1>1
    <3>2. w = u \o v
      BY <1>3, <3>1
    <3>3. Len(u) + i \in DOMAIN w /\ w[Len(u) + i] = v[i]
      BY <3>2
    <3> QED BY <3>1, <3>3
  <2>2. \A i \in DOMAIN wire : wire[i] \notin {XON, XOFF}
    BY DEF LineInv, Bare
  <2>3. \A i \in DOMAIN v : v[i] \notin {XON, XOFF}
    BY <2>1, <2>2
  <2> QED BY <1>5, <2>3 DEF Bare
<1> QED BY <1>8, <1>9, <1>10

LEMMA LineStep == LineInv /\ [Next]_vars => LineInv'
<1> SUFFICES ASSUME LineInv, [Next]_vars PROVE LineInv'
  OBVIOUS
<1>1. TypeOK'
  BY TypeStep DEF LineInv
<1>2. CASE damage' # 0
  BY <1>1, <1>2 DEF LineInv, Foretold, Closed, Bare
<1>3. ASSUME NEW payload \in Payloads, Encode(payload), damage' = 0 PROVE LineInv'
  <2>1. damage = 0
    BY <1>3 DEF Encode
  <2> QED BY <1>1, <1>3, <2>1, LineEncode DEF LineInv
<1>4. ASSUME NEW n \in DOMAIN wire, Decode(n), damage' = 0 PROVE LineInv'
  <2>1. damage = 0
    BY <1>4 DEF Decode
  <2> QED BY <1>1, <1>4, <2>1, LineDecode DEF LineInv
<1>5. ASSUME NEW w, Damaged(w) PROVE damage' # 0
  BY <1>5 DEF Damaged, LineInv, TypeOK
<1>6. CASE UNCHANGED vars
  <2>1. Decoder' = Decoder
    BY <1>6 DEF vars, Decoder
  <2> QED BY <1>1, <1>6, <2>1 DEF LineInv, Foretold, Closed, Bare, Whole, Ends, vars
<1> QED
  BY <1>2, <1>3, <1>4, <1>5, <1>6 DEF Next, Lose, Change, Invent

LEMMA LineInvariant == Spec => []LineInv
BY LineInit, LineStep, PTL DEF Spec

\* An undamaged line hands over exactly the payloads sent, in order, however
\* the reads of the port cut the stream: none is missing once the line is
\* quiet, and decode() is then ready for the next.
THEOREM RoundTripCorrect == Spec => []RoundTrip
<1>1. LineInv => RoundTrip
  <2> SUFFICES ASSUME LineInv, damage = 0
               PROVE  /\ IsPrefix(delivered, sent)
                      /\ (wire = <<>> => delivered = sent /\ decoded = <<>> /\ ~escaping)
    BY DEF RoundTrip
  <2>1. /\ wire \in Seq(Byte) /\ Decoder \in Decoders /\ Decoder.delivered = delivered
        /\ Decoder.escaping = escaping /\ Decoder.decoded = decoded
    BY DecoderType DEF LineInv, TypeOK
  <2>2. PICK q : q = Feed(Decoder, wire)
    OBVIOUS
  <2>3. q.escaping = FALSE /\ q.decoded = <<>> /\ q.delivered = sent
    <3>1. q = Whole(sent)
      BY <2>2 DEF LineInv, Foretold
    <3> QED BY <3>1 DEF Whole
  <2>4. IsPrefix(delivered, sent)
    BY <2>1, <2>2, <2>3, FeedGrows
  <2>5. ASSUME wire = <<>> PROVE q = Decoder
    BY <2>1, <2>2, <2>5, FeedNone
  <2> QED BY <2>1, <2>3, <2>4, <2>5
<1> QED BY LineInvariant, <1>1, PTL

\* encode() never lets a flow-control byte onto the line, and closes each
\* payload with the only END there is for it.
THEOREM LineIsCleanCorrect == Spec => []LineIsClean
<1>1. LineInv => LineIsClean
  <2> SUFFICES ASSUME LineInv, damage = 0
               PROVE  /\ \A i \in DOMAIN wire : wire[i] \notin {XON, XOFF}
                      /\ Cardinality({i \in DOMAIN wire : wire[i] = END_})
                           = Len(sent) - Len(delivered)
    BY DEF LineIsClean
  <2>1. PICK c \in Nat, d \in Nat, s \in Nat :
          c = Cardinality(Ends(wire)) /\ d = Len(delivered) /\ s = Len(sent)
    BY EndsFinite DEF LineInv, TypeOK
  <2>2. c + d = s
    BY <2>1 DEF LineInv, Closed
  <2>3. c = s - d
    BY <2>2
  <2>4. \A i \in DOMAIN wire : wire[i] \notin {XON, XOFF}
    BY DEF LineInv, Bare
  <2> QED BY <2>1, <2>3, <2>4 DEF Ends
<1> QED BY LineInvariant, <1>1, PTL

(***************************************************************************)
(* A damaged line.  What has ever been on it, read or not, is cut behind   *)
(* each frame sent: c[i] bytes belong to the first i frames and to what    *)
(* was invented before any was sent, and e[i] times one of those bytes was *)
(* damaged.  A piece without damage of its own is a frame as it was sent.  *)
(***************************************************************************)
Piece(w, a, b) == \E p \in Payloads : SubSeq(w, a + 1, b) = Frame(p)

Ordered(c, n) == \A i, j \in 0 .. n : i <= j => c[i] <= c[j]

Intact(c, e, n, w) ==
  \A i \in 1 .. n : e[i - 1] <= e[i] /\ (e[i - 1] = e[i] => Piece(w, c[i - 1], c[i]))

Cut(c, e, n, w, k) ==
  /\ c \in [0 .. n -> Nat] /\ e \in [0 .. n -> Nat]
  /\ c[n] = Len(w) /\ e[n] <= k
  /\ (e[0] = 0 => c[0] = 0)
  /\ Ordered(c, n)
  /\ Intact(c, e, n, w)

Made(w, n, k) == \E c, e \in [0 .. n -> Nat] : Cut(c, e, n, w, k)

LEMMA PrefixSplits ==
  ASSUME NEW D, NEW w \in Seq(D), NEW a \in Nat, NEW b \in Nat, a <= b, b <= Len(w)
  PROVE  /\ SubSeq(w, 1, a) \in Seq(D) /\ SubSeq(w, a + 1, b) \in Seq(D)
         /\ SubSeq(w, 1, b) = SubSeq(w, 1, a) \o SubSeq(w, a + 1, b)
<1>1. PICK m \in Nat : m = Len(w) /\ \A i \in 1 .. m : w[i] \in D
  OBVIOUS
<1>2. PICK u : u = SubSeq(w, 1, a)
  OBVIOUS
<1>3. u \in Seq(D) /\ Len(u) = a /\ \A i \in 1 .. a : u[i] = w[i]
  <2>1. \A i \in 1 .. a : w[i] \in D
    BY <1>1
  <2>2. /\ SubSeq(w, 1, a) \in Seq(D)
        /\ Len(SubSeq(w, 1, a)) = IF 1 <= a THEN a - 1 + 1 ELSE 0
        /\ \A i \in 1 .. a - 1 + 1 : SubSeq(w, 1, a)[i] = w[1 + i - 1]
    BY <2>1, SubSeqProperties
  <2> QED BY <1>2, <2>2
<1>4. PICK v : v = SubSeq(w, a + 1, b)
  OBVIOUS
<1>5. v \in Seq(D) /\ Len(v) = b - a /\ \A i \in 1 .. b - a : v[i] = w[a + i]
  <2>1. \A i \in a + 1 .. b : w[i] \in D
    BY <1>1
  <2>2. /\ SubSeq(w, a + 1, b) \in Seq(D)
        /\ Len(SubSeq(w, a + 1, b)) = IF a + 1 <= b THEN b - (a + 1) + 1 ELSE 0
        /\ \A i \in 1 .. b - (a + 1) + 1 : SubSeq(w, a + 1, b)[i] = w[(a + 1) + i - 1]
    BY <2>1, SubSeqProperties
  <2>3. b - (a + 1) + 1 = b - a /\ \A i \in 1 .. b - a : (a + 1) + i - 1 = a + i
    OBVIOUS
  <2> QED BY <1>4, <2>2, <2>3
<1>6. PICK s : s = SubSeq(w, 1, b)
  OBVIOUS
<1>7. s \in Seq(D) /\ Len(s) = b /\ \A i \in 1 .. b : s[i] = w[i]
  <2>1. \A i \in 1 .. b : w[i] \in D
    BY <1>1
  <2>2. /\ SubSeq(w, 1, b) \in Seq(D)
        /\ Len(SubSeq(w, 1, b)) = IF 1 <= b THEN b - 1 + 1 ELSE 0
        /\ \A i \in 1 .. b - 1 + 1 : SubSeq(w, 1, b)[i] = w[1 + i - 1]
    BY <2>1, SubSeqProperties
  <2> QED BY <1>6, <2>2
<1>8. u \o v \in Seq(D) /\ Len(u \o v) = b
  <2>1. u \o v \in Seq(D) /\ Len(u \o v) = Len(u) + Len(v)
    <3>1. u \in Seq(D) /\ v \in Seq(D)
      BY <1>3, <1>5
    <3> QED BY ONLY <3>1, ConcatProperties
  <2> QED BY <1>3, <1>5, <2>1
<1>9. ASSUME NEW i \in 1 .. b PROVE s[i] = (u \o v)[i]
  <2>1. (u \o v)[i] = IF i <= a THEN u[i] ELSE v[i - a]
    BY <1>3, <1>5
  <2>2. CASE i <= a
    BY <1>3, <1>7, <2>1, <2>2
  <2>3. CASE ~(i <= a)
    <3>1. i - a \in 1 .. b - a /\ a + (i - a) = i
      BY <2>3
    <3> QED BY <1>5, <1>7, <2>1, <2>3, <3>1
  <2> QED BY <2>2, <2>3
<1>10. s = u \o v
  BY <1>7, <1>8, <1>9, SeqEqual
<1> QED BY <1>2, <1>3, <1>4, <1>5, <1>6, <1>10

Start == Whole(<<>>)

LEMMA StartType == Start \in Decoders /\ Fresh(Start)
<1>1. <<>> \in Seq(Byte) /\ <<>> \in Seq(Seq(Byte))
  OBVIOUS
<1> QED BY <1>1 DEF Start, Whole, Decoders, Fresh

\* A decoder that is not at the beginning of a frame is going to lose one.
Debt(q) == IF Fresh(q) THEN 0 ELSE 1

\* A piece costs the frame that was sent in it, if it was damaged, and leaves
\* a debt at most; a frame pays the debt of the piece before it.
LEMMA PieceRead ==
  ASSUME NEW q \in Decoders, NEW s \in Seq(Byte), NEW i \in Nat,
         NEW a \in Nat, NEW b \in Nat, a <= b,
         a = b => \E p \in Payloads : s = Frame(p),
         Len(q.delivered) + 2 * a >= i + Debt(q)
  PROVE  Len(Feed(q, s).delivered) + 2 * b >= (i + 1) + Debt(Feed(q, s))
<1>1. PICK r \in Decoders : r = Feed(q, s)
  BY FeedType
<1>2. PICK d \in Nat, f \in Nat : d = Len(q.delivered) /\ f = Len(r.delivered)
  BY DEF Decoders
<1>3. d <= f
  BY <1>1, <1>2, FeedGrows DEF IsPrefix
<1>4. Debt(q) \in {0, 1} /\ Debt(r) \in {0, 1}
  BY DEF Debt
<1>5. PICK x \in {0, 1}, y \in {0, 1} : x = Debt(q) /\ y = Debt(r)
  BY <1>4
<1>6. d + 2 * a >= i + x
  BY <1>2, <1>5
<1>7. f + 2 * b >= (i + 1) + y
  <2>1. CASE a # b
    <3>1. b >= a + 1
      BY <2>1
    <3> QED BY <1>3, <1>6, <3>1
  <2>2. CASE a = b
    <3>1. PICK p \in Payloads : s = Frame(p)
      BY <2>2
    <3>2. y = 0
      BY <1>1, <1>5, <3>1, FrameResyncs DEF Debt
    <3>3. CASE x = 1
      BY <1>3, <1>6, <2>2, <3>2, <3>3
    <3>4. CASE x = 0
      <4>1. Fresh(q)
        BY <1>5, <3>4 DEF Debt
      <4>2. r = [q EXCEPT !.delivered = Append(@, p)]
        BY <1>1, <3>1, <4>1, FrameRead
      <4>3. r.delivered = Append(q.delivered, p) /\ q.delivered \in Seq(Seq(Byte))
        BY <4>2 DEF Decoders
      <4>4. f = d + 1
        BY <1>2, <4>3
      <4> QED BY <1>6, <2>2, <3>2, <3>4, <4>4
    <3> QED BY <3>3, <3>4
  <2> QED BY <2>1, <2>2
<1> QED BY <1>1, <1>2, <1>5, <1>7

\* Of n frames damaged k times, reading them all hands over all but 2k.
LEMMA MadeRead ==
  ASSUME NEW w \in Seq(Byte), NEW n \in Nat, NEW k \in Nat, Made(w, n, k)
  PROVE  Len(Feed(Start, w).delivered) + 2 * k >= n
<1>1. PICK c \in [0 .. n -> Nat], e \in [0 .. n -> Nat] : Cut(c, e, n, w, k)
  BY DEF Made
<1> DEFINE Read(i) == Feed(Start, SubSeq(w, 1, c[i]))
           Paid(i) == Len(Read(i).delivered) + 2 * e[i] >= i + Debt(Read(i))
           T == {i \in Nat : i <= n => Paid(i)}
<1>2. \A i \in 0 .. n : c[i] \in Nat /\ e[i] \in Nat /\ c[i] <= Len(w)
  <2>1. \A i \in 0 .. n : c[i] <= c[n]
    BY <1>1 DEF Cut, Ordered
  <2> QED BY <1>1, <2>1 DEF Cut
<1>3. \A i \in 0 .. n : SubSeq(w, 1, c[i]) \in Seq(Byte)
  BY <1>2, PrefixSplits
<1>4. 0 \in T
  <2>1. 0 \in 0 .. n
    OBVIOUS
  <2>2. Read(0) \in Decoders
    BY <1>3, <2>1, StartType, FeedType
  <2>3. Debt(Read(0)) \in {0, 1} /\ Len(Read(0).delivered) \in Nat
    BY <2>2 DEF Debt, Decoders
  <2>4. CASE e[0] # 0
    <3>1. e[0] \in Nat
      BY <1>2, <2>1
    <3>2. e[0] >= 1
      BY <2>4, <3>1
    <3>3. Paid(0)
      <4> HIDE DEF Read
      <4> QED BY <2>3, <3>1, <3>2
    <3> QED BY <3>3
  <2>5. CASE e[0] = 0
    <3>1. c[0] = 0
      BY <1>1, <2>5 DEF Cut
    <3>2. SubSeq(w, 1, 0) = <<>>
      OBVIOUS
    <3>3. Read(0) = Start
      BY <3>1, <3>2, StartType, FeedNone
    <3>4. Debt(Read(0)) = 0
      BY <3>3, StartType DEF Debt
    <3>5. Paid(0)
      <4>1. PICK d \in Nat : d = Len(Read(0).delivered)
        BY <2>3
      <4>2. d + 2 * 0 >= 0 + 0
        OBVIOUS
      <4> HIDE DEF Read
      <4> QED BY <2>5, <3>4, <4>1, <4>2
    <3> QED BY <3>5
  <2> QED BY <2>4, <2>5
<1>5. ASSUME NEW i \in Nat, i \in T PROVE i + 1 \in T
  <2> SUFFICES ASSUME i + 1 <= n PROVE Paid(i + 1)
    OBVIOUS
  <2>1. i \in 0 .. n /\ i + 1 \in 0 .. n /\ i + 1 \in 1 .. n /\ (i + 1) - 1 = i /\ i <= i + 1
    OBVIOUS
  <2>2. PICK a \in Nat, b \in Nat, x \in Nat, y \in Nat :
          a = c[i] /\ b = c[i + 1] /\ x = e[i] /\ y = e[i + 1] /\ b <= Len(w)
    BY <1>2, <2>1
  <2>3. a <= b
    BY <1>1, <2>1, <2>2 DEF Cut, Ordered
  <2>4. x <= y /\ (x = y => Piece(w, a, b))
    BY <1>1, <2>1, <2>2 DEF Cut, Intact
  <2>5. PICK s \in Seq(Byte) : s = SubSeq(w, a + 1, b)
    BY <2>2, <2>3, PrefixSplits
  <2>6. PICK u \in Seq(Byte) : u = SubSeq(w, 1, a)
    BY <2>2, <2>3, PrefixSplits
  <2>7. SubSeq(w, 1, b) = u \o s
    <3>1. SubSeq(w, 1, b) = SubSeq(w, 1, a) \o SubSeq(w, a + 1, b)
      <4>1. w \in Seq(Byte) /\ a \in Nat /\ b \in Nat /\ a <= b /\ b <= Len(w)
        BY <2>2, <2>3
      <4>2. /\ SubSeq(w, 1, a) \in Seq(Byte) /\ SubSeq(w, a + 1, b) \in Seq(Byte)
            /\ SubSeq(w, 1, b) = SubSeq(w, 1, a) \o SubSeq(w, a + 1, b)
        BY ONLY <4>1, PrefixSplits, ZenonT(30)
      <4> QED BY ONLY <4>2
    <3> QED BY ONLY <2>5, <2>6, <3>1
  <2>8. PICK q \in Decoders : q = Feed(Start, u)
    BY StartType, FeedType
  <2>9. Read(i) = q /\ Read(i + 1) = Feed(q, s)
    <3>1. Feed(Start, u \o s) = Feed(q, s)
      BY <2>8, StartType, FeedConcat
    <3> QED BY <2>2, <2>6, <2>7, <2>8, <3>1
  <2>10. Len(q.delivered) + 2 * x >= i + Debt(q)
    <3>1. Paid(i)
      BY <1>5, <2>1
    <3> HIDE DEF Read
    <3> QED BY <2>2, <2>9, <3>1
  <2>11. x = y => \E p \in Payloads : s = Frame(p)
    BY <2>4, <2>5 DEF Piece
  <2>12. Len(Feed(q, s).delivered) + 2 * y >= (i + 1) + Debt(Feed(q, s))
    BY <2>4, <2>10, <2>11, PieceRead
  <2> HIDE DEF Read
  <2> QED BY <2>2, <2>9, <2>12
<1>6. Nat \subseteq T
  <2> HIDE DEF T
  <2> QED BY <1>4, <1>5, SetInduction
<1>7. Paid(n)
  BY <1>6
<1>8. SubSeq(w, 1, c[n]) = w
  BY <1>1 DEF Cut
<1>9. PICK r \in Decoders : r = Feed(Start, w)
  BY StartType, FeedType
<1>10. Len(r.delivered) + 2 * e[n] >= n + Debt(r)
  BY <1>7, <1>8, <1>9
<1>11. PICK x \in Nat, d \in Nat : x = e[n] /\ d = Len(r.delivered)
  BY <1>2 DEF Decoders
<1>12. x <= k
  BY <1>1, <1>11 DEF Cut
<1>13. Debt(r) \in {0, 1}
  BY DEF Debt
<1>14. d + 2 * k >= n
  <2>1. PICK o \in {0, 1} : o = Debt(r)
    BY <1>13
  <2>2. d + 2 * x >= n + o
    BY <1>10, <1>11, <2>1
  <2> QED BY <1>12, <2>2
<1> QED BY <1>9, <1>11, <1>14

(***************************************************************************)
(* Damage to one byte.  w2 is w with the byte at p lost (d = -1), changed  *)
(* (d = 0), or with another put in before it (d = 1).                      *)
(***************************************************************************)
Edited(w, w2, p, d) ==
  /\ d \in {-1, 0, 1} /\ (d # 1 => p <= Len(w))
  /\ Len(w2) = Len(w) + d
  /\ \A x \in 1 .. Len(w) : x < p => w2[x] = w[x]
  /\ \A x \in 1 .. Len(w) : x > p => w2[x + d] = w[x]

\* The bytes behind the a-th up to the b-th of w are d places on in w2.
Shifted(w, w2, d, a, b) ==
  /\ a <= b /\ b <= Len(w)
  /\ a + d \in Nat /\ b + d \in Nat /\ b + d <= Len(w2)
  /\ \A x \in a + 1 .. b : w2[x + d] = w[x]

\* The same bytes at other places.
LEMMA SameBytes ==
  ASSUME NEW D, NEW w \in Seq(D), NEW w2 \in Seq(D), NEW d \in Int,
         NEW a \in Nat, NEW b \in Nat, Shifted(w, w2, d, a, b)
  PROVE  SubSeq(w2, (a + d) + 1, b + d) = SubSeq(w, a + 1, b)
<1> USE DEF Shifted
<1>1. PICK u : u = SubSeq(w, a + 1, b)
  OBVIOUS
<1>2. u \in Seq(D) /\ Len(u) = b - a /\ \A i \in 1 .. b - a : u[i] = w[a + i]
  <2>1. \A i \in a + 1 .. b : w[i] \in D
    OBVIOUS
  <2>2. /\ SubSeq(w, a + 1, b) \in Seq(D)
        /\ Len(SubSeq(w, a + 1, b)) = IF a + 1 <= b THEN b - (a + 1) + 1 ELSE 0
        /\ \A i \in 1 .. b - (a + 1) + 1 : SubSeq(w, a + 1, b)[i] = w[(a + 1) + i - 1]
    BY <2>1, SubSeqProperties
  <2>3. b - (a + 1) + 1 = b - a /\ \A i \in 1 .. b - a : (a + 1) + i - 1 = a + i
    OBVIOUS
  <2> QED BY <1>1, <2>2, <2>3
<1>3. PICK m \in Nat, n \in Nat : m = a + d /\ n = b + d
  OBVIOUS
<1>4. PICK v : v = SubSeq(w2, m + 1, n)
  OBVIOUS
<1>5. v \in Seq(D) /\ Len(v) = n - m /\ \A i \in 1 .. n - m : v[i] = w2[m + i]
  <2>1. m <= n /\ n <= Len(w2)
    BY <1>3
  <2>2. \A i \in m + 1 .. n : w2[i] \in D
    BY <2>1
  <2>3. /\ SubSeq(w2, m + 1, n) \in Seq(D)
        /\ Len(SubSeq(w2, m + 1, n)) = IF m + 1 <= n THEN n - (m + 1) + 1 ELSE 0
        /\ \A i \in 1 .. n - (m + 1) + 1 : SubSeq(w2, m + 1, n)[i] = w2[(m + 1) + i - 1]
    BY <2>2, SubSeqProperties
  <2>4. n - (m + 1) + 1 = n - m /\ \A i \in 1 .. n - m : (m + 1) + i - 1 = m + i
    OBVIOUS
  <2> QED BY <1>4, <2>1, <2>3, <2>4
<1>6. n - m = b - a
  BY <1>3
<1>7. ASSUME NEW i \in 1 .. b - a PROVE v[i] = u[i]
  <2>1. a + i \in a + 1 .. b /\ (a + i) + d = m + i
    BY <1>3
  <2>2. w2[m + i] = w[a + i]
    BY <2>1
  <2> QED BY <1>2, <1>5, <1>6, <2>2
<1>8. v = u
  BY <1>2, <1>5, <1>6, <1>7, SeqEqual
<1> QED BY <1>1, <1>3, <1>4, <1>8

\* The piece the damage is in: the pieces before it end before it.
Hit(c, n, p, j) == /\ j \in 0 .. n
                   /\ \A i \in 0 .. n : i < j => c[i] < p
                   /\ p <= c[j] \/ j = n

\* There is one.
LEMMA PieceHit ==
  ASSUME NEW n \in Nat, NEW c \in [0 .. n -> Nat], NEW p \in Nat
  PROVE  \E j \in 0 .. n : Hit(c, n, p, j)
<1> DEFINE S == {i \in 0 .. n : p <= c[i]}
<1>1. CASE S = {}
  <2>1. \A i \in 0 .. n : c[i] < p
    BY <1>1
  <2>2. Hit(c, n, p, n)
    BY <2>1 DEF Hit
  <2> QED BY <2>2
<1>2. CASE S # {}
  <2>1. S \subseteq Nat
    OBVIOUS
  <2>2. PICK j \in S : \A i \in S : j <= i
    <3> HIDE DEF S
    <3> QED BY <1>2, <2>1, SmallestOf
  <2>3. Hit(c, n, p, j)
    BY <2>2 DEF Hit
  <2> QED BY <2>3
<1> QED BY <1>1, <1>2

\* Damage to one byte damages the piece it is in, and moves those behind it.
LEMMA EditMade ==
  ASSUME NEW w \in Seq(Byte), NEW w2 \in Seq(Byte), NEW n \in Nat, NEW k \in Nat,
         NEW p \in Nat, 1 <= p, p <= Len(w) + 1, NEW d, Edited(w, w2, p, d),
         Made(w, n, k)
  PROVE  Made(w2, n, k + 1)
<1>1. PICK c \in [0 .. n -> Nat], e \in [0 .. n -> Nat] : Cut(c, e, n, w, k)
  BY DEF Made
<1>2. PICK l \in Nat, l2 \in Nat : l = Len(w) /\ l2 = Len(w2)
  OBVIOUS
<1>3. d \in {-1, 0, 1} /\ (d # 1 => p <= l) /\ l2 = l + d /\ p <= l + 1
  BY <1>2 DEF Edited
<1>4. PICK j \in 0 .. n : (\A i \in 0 .. n : i < j => c[i] < p) /\ (p <= c[j] \/ j = n)
  <2>1. \E j \in 0 .. n : Hit(c, n, p, j)
    BY PieceHit
  <2> QED BY <2>1 DEF Hit
<1>5. c[n] = l /\ \A h, i \in 0 .. n : h <= i => c[h] <= c[i]
  BY <1>1, <1>2 DEF Cut, Ordered
<1>6. \A i \in 0 .. n : c[i] \in Nat /\ e[i] \in Nat /\ c[i] <= l
  BY <1>5
<1>7. /\ d # 1 => p <= c[j]
      /\ j < n => p <= c[j]
  BY <1>3, <1>4, <1>5
<1> DEFINE cc == [i \in 0 .. n |-> IF i < j THEN c[i] ELSE c[i] + d]
           ee == [i \in 0 .. n |-> IF i < j THEN e[i] ELSE e[i] + 1]
<1>8. ASSUME NEW i \in 0 .. n, ~(i < j) PROVE c[i] + d \in Nat /\ c[j] <= c[i]
  <2>1. c[j] <= c[i] /\ c[i] \in Nat /\ c[j] \in Nat
    BY <1>5, <1>6, <1>8
  <2>2. PICK x \in Nat, y \in Nat : x = c[i] /\ y = c[j]
    BY <2>1
  <2>3. d # -1 \/ 1 <= x
    <3>1. d = -1 => p <= y
      BY <1>7, <2>2
    <3> QED BY <2>1, <2>2, <3>1
  <2>4. x + d \in Nat
    BY <1>3, <2>3
  <2> QED BY <2>1, <2>2, <2>4
<1>9. cc \in [0 .. n -> Nat] /\ ee \in [0 .. n -> Nat]
  <2>1. \A i \in 0 .. n : (IF i < j THEN c[i] ELSE c[i] + d) \in Nat
    BY <1>6, <1>8
  <2>2. \A i \in 0 .. n : (IF i < j THEN e[i] ELSE e[i] + 1) \in Nat
    BY <1>6
  <2> QED BY <2>1, <2>2
<1>10. cc[n] = l2 /\ ee[n] <= k + 1
  <2>1. n \in 0 .. n /\ ~(n < j)
    OBVIOUS
  <2>2. e[n] <= k /\ e[n] \in Nat
    BY <1>1, <2>1 DEF Cut
  <2> QED BY <1>3, <1>5, <2>1, <2>2
<1>11. ee[0] = 0 => cc[0] = 0
  <2> SUFFICES ASSUME ee[0] = 0 PROVE cc[0] = 0
    OBVIOUS
  <2>1. 0 \in 0 .. n /\ e[0] \in Nat
    BY <1>6
  <2>2. 0 < j
    BY <2>1
  <2>3. c[0] = 0
    BY <1>1, <2>1, <2>2 DEF Cut
  <2> QED BY <2>1, <2>2, <2>3
<1>12. Ordered(cc, n)
  <2> SUFFICES ASSUME NEW h \in 0 .. n, NEW i \in 0 .. n, h <= i PROVE cc[h] <= cc[i]
    BY DEF Ordered
  <2>1. PICK x \in Nat, y \in Nat : x = c[h] /\ y = c[i] /\ x <= y
    BY <1>5, <1>6
  <2>2. CASE i < j
    <3>1. cc[h] = x /\ cc[i] = y
      BY <2>1, <2>2
    <3> QED BY <2>1, <3>1
  <2>3. CASE ~(h < j)
    <3>1. cc[h] = x + d /\ cc[i] = y + d
      BY <2>1, <2>3
    <3>2. x + d <= y + d
      BY <1>3, <2>1
    <3> QED BY <3>1, <3>2
  <2>4. CASE h < j /\ ~(i < j)
    <3>1. cc[h] = x /\ cc[i] = y + d
      BY <2>1, <2>4
    <3>2. PICK t \in Nat : t = c[j] /\ t <= y
      BY <1>6, <1>8, <2>1, <2>4
    <3>3. x < p
      BY <1>4, <2>1, <2>4
    <3>4. d # 1 => p <= t
      BY <1>7, <3>2
    <3>5. x <= y + d
      <4>1. CASE d = 1
        BY <2>1, <4>1
      <4>2. CASE d # 1
        <5>1. d \in {-1, 0} /\ x < y
          BY <1>3, <3>2, <3>3, <3>4, <4>2
        <5> QED BY <5>1
      <4> QED BY <4>1, <4>2
    <3> QED BY <3>1, <3>5
  <2> QED BY <2>2, <2>3, <2>4
<1>13. Intact(cc, ee, n, w2)
  <2> SUFFICES ASSUME NEW i \in 1 .. n
               PROVE  /\ ee[i - 1] <= ee[i]
                      /\ ee[i - 1] = ee[i] => Piece(w2, cc[i - 1], cc[i])
    BY DEF Intact
  <2>1. i \in 0 .. n /\ i - 1 \in 0 .. n /\ i - 1 <= i
    OBVIOUS
  <2>2. PICK a \in Nat, b \in Nat, x \in Nat, y \in Nat :
          a = c[i - 1] /\ b = c[i] /\ x = e[i - 1] /\ y = e[i] /\ b <= l
    BY <1>6, <2>1
  <2>3. a <= b
    BY <1>5, <2>1, <2>2
  <2>4. x <= y /\ (x = y => \E q \in Payloads : SubSeq(w, a + 1, b) = Frame(q))
    BY <1>1, <2>2 DEF Cut, Intact, Piece
  <2>5. CASE i < j
    <3>1. i - 1 < j /\ b < p
      BY <1>4, <2>1, <2>2, <2>5
    <3>2. cc[i - 1] = a /\ cc[i] = b /\ ee[i - 1] = x /\ ee[i] = y
      BY <2>1, <2>2, <2>5, <3>1
    <3>3. b <= Len(w2) /\ a + 0 = a /\ b + 0 = b
      <4>1. b \in Nat /\ l \in Nat /\ p \in Nat /\ b < p /\ b <= l
        BY <2>2, <3>1
      <4>2. CASE d = -1
        <5>1. p <= l /\ l2 = l - 1
          BY <1>3, <4>2
        <5>2. b <= l2
          BY <4>1, <5>1
        <5> QED BY <1>2, <5>2
      <4>3. CASE d = 0 \/ d = 1
        <5>1. l2 = l \/ l2 = l + 1
          BY <1>3, <4>3
        <5>2. b <= l2
          BY <4>1, <5>1
        <5> QED BY <1>2, <5>2
      <4> QED BY <1>3, <4>2, <4>3
    <3>4. \A z \in a + 1 .. b : w2[z + 0] = w[z]
      <4>1. ASSUME NEW z \in a + 1 .. b PROVE w2[z + 0] = w[z]
        <5>1. z \in Nat /\ z >= 1 /\ z <= b
          OBVIOUS
        <5>2. z \in 1 .. l /\ z < p /\ z + 0 = z
          <6>1. b <= l /\ b < p /\ b \in Nat /\ l \in Nat
            BY <2>2, <3>1
          <6> QED BY ONLY <5>1, <6>1
        <5> QED BY <1>2, <5>2 DEF Edited
      <4> QED BY <4>1
    <3>5. SubSeq(w2, (a + 0) + 1, b + 0) = SubSeq(w, a + 1, b)
      <4>1. /\ w \in Seq(Byte) /\ w2 \in Seq(Byte) /\ 0 \in Int /\ a \in Nat /\ b \in Nat
            /\ a <= b /\ b <= Len(w) /\ a + 0 \in Nat /\ b + 0 \in Nat /\ b + 0 <= Len(w2)
        BY <1>2, <2>2, <2>3, <3>3
      <4>2. Shifted(w, w2, 0, a, b)
        BY <3>4, <4>1 DEF Shifted
      <4> QED BY ONLY <4>1, <4>2, SameBytes
    <3>6. Piece(w2, a, b) <=> \E q \in Payloads : SubSeq(w, a + 1, b) = Frame(q)
      BY <3>3, <3>5 DEF Piece
    <3> QED BY <2>4, <3>2, <3>6
  <2>6. CASE i = j
    <3>1. i - 1 < j /\ ~(i < j)
      BY <2>6
    <3>2. ee[i - 1] = x /\ ee[i] = y + 1
      BY <2>1, <2>2, <3>1
    <3>3. x <= y + 1 /\ x # y + 1
      BY <2>4
    <3> HIDE DEF cc, ee
    <3> QED BY <3>2, <3>3
  <2>7. CASE j < i
    <3>1. ~(i - 1 < j) /\ ~(i < j) /\ j < n
      BY <2>1, <2>7
    <3>2. p <= a
      <4>1. PICK t \in Nat : t = c[j]
        BY <1>6
      <4>2. p <= t
        BY <1>7, <3>1, <4>1
      <4>3. t <= a
        BY <1>8, <2>1, <2>2, <3>1, <4>1
      <4> QED BY <4>2, <4>3
    <3>3. cc[i - 1] = a + d /\ cc[i] = b + d /\ ee[i - 1] = x + 1 /\ ee[i] = y + 1
      BY <2>1, <2>2, <3>1
    <3>4. a + d \in Nat /\ b + d \in Nat /\ b + d <= Len(w2) /\ d \in Int
      <4>1. d \in {-1, 0, 1} /\ l2 = l + d /\ b <= l /\ p <= a /\ a <= b
        BY <1>3, <2>2, <2>3, <3>2
      <4>2. 1 <= a /\ 1 <= b
        BY <4>1
      <4>3. a + d \in Nat /\ b + d \in Nat /\ d \in Int
        BY <4>1, <4>2
      <4>4. b + d <= l2
        BY <4>1
      <4> QED BY <1>2, <4>3, <4>4
    <3>5. ASSUME NEW z \in a + 1 .. b PROVE w2[z + d] = w[z]
      <4>1. z \in Nat /\ z >= a + 1 /\ z <= b
        OBVIOUS
      <4>2. z \in 1 .. l /\ z > p
        <5>1. b <= l /\ p <= a /\ a \in Nat /\ b \in Nat /\ l \in Nat /\ p \in Nat
          BY <2>2, <3>2
        <5> QED BY ONLY <4>1, <5>1
      <4> QED BY <1>2, <4>2 DEF Edited
    <3>6. SubSeq(w2, (a + d) + 1, b + d) = SubSeq(w, a + 1, b)
      <4>1. /\ w \in Seq(Byte) /\ w2 \in Seq(Byte) /\ d \in Int /\ a \in Nat /\ b \in Nat
            /\ a <= b /\ b <= Len(w) /\ a + d \in Nat /\ b + d \in Nat /\ b + d <= Len(w2)
        BY <1>2, <2>2, <2>3, <3>4
      <4>2. \A z \in a + 1 .. b : w2[z + d] = w[z]
        BY <3>5
      <4>3. Shifted(w, w2, d, a, b)
        BY <4>1, <4>2 DEF Shifted
      <4> QED BY ONLY <4>1, <4>3, SameBytes
    <3>7. Piece(w2, a + d, b + d) <=> \E q \in Payloads : SubSeq(w, a + 1, b) = Frame(q)
      BY <3>6 DEF Piece
    <3>8. x + 1 <= y + 1 /\ (x + 1 = y + 1 => x = y)
      BY <2>4
    <3> HIDE DEF cc, ee
    <3>9. ee[i - 1] <= ee[i]
      BY <3>3, <3>8
    <3>10. ASSUME ee[i - 1] = ee[i] PROVE Piece(w2, cc[i - 1], cc[i])
      <4>1. x = y
        BY <3>3, <3>8, <3>10
      <4> QED BY <2>4, <3>3, <3>7, <4>1
    <3> QED BY <3>9, <3>10
  <2> QED BY <2>5, <2>6, <2>7
<1> HIDE DEF cc, ee
<1>14. Cut(cc, ee, n, w2, k + 1)
  BY <1>2, <1>9, <1>10, <1>11, <1>12, <1>13 DEF Cut
<1> QED BY <1>9, <1>14 DEF Made

\* Two sequences in one.
LEMMA Joined ==
  ASSUME NEW D, NEW u \in Seq(D), NEW v \in Seq(D),
         NEW m \in Nat, NEW n \in Nat, m = Len(u), n = Len(v)
  PROVE  /\ u \o v \in Seq(D) /\ Len(u \o v) = m + n
         /\ \A x \in 1 .. m + n : (u \o v)[x] = IF x <= m THEN u[x] ELSE v[x - m]
<1>1. u \o v \in Seq(D) /\ Len(u \o v) = m + n
  BY ConcatProperties
<1>2. \A x \in 1 .. m + n : (u \o v)[x] = IF x <= m THEN u[x] ELSE v[x - m]
  OBVIOUS
<1> QED BY <1>1, <1>2

\* What was read before the damage stays as it was.
LEMMA EditBehind ==
  ASSUME NEW u \in Seq(Byte), NEW w \in Seq(Byte), NEW w2 \in Seq(Byte),
         NEW p \in Nat, 1 <= p, NEW d, Edited(w, w2, p, d)
  PROVE  Edited(u \o w, u \o w2, Len(u) + p, d)
<1>1. PICK m \in Nat, l \in Nat, l2 \in Nat : m = Len(u) /\ l = Len(w) /\ l2 = Len(w2)
  OBVIOUS
<1>2. d \in {-1, 0, 1} /\ (d # 1 => p <= l) /\ l2 = l + d
  BY <1>1 DEF Edited
<1>3. /\ \A x \in 1 .. l : x < p => w2[x] = w[x]
      /\ \A x \in 1 .. l : x > p => w2[x + d] = w[x]
  BY <1>1 DEF Edited
<1>4. PICK v \in Seq(Byte), v2 \in Seq(Byte) : v = u \o w /\ v2 = u \o w2
  <2>1. u \o w \in Seq(Byte) /\ u \o w2 \in Seq(Byte)
    BY <1>1, Joined
  <2> QED BY <2>1
<1>5. /\ Len(v) = m + l /\ \A x \in 1 .. m + l : v[x] = IF x <= m THEN u[x] ELSE w[x - m]
      /\ Len(v2) = m + l2 /\ \A x \in 1 .. m + l2 : v2[x] = IF x <= m THEN u[x] ELSE w2[x - m]
  <2>1. /\ Len(u \o w) = m + l
        /\ \A x \in 1 .. m + l : (u \o w)[x] = IF x <= m THEN u[x] ELSE w[x - m]
    BY <1>1, Joined
  <2>2. /\ Len(u \o w2) = m + l2
        /\ \A x \in 1 .. m + l2 : (u \o w2)[x] = IF x <= m THEN u[x] ELSE w2[x - m]
    BY <1>1, Joined
  <2> QED BY ONLY <1>4, <2>1, <2>2
<1>6. ASSUME NEW x \in 1 .. m + l, x < m + p PROVE v2[x] = v[x]
  <2>1. x \in 1 .. m + l2
    <3>1. CASE d = 1
      BY <1>2, <3>1
    <3>2. CASE d # 1
      <4>1. p <= l /\ (l2 = l - 1 \/ l2 = l)
        BY <1>2, <3>2
      <4> QED BY <1>6, <4>1
    <3> QED BY <3>1, <3>2
  <2>2. CASE x <= m
    BY <1>5, <2>1, <2>2
  <2>3. CASE ~(x <= m)
    <3>1. x - m \in 1 .. l /\ x - m < p
      BY <1>6, <2>3
    <3>2. w2[x - m] = w[x - m]
      BY <1>3, <3>1
    <3> QED BY <1>5, <2>1, <2>3, <3>2
  <2> QED BY <2>2, <2>3
<1>7. ASSUME NEW x \in 1 .. m + l, x > m + p PROVE v2[x + d] = v[x]
  <2>1. ~(x <= m) /\ x - m \in 1 .. l /\ x - m > p
    BY <1>7
  <2>2. PICK y \in Int : y = x + d
    BY <1>2
  <2>3. y \in 1 .. m + l2 /\ ~(y <= m) /\ y - m = (x - m) + d
    BY <1>2, <2>1, <2>2
  <2>4. w2[(x - m) + d] = w[x - m]
    BY <1>3, <2>1
  <2>5. v2[y] = w2[y - m] /\ v[x] = w[x - m]
    BY <1>5, <2>1, <2>3
  <2> QED BY <2>2, <2>3, <2>4, <2>5
<1>8. Len(v2) = Len(v) + d /\ (d # 1 => m + p <= Len(v))
  <2>1. m + l2 = (m + l) + d /\ (d # 1 => m + p <= m + l)
    BY <1>2
  <2> QED BY <1>5, <2>1
<1>9. \A x \in 1 .. Len(v) : x < m + p => v2[x] = v[x]
  BY <1>5, <1>6
<1>10. \A x \in 1 .. Len(v) : x > m + p => v2[x + d] = v[x]
  BY <1>5, <1>7
<1>11. Edited(v, v2, m + p, d)
  BY <1>2, <1>8, <1>9, <1>10 DEF Edited
<1> QED BY <1>1, <1>4, <1>11

\* The line damages a byte in one of these ways.
LEMMA DamagedEdits ==
  ASSUME NEW w \in Seq(Byte), NEW i \in 1 .. Len(w) + 1, NEW b \in Byte
  PROVE  /\ i \in DOMAIN w => Edited(w, RemoveAt(w, i), i, -1)
         /\ i \in DOMAIN w => Edited(w, ReplaceAt(w, i, b), i, 0)
         /\ Edited(w, InsertAt(w, i, b), i, 1)
<1>1. PICK l \in Nat : l = Len(w) /\ DOMAIN w = 1 .. l
  OBVIOUS
<1>2. i \in 1 .. l + 1
  BY <1>1
<1>3. PICK u : u = SubSeq(w, 1, i - 1)
  OBVIOUS
<1>4. u \in Seq(Byte) /\ Len(u) = i - 1 /\ \A x \in 1 .. i - 1 : u[x] = w[x]
  <2>1. \A x \in 1 .. i - 1 : w[x] \in Byte
    BY <1>1, <1>2
  <2>2. /\ SubSeq(w, 1, i - 1) \in Seq(Byte)
        /\ Len(SubSeq(w, 1, i - 1)) = IF 1 <= i - 1 THEN (i - 1) - 1 + 1 ELSE 0
        /\ \A x \in 1 .. (i - 1) - 1 + 1 : SubSeq(w, 1, i - 1)[x] = w[1 + x - 1]
    BY <1>2, <2>1, SubSeqProperties
  <2>3. (i - 1) - 1 + 1 = i - 1 /\ \A x \in 1 .. i - 1 : 1 + x - 1 = x
    BY <1>2
  <2> QED BY <1>2, <1>3, <2>2, <2>3
<1>5. ASSUME NEW k \in 1 .. l + 1
      PROVE  /\ SubSeq(w, k, l) \in Seq(Byte) /\ Len(SubSeq(w, k, l)) = (l + 1) - k
             /\ \A x \in 1 .. (l + 1) - k : SubSeq(w, k, l)[x] = w[(k - 1) + x]
  <2>1. \A x \in k .. l : w[x] \in Byte
    BY <1>1
  <2>2. /\ SubSeq(w, k, l) \in Seq(Byte)
        /\ Len(SubSeq(w, k, l)) = IF k <= l THEN l - k + 1 ELSE 0
        /\ \A x \in 1 .. l - k + 1 : SubSeq(w, k, l)[x] = w[k + x - 1]
    BY <2>1, SubSeqProperties
  <2>3. l - k + 1 = (l + 1) - k /\ \A x \in 1 .. (l + 1) - k : k + x - 1 = (k - 1) + x
    OBVIOUS
  <2> QED BY <2>2, <2>3
<1>6. ASSUME i \in DOMAIN w PROVE Edited(w, RemoveAt(w, i), i, -1)
  <2>1. i \in 1 .. l /\ i + 1 \in 1 .. l + 1
    BY <1>1, <1>6
  <2>2. PICK v : v = SubSeq(w, i + 1, l)
    OBVIOUS
  <2>3. v \in Seq(Byte) /\ Len(v) = l - i /\ \A x \in 1 .. l - i : v[x] = w[i + x]
    <3>1. (l + 1) - (i + 1) = l - i /\ (i + 1) - 1 = i
      BY <2>1
    <3> QED BY <1>5, <2>1, <2>2, <3>1
  <2>4. PICK m \in Nat, n \in Nat : m = i - 1 /\ n = l - i /\ m = Len(u) /\ n = Len(v)
    BY <1>4, <2>1, <2>3
  <2>5. PICK z : z = u \o v
    OBVIOUS
  <2>10. /\ z \in Seq(Byte) /\ Len(z) = m + n
         /\ \A x \in 1 .. m + n : z[x] = IF x <= m THEN u[x] ELSE v[x - m]
    <3>1. u \in Seq(Byte) /\ v \in Seq(Byte) /\ m \in Nat /\ n \in Nat /\ m = Len(u) /\ n = Len(v)
      BY <1>4, <2>3, <2>4
    <3>2. /\ u \o v \in Seq(Byte) /\ Len(u \o v) = m + n
          /\ \A x \in 1 .. m + n : (u \o v)[x] = IF x <= m THEN u[x] ELSE v[x - m]
      BY ONLY <3>1, Joined
    <3> QED BY ONLY <2>5, <3>2
  <2>11. m + n = l - 1
    BY <2>1, <2>4
  <2>6. ASSUME NEW x \in 1 .. l, x < i PROVE z[x] = w[x]
    <3>1. x \in 1 .. m + n /\ x <= m /\ x \in 1 .. i - 1
      BY <2>1, <2>4, <2>6
    <3> QED BY <1>4, <2>10, <3>1
  <2>7. ASSUME NEW x \in 1 .. l, x > i PROVE z[x + (-1)] = w[x]
    <3>1. /\ x - 1 \in 1 .. m + n /\ ~(x - 1 <= m) /\ (x - 1) - m = x - i
          /\ x - i \in 1 .. l - i /\ i + (x - i) = x /\ x + (-1) = x - 1
      BY <2>1, <2>4, <2>7
    <3>2. z[x - 1] = v[x - i]
      BY <2>10, <3>1
    <3>3. v[x - i] = w[x]
      BY <2>3, <3>1
    <3> QED BY <3>1, <3>2, <3>3
  <2>8. z = RemoveAt(w, i)
    BY <1>1, <1>3, <2>2, <2>5 DEF RemoveAt
  <2>9. Len(z) = l + (-1) /\ i <= l
    BY <2>1, <2>10, <2>11
  <2> QED BY <1>1, <2>6, <2>7, <2>8, <2>9 DEF Edited
<1>7. ASSUME i \in DOMAIN w PROVE Edited(w, ReplaceAt(w, i, b), i, 0)
  <2>1. i \in 1 .. l
    BY <1>1, <1>7
  <2>2. PICK z : z = ReplaceAt(w, i, b)
    OBVIOUS
  <2>3. z \in Seq(Byte) /\ Len(z) = l /\ \A x \in 1 .. l : x # i => z[x] = w[x]
    BY <1>1, <2>1, <2>2 DEF ReplaceAt
  <2>4. \A x \in 1 .. l : (x < i => z[x] = w[x]) /\ (x > i => z[x + 0] = w[x])
    BY <2>1, <2>3
  <2>5. Len(z) = l + 0 /\ i <= l
    BY <2>1, <2>3
  <2> QED BY <1>1, <2>2, <2>4, <2>5 DEF Edited
<1>8. Edited(w, InsertAt(w, i, b), i, 1)
  <2>1. PICK v : v = SubSeq(w, i, l)
    OBVIOUS
  <2>2. /\ v \in Seq(Byte) /\ Len(v) = (l + 1) - i
        /\ \A x \in 1 .. (l + 1) - i : v[x] = w[(i - 1) + x]
    BY <1>2, <1>5, <2>1
  <2>3. PICK t : t = u \o <<b>>
    OBVIOUS
  <2>4. t \in Seq(Byte) /\ Len(t) = i /\ \A x \in 1 .. i - 1 : t[x] = w[x]
    <3>1. PICK m \in Nat : m = i - 1 /\ m = Len(u)
      BY <1>2, <1>4
    <3>2. <<b>> \in Seq(Byte) /\ Len(<<b>>) = 1 /\ 1 \in Nat
      OBVIOUS
    <3>3. /\ t \in Seq(Byte) /\ Len(t) = m + 1
          /\ \A x \in 1 .. m + 1 : t[x] = IF x <= m THEN u[x] ELSE <<b>>[x - m]
      BY <1>4, <2>3, <3>1, <3>2, Joined
    <3>4. m + 1 = i /\ \A x \in 1 .. i - 1 : x \in 1 .. m + 1 /\ x <= m
      BY <1>2, <3>1
    <3> QED BY <1>4, <3>3, <3>4
  <2>5. PICK z : z = t \o v
    OBVIOUS
  <2>6. /\ z \in Seq(Byte) /\ Len(z) = l + 1
        /\ \A x \in 1 .. l + 1 : z[x] = IF x <= i THEN t[x] ELSE v[x - i]
    <3>1. PICK m \in Nat, n \in Nat : m = i /\ n = (l + 1) - i /\ m = Len(t) /\ n = Len(v)
      BY <1>2, <2>2, <2>4
    <3>2. /\ z \in Seq(Byte) /\ Len(z) = m + n
          /\ \A x \in 1 .. m + n : z[x] = IF x <= m THEN t[x] ELSE v[x - m]
      <4>1. t \in Seq(Byte) /\ v \in Seq(Byte) /\ m \in Nat /\ n \in Nat /\ m = Len(t) /\ n = Len(v)
        BY <2>2, <2>4, <3>1
      <4>2. /\ t \o v \in Seq(Byte) /\ Len(t \o v) = m + n
            /\ \A x \in 1 .. m + n : (t \o v)[x] = IF x <= m THEN t[x] ELSE v[x - m]
        BY ONLY <4>1, Joined
      <4> QED BY ONLY <2>5, <4>2
    <3>3. m + n = l + 1
      BY <3>1
    <3> QED BY <3>1, <3>2, <3>3
  <2>7. ASSUME NEW x \in 1 .. l, x < i PROVE z[x] = w[x]
    <3>1. x \in 1 .. l + 1 /\ x <= i /\ x \in 1 .. i - 1
      BY <1>2, <2>7
    <3> QED BY <2>4, <2>6, <3>1
  <2>8. ASSUME NEW x \in 1 .. l, x > i PROVE z[x + 1] = w[x]
    <3>1. /\ x + 1 \in 1 .. l + 1 /\ ~(x + 1 <= i) /\ (x + 1) - i \in 1 .. (l + 1) - i
          /\ (i - 1) + ((x + 1) - i) = x
      BY <1>2, <2>8
    <3>2. z[x + 1] = v[(x + 1) - i]
      BY <2>6, <3>1
    <3>3. v[(x + 1) - i] = w[(i - 1) + ((x + 1) - i)]
      BY <2>2, <3>1
    <3> QED BY <3>1, <3>2, <3>3
  <2>9. z = InsertAt(w, i, b)
    BY <1>1, <1>3, <2>1, <2>3, <2>5 DEF InsertAt
  <2> QED BY <1>1, <2>6, <2>7, <2>8, <2>9 DEF Edited
<1> QED BY <1>6, <1>7, <1>8

\* A frame more on the line is a piece more of it.
LEMMA FrameMade ==
  ASSUME NEW w \in Seq(Byte), NEW n \in Nat, NEW k \in Nat, Made(w, n, k), NEW p \in Payloads
  PROVE  Made(w \o Frame(p), n + 1, k)
<1>1. PICK c \in [0 .. n -> Nat], e \in [0 .. n -> Nat] : Cut(c, e, n, w, k)
  BY DEF Made
<1>2. PICK f \in Seq(Byte) : f = Frame(p)
  BY BodyType
<1>3. PICK l \in Nat, m \in Nat : l = Len(w) /\ m = Len(f)
  OBVIOUS
<1>4. PICK z : z = w \o f
  OBVIOUS
<1>5. /\ z \in Seq(Byte) /\ Len(z) = l + m
      /\ \A x \in 1 .. l + m : z[x] = IF x <= l THEN w[x] ELSE f[x - l]
  <2>1. /\ w \in Seq(Byte) /\ f \in Seq(Byte) /\ l \in Nat /\ m \in Nat
        /\ l = Len(w) /\ m = Len(f)
    BY <1>3
  <2>2. /\ w \o f \in Seq(Byte) /\ Len(w \o f) = l + m
        /\ \A x \in 1 .. l + m : (w \o f)[x] = IF x <= l THEN w[x] ELSE f[x - l]
    BY ONLY <2>1, Joined
  <2> QED BY ONLY <1>4, <2>2
<1>6. c[n] = l /\ \A h, i \in 0 .. n : h <= i => c[h] <= c[i]
  BY <1>1, <1>3 DEF Cut, Ordered
<1>7. \A i \in 0 .. n : c[i] \in Nat /\ e[i] \in Nat /\ c[i] <= l
  BY <1>6
<1> DEFINE cc == [i \in 0 .. n + 1 |-> IF i <= n THEN c[i] ELSE l + m]
           ee == [i \in 0 .. n + 1 |-> IF i <= n THEN e[i] ELSE e[n]]
<1>8. cc \in [0 .. n + 1 -> Nat] /\ ee \in [0 .. n + 1 -> Nat]
  BY <1>7
<1>9. /\ \A i \in 0 .. n : cc[i] = c[i] /\ ee[i] = e[i]
      /\ cc[n + 1] = l + m /\ ee[n + 1] = e[n]
  OBVIOUS
<1> HIDE DEF cc, ee
<1>10. cc[n + 1] = Len(z) /\ ee[n + 1] <= k
  BY <1>1, <1>5, <1>9 DEF Cut
<1>11. ee[0] = 0 => cc[0] = 0
  BY <1>1, <1>9 DEF Cut
<1>12. Ordered(cc, n + 1)
  <2> SUFFICES ASSUME NEW h \in 0 .. n + 1, NEW i \in 0 .. n + 1, h <= i PROVE cc[h] <= cc[i]
    BY DEF Ordered
  <2>1. CASE i <= n
    <3>1. h \in 0 .. n /\ i \in 0 .. n
      BY <2>1
    <3>2. cc[h] = c[h] /\ cc[i] = c[i]
      BY <1>9, <3>1
    <3>3. c[h] <= c[i]
      BY <1>6, <3>1
    <3> QED BY <3>2, <3>3
  <2>2. CASE i = n + 1 /\ h <= n
    <3>1. cc[h] \in Nat /\ cc[h] <= l /\ cc[i] = l + m
      BY <1>7, <1>9, <2>2
    <3> QED BY <3>1
  <2>3. CASE i = n + 1 /\ h = n + 1
    BY <1>9, <2>3
  <2> QED BY <2>1, <2>2, <2>3
<1>13. Intact(cc, ee, n + 1, z)
  <2> SUFFICES ASSUME NEW i \in 1 .. n + 1
               PROVE  /\ ee[i - 1] <= ee[i]
                      /\ ee[i - 1] = ee[i] => Piece(z, cc[i - 1], cc[i])
    BY DEF Intact
  <2>1. CASE i <= n
    <3>1. i \in 0 .. n /\ i - 1 \in 0 .. n /\ i \in 1 .. n /\ i - 1 <= i
      BY <2>1
    <3>2. PICK a \in Nat, b \in Nat, x \in Nat, y \in Nat :
            a = c[i - 1] /\ b = c[i] /\ x = e[i - 1] /\ y = e[i] /\ b <= l
      BY <1>7, <3>1
    <3>3. a <= b
      BY <1>6, <3>1, <3>2
    <3>4. x <= y /\ (x = y => Piece(w, a, b))
      BY <1>1, <3>1, <3>2 DEF Cut, Intact
    <3>5. cc[i - 1] = a /\ cc[i] = b /\ ee[i - 1] = x /\ ee[i] = y
      BY <1>9, <3>1, <3>2
    <3>6. /\ w \in Seq(Byte) /\ z \in Seq(Byte) /\ 0 \in Int /\ a \in Nat /\ b \in Nat
          /\ a <= b /\ b <= Len(w) /\ a + 0 \in Nat /\ b + 0 \in Nat /\ b + 0 <= Len(z)
      <4>1. b <= l /\ b <= l + m
        <5>1. b <= l
          BY <3>2
        <5>2. b <= l + m
          BY ONLY <5>1, b \in Nat, l \in Nat, m \in Nat
        <5> QED BY ONLY <5>1, <5>2
      <4>2. b <= Len(w) /\ b <= Len(z)
        BY <1>3, <1>5, <4>1
      <4>3. a + 0 = a /\ b + 0 = b
        OBVIOUS
      <4> QED BY <1>5, <3>3, <4>2, <4>3
    <3>7. \A t \in a + 1 .. b : z[t + 0] = w[t]
      <4>1. ASSUME NEW t \in a + 1 .. b PROVE z[t + 0] = w[t]
        <5>1. t \in Nat /\ t >= 1 /\ t <= b
          OBVIOUS
        <5>2. t \in 1 .. l + m /\ t <= l /\ t + 0 = t
          <6>1. b <= l
            BY <3>2
          <6> QED BY ONLY <5>1, <6>1, l \in Nat, m \in Nat, b \in Nat
        <5> QED BY <1>5, <5>2
      <4> QED BY <4>1
    <3>8. SubSeq(z, (a + 0) + 1, b + 0) = SubSeq(w, a + 1, b)
      <4>1. Shifted(w, z, 0, a, b)
        BY ONLY <3>6, <3>7 DEF Shifted
      <4> QED BY ONLY <3>6, <4>1, SameBytes
    <3>9. a + 0 = a /\ b + 0 = b
      OBVIOUS
    <3>10. Piece(w, a, b) => Piece(z, a, b)
      BY <3>8, <3>9 DEF Piece
    <3> QED BY <3>4, <3>5, <3>10
  <2>2. CASE i = n + 1
    <3>1. i - 1 = n /\ n \in 0 .. n
      BY <2>2
    <3>2. cc[i - 1] = l /\ cc[i] = l + m /\ ee[i - 1] = e[n] /\ ee[i] = e[n] /\ e[n] \in Nat
      BY <1>6, <1>7, <1>9, <2>2, <3>1
    <3>3. SubSeq(z, l + 1, l + m) = f
      <4>1. SubSeq(w \o f, Len(w) + 1, Len(w) + Len(f)) = f
        BY ONLY w \in Seq(Byte), f \in Seq(Byte), ConcatSplits
      <4> QED BY ONLY <1>3, <1>4, <4>1
    <3>4. Piece(z, l, l + m)
      BY <1>2, <3>3 DEF Piece
    <3>5. ee[i - 1] <= ee[i]
      BY <3>2
    <3> QED BY <3>2, <3>4, <3>5
  <2> QED BY <2>1, <2>2
<1>14. Cut(cc, ee, n + 1, z, k)
  BY <1>8, <1>10, <1>11, <1>12, <1>13 DEF Cut
<1>15. Made(z, n + 1, k)
  BY <1>8, <1>14 DEF Made
<1> QED BY <1>2, <1>4, <1>15

(***************************************************************************)
(* past is what has been read of the line.                                 *)
(***************************************************************************)
Reads(r, w, n, k) ==
  \E past \in Seq(Byte) : r = Feed(Start, past) /\ Made(past \o w, n, k)

LossInv == TypeOK /\ Reads(Decoder, wire, Len(sent), damage)

LEMMA LossInit == Init => LossInv
<1> SUFFICES ASSUME Init PROVE LossInv
  OBVIOUS
<1>1. TypeOK
  BY TypeInit
<1>2. wire = <<>> /\ sent = <<>> /\ damage = 0 /\ Decoder = Start
  BY DEF Init, Decoder, Start, Whole
<1>3. <<>> \in Seq(Byte) /\ Len(<<>>) = 0 /\ <<>> \o <<>> = <<>>
  OBVIOUS
<1>4. Feed(Start, <<>>) = Start
  BY StartType, FeedNone
<1> DEFINE zero == [i \in 0 .. 0 |-> 0]
<1>5. zero \in [0 .. 0 -> Nat] /\ zero[0] = 0
  OBVIOUS
<1>6. Ordered(zero, 0)
  BY DEF Ordered
<1>7. Intact(zero, zero, 0, <<>>)
  BY DEF Intact
<1> HIDE DEF zero
<1>8. Cut(zero, zero, 0, <<>>, 0)
  BY <1>3, <1>5, <1>6, <1>7 DEF Cut
<1>9. Made(<<>>, 0, 0)
  BY <1>5, <1>8 DEF Made
<1>10. Reads(Start, <<>>, 0, 0)
  BY <1>3, <1>4, <1>9 DEF Reads
<1> QED BY <1>1, <1>2, <1>3, <1>10 DEF LossInv

LEMMA LossEncode ==
  ASSUME LossInv, NEW payload \in Payloads, Encode(payload)
  PROVE  Reads(Decoder', wire', Len(sent'), damage')
<1>1. wire \in Seq(Byte) /\ sent \in Seq(Payloads) /\ damage \in Nat
  BY BoundsAssumption DEF LossInv, TypeOK
<1>2. PICK n \in Nat : n = Len(sent)
  BY <1>1
<1>3. PICK past \in Seq(Byte) : Decoder = Feed(Start, past) /\ Made(past \o wire, n, damage)
  BY <1>2 DEF LossInv, Reads
<1>4. PICK f \in Seq(Byte) : f = Frame(payload)
  BY BodyType
<1>5. wire' = wire \o f /\ sent' = Append(sent, payload) /\ damage' = damage /\ Decoder' = Decoder
  BY <1>4 DEF Encode, Decoder
<1>6. Len(sent') = n + 1
  BY <1>1, <1>2, <1>5
<1>7. past \o wire \in Seq(Byte)
  BY <1>1
<1>8. Made((past \o wire) \o f, n + 1, damage)
  BY <1>1, <1>3, <1>4, <1>7, FrameMade
<1>9. (past \o wire) \o f = past \o (wire \o f)
  BY <1>1, ConcatAssociative
<1>10. Reads(Decoder, wire \o f, n + 1, damage)
  BY <1>3, <1>8, <1>9 DEF Reads
<1> QED BY <1>5, <1>6, <1>10

LEMMA LossDecode ==
  ASSUME LossInv, NEW n \in DOMAIN wire, Decode(n)
  PROVE  Reads(Decoder', wire', Len(sent'), damage')
<1>1. wire \in Seq(Byte) /\ Decoder \in Decoders
  BY DecoderType DEF LossInv, TypeOK
<1>2. PICK past \in Seq(Byte) : Decoder = Feed(Start, past) /\ Made(past \o wire, Len(sent), damage)
  BY DEF LossInv, Reads
<1>3. PICK u \in Seq(Byte), v \in Seq(Byte) :
        u = SubSeq(wire, 1, n) /\ v = SubSeq(wire, n + 1, Len(wire)) /\ wire = u \o v
  BY <1>1, ReadSplits
<1>4. PICK r \in Decoders : r = Feed(Decoder, u)
  BY <1>1, FeedType
<1>5. wire' = v /\ sent' = sent /\ damage' = damage /\ Decoder' = r
  <2>1. wire' = v /\ sent' = sent /\ damage' = damage
    BY <1>3 DEF Decode
  <2>2. escaping' = r.escaping /\ decoded' = r.decoded /\ delivered' = r.delivered
    BY <1>3, <1>4 DEF Decode
  <2>3. Decoder' = [escaping |-> r.escaping, decoded |-> r.decoded, delivered |-> r.delivered]
    BY <2>2 DEF Decoder
  <2>4. r = [escaping |-> r.escaping, decoded |-> r.decoded, delivered |-> r.delivered]
    BY DEF Decoders
  <2> QED BY <2>1, <2>3, <2>4
<1>6. past \o u \in Seq(Byte)
  OBVIOUS
<1>7. r = Feed(Start, past \o u)
  BY <1>2, <1>4, StartType, FeedConcat
<1>8. (past \o u) \o v = past \o wire
  <2>1. (past \o u) \o v = past \o (u \o v)
    BY ConcatAssociative, SMTT(30)
  <2> QED BY <1>3, <2>1
<1>9. Reads(r, v, Len(sent), damage)
  BY <1>2, <1>6, <1>7, <1>8 DEF Reads
<1> QED BY <1>5, <1>9

LEMMA LossDamaged ==
  ASSUME LossInv, NEW w \in Seq(Byte), Damaged(w),
         NEW i \in 1 .. Len(wire) + 1, NEW d, Edited(wire, w, i, d)
  PROVE  Reads(Decoder', wire', Len(sent'), damage')
<1>1. wire \in Seq(Byte) /\ damage \in Nat /\ sent \in Seq(Payloads)
  BY BoundsAssumption DEF LossInv, TypeOK
<1>2. PICK n \in Nat, k \in Nat : n = Len(sent) /\ k = damage
  BY <1>1
<1>3. PICK past \in Seq(Byte) : Decoder = Feed(Start, past) /\ Made(past \o wire, n, k)
  BY <1>2 DEF LossInv, Reads
<1>4. PICK z \in Seq(Byte) : z = wire
  BY <1>1
<1>5. PICK m \in Nat, l \in Nat : m = Len(past) /\ l = Len(z)
  OBVIOUS
<1>6. i \in Nat /\ 1 <= i /\ i <= l + 1
  BY <1>4, <1>5
<1>7. Edited(past \o z, past \o w, m + i, d)
  BY <1>4, <1>5, <1>6, EditBehind
<1>8. past \o z \in Seq(Byte) /\ past \o w \in Seq(Byte) /\ Len(past \o z) = m + l
  BY <1>5, Joined
<1>9. m + i \in Nat /\ 1 <= m + i /\ m + i <= Len(past \o z) + 1
  BY <1>6, <1>8
<1>10. Made(past \o w, n, k + 1)
  BY <1>3, <1>4, <1>7, <1>8, <1>9, EditMade
<1>11. wire' = w /\ sent' = sent /\ damage' = damage + 1 /\ Decoder' = Decoder
  BY DEF Damaged, Decoder
<1>12. Reads(Decoder, w, n, k + 1)
  BY <1>3, <1>10 DEF Reads
<1> QED BY <1>2, <1>11, <1>12

LEMMA LossStep == LossInv /\ [Next]_vars => LossInv'
<1> SUFFICES ASSUME LossInv, [Next]_vars PROVE LossInv'
  OBVIOUS
<1>1. TypeOK'
  BY TypeStep DEF LossInv
<1>2. wire \in Seq(Byte)
  BY DEF LossInv, TypeOK
<1> SUFFICES Reads(Decoder', wire', Len(sent'), damage')
  BY <1>1 DEF LossInv
<1>3. ASSUME NEW payload \in Payloads, Encode(payload)
      PROVE  Reads(Decoder', wire', Len(sent'), damage')
  BY <1>3, LossEncode
<1>4. ASSUME NEW n \in DOMAIN wire, Decode(n)
      PROVE  Reads(Decoder', wire', Len(sent'), damage')
  BY <1>4, LossDecode
<1>5. ASSUME NEW i \in DOMAIN wire, Lose(i)
      PROVE  Reads(Decoder', wire', Len(sent'), damage')
  <2>1. i \in 1 .. Len(wire) + 1 /\ 0 \in Byte
    BY <1>2 DEF Byte
  <2>2. RemoveAt(wire, i) \in Seq(Byte) /\ Edited(wire, RemoveAt(wire, i), i, -1)
    BY <1>2, <2>1, DamagedType, DamagedEdits
  <2>3. Damaged(RemoveAt(wire, i))
    BY <1>5 DEF Lose
  <2> QED BY <2>1, <2>2, <2>3, LossDamaged
<1>6. ASSUME NEW i \in DOMAIN wire, NEW byte \in Noise, Change(i, byte)
      PROVE  Reads(Decoder', wire', Len(sent'), damage')
  <2>1. i \in 1 .. Len(wire) + 1 /\ byte \in Byte
    BY <1>2, NoiseAssumption
  <2>2. ReplaceAt(wire, i, byte) \in Seq(Byte) /\ Edited(wire, ReplaceAt(wire, i, byte), i, 0)
    BY <1>2, <2>1, DamagedType, DamagedEdits
  <2>3. Damaged(ReplaceAt(wire, i, byte))
    BY <1>6 DEF Change
  <2> QED BY <2>1, <2>2, <2>3, LossDamaged
<1>7. ASSUME NEW i \in 1 .. Len(wire) + 1, NEW byte \in Noise, Invent(i, byte)
      PROVE  Reads(Decoder', wire', Len(sent'), damage')
  <2>1. byte \in Byte
    BY NoiseAssumption
  <2>2. InsertAt(wire, i, byte) \in Seq(Byte) /\ Edited(wire, InsertAt(wire, i, byte), i, 1)
    BY <1>2, <2>1, DamagedType, DamagedEdits
  <2>3. Damaged(InsertAt(wire, i, byte))
    BY <1>7 DEF Invent
  <2> QED BY <2>2, <2>3, LossDamaged
<1>8. CASE UNCHANGED vars
  BY <1>8 DEF LossInv, vars, Decoder
<1> QED BY <1>3, <1>4, <1>5, <1>6, <1>7, <1>8 DEF Next

LEMMA LossInvariant == Spec => []LossInv
BY LossInit, LossStep, PTL DEF Spec

\* The decoder resynchronises without anybody calling reset(): each damaged
\* byte, wherever it is, costs at most the frame it hits and the next.
THEOREM LossBoundedCorrect == Spec => []LossBounded
<1>1. LossInv => LossBounded
  <2> SUFFICES ASSUME LossInv, wire = <<>> PROVE Len(delivered) + 2 * damage >= Len(sent)
    BY DEF LossBounded
  <2>1. damage \in Nat /\ sent \in Seq(Payloads) /\ delivered \in Seq(Seq(Byte))
    BY BoundsAssumption DEF LossInv, TypeOK
  <2>2. PICK past \in Seq(Byte) :
          Decoder = Feed(Start, past) /\ Made(past \o <<>>, Len(sent), damage)
    BY DEF LossInv, Reads
  <2>3. past \o <<>> = past
    BY ConcatEmptySeq
  <2>4. Len(sent) \in Nat
    BY <2>1
  <2>5. Len(Feed(Start, past).delivered) + 2 * damage >= Len(sent)
    BY <2>1, <2>2, <2>3, <2>4, MadeRead
  <2>6. Decoder.delivered = delivered
    BY DEF Decoder
  <2> QED BY <2>2, <2>5, <2>6
<1> QED BY LossInvariant, <1>1, PTL
=============================================================================
