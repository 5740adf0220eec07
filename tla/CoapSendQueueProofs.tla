------------------------ MODULE CoapSendQueueProofs ------------------------
(***************************************************************************)
(* Proofs about CoapSendQueue, for any messages, exchanges, clock rates,   *)
(* numbers of retransmissions and failures: what the list of relative      *)
(* times means before and after each operation, that it holds exactly the  *)
(* unanswered messages, and that it implements RetransmitTimers.           *)
(***************************************************************************)
EXTENDS CoapSendQueue, FiniteSetTheorems, WellFoundedInduction, TLAPS

\* Induction over the natural numbers, for a set: the loops of the code are
\* followed from one iteration to the next with it.
LEMMA SetInduction ==
  ASSUME NEW S, 0 \in S, \A n \in Nat : n \in S => n + 1 \in S
  PROVE  Nat \subseteq S
<1> DEFINE T == Nat \ S
<1> SUFFICES ASSUME T # {} PROVE FALSE
  OBVIOUS
<1>1. IsWellFoundedOn(OpToRel(<, Nat), Nat)
  BY NatLessThanWellFounded
<1>2. T \subseteq Nat
  OBVIOUS
<1>3. \E x \in T : \A y \in T : ~(<<y, x>> \in OpToRel(<, Nat))
  <2> HIDE DEF T
  <2> QED BY ONLY <1>1, <1>2, T # {}, WFMin
<1>4. PICK x \in T : \A y \in T : ~(<<y, x>> \in OpToRel(<, Nat))
  BY <1>3
<1>5. \A y \in T : ~(y < x)
  BY <1>2, <1>4 DEF OpToRel
<1>6. CASE x = 0
  BY <1>6
<1>7. CASE x # 0
  <2>1. x - 1 \in Nat
    BY <1>7
  <2>2. x - 1 \notin T
    BY <1>5, <2>1
  <2> QED
    BY <2>1, <2>2
<1> QED
  BY <1>6, <1>7

\* A set of natural numbers that is not empty has a smallest element: what a
\* loop finds first.
LEMMA SmallestOf ==
  ASSUME NEW S, S \subseteq Nat, S # {}
  PROVE  \E n \in S : \A k \in S : n <= k
<1> SUFFICES ASSUME \A n \in S : \E k \in S : k < n PROVE FALSE
  OBVIOUS
<1> DEFINE T == {n \in Nat : \A k \in 0 .. n : k \notin S}
<1>1. 0 \in T
  OBVIOUS
<1>2. \A n \in Nat : n \in T => n + 1 \in T
  OBVIOUS
<1>3. Nat \subseteq T
  <2> HIDE DEF T
  <2> QED BY <1>1, <1>2, SetInduction
<1>4. PICK n \in S : TRUE
  OBVIOUS
<1>5. n \in T /\ n \in 0 .. n
  BY <1>3, <1>4
<1> QED BY <1>4, <1>5

(***************************************************************************)
(* f is the function that starts with b and goes on with g, up to n.       *)
(***************************************************************************)
Recurs(f, n, b, g) == f[0] = b /\ \A k \in 0 .. n - 1 : f[k + 1] = g[k][f[k]]

\* Two functions that recur alike are alike.
LEMMA RecursionUnique ==
  ASSUME NEW b, NEW g, NEW n \in Nat, NEW m \in Nat, NEW e, NEW f,
         Recurs(e, n, b, g), Recurs(f, m, b, g)
  PROVE  \A k \in Nat : k <= n /\ k <= m => e[k] = f[k]
<1> DEFINE S == {k \in Nat : k <= n /\ k <= m => e[k] = f[k]}
<1>1. 0 \in S
  BY DEF Recurs
<1>2. ASSUME NEW k \in Nat, k \in S PROVE k + 1 \in S
  <2> SUFFICES ASSUME k + 1 <= n, k + 1 <= m PROVE e[k + 1] = f[k + 1]
    OBVIOUS
  <2>1. k \in 0 .. n - 1 /\ k \in 0 .. m - 1 /\ e[k] = f[k]
    BY <1>2
  <2> QED BY <2>1 DEF Recurs
<1>3. Nat \subseteq S
  <2> HIDE DEF S
  <2> QED BY <1>1, <1>2, SetInduction
<1> QED BY <1>3

\* Up to any n there is a function that recurs.
LEMMA RecursionUpTo ==
  ASSUME NEW V, NEW b \in V, NEW g \in [Nat -> [V -> V]], NEW n \in Nat
  PROVE  \E f \in [0 .. n -> V] : Recurs(f, n, b, g)
<1> DEFINE S == {m \in Nat : \E f \in [0 .. m -> V] : Recurs(f, m, b, g)}
<1>1. 0 \in S
  <2>1. [k \in 0 .. 0 |-> b] \in [0 .. 0 -> V] /\ Recurs([k \in 0 .. 0 |-> b], 0, b, g)
    BY DEF Recurs
  <2> QED BY <2>1
<1>2. ASSUME NEW m \in Nat, m \in S PROVE m + 1 \in S
  <2>1. PICK f \in [0 .. m -> V] : Recurs(f, m, b, g)
    BY <1>2
  <2> DEFINE e == [k \in 0 .. m + 1 |-> IF k <= m THEN f[k] ELSE g[m][f[m]]]
  <2>2. e \in [0 .. m + 1 -> V]
    <3>1. f[m] \in V /\ g[m] \in [V -> V]
      OBVIOUS
    <3>2. g[m][f[m]] \in V
      BY <3>1
    <3>3. \A k \in 0 .. m + 1 : k <= m => f[k] \in V
      OBVIOUS
    <3> QED BY <3>2, <3>3
  <2>3. e[0] = b
    BY <2>1 DEF Recurs
  <2>4. ASSUME NEW k \in 0 .. m + 1 - 1 PROVE e[k + 1] = g[k][e[k]]
    <3>1. CASE k = m
      BY <3>1
    <3>2. CASE k # m
      <4>1. k \in 0 .. m - 1 /\ k + 1 <= m /\ k <= m
        BY <3>2
      <4>2. f[k + 1] = g[k][f[k]]
        BY <2>1, <4>1 DEF Recurs
      <4> QED BY <4>1, <4>2
    <3> QED BY <3>1, <3>2
  <2> HIDE DEF e
  <2>5. Recurs(e, m + 1, b, g)
    BY <2>3, <2>4 DEF Recurs
  <2> QED BY <2>2, <2>5
<1>3. Nat \subseteq S
  <2> HIDE DEF S
  <2> QED BY <1>1, <1>2, SetInduction
<1> QED BY <1>3

\* There is one function that recurs for ever.
LEMMA RecursionExists ==
  ASSUME NEW V, NEW b \in V, NEW g \in [Nat -> [V -> V]]
  PROVE  \E f \in [Nat -> V] : \A n \in Nat : Recurs(f, n, b, g)
<1> DEFINE F(n) == CHOOSE f : f \in [0 .. n -> V] /\ Recurs(f, n, b, g)
           f == [n \in Nat |-> F(n)[n]]
<1>1. ASSUME NEW n \in Nat PROVE F(n) \in [0 .. n -> V] /\ Recurs(F(n), n, b, g)
  <2>1. \E e : e \in [0 .. n -> V] /\ Recurs(e, n, b, g)
    BY RecursionUpTo
  <2> QED BY <2>1
<1> HIDE DEF F
<1>2. f \in [Nat -> V]
  BY <1>1
<1>3. f[0] = b
  BY <1>1 DEF Recurs
<1>4. ASSUME NEW n \in Nat PROVE f[n + 1] = g[n][f[n]]
  <2>1. Recurs(F(n), n, b, g) /\ Recurs(F(n + 1), n + 1, b, g)
    BY <1>1
  <2>2. F(n)[n] = F(n + 1)[n]
    <3>1. n + 1 \in Nat /\ n <= n /\ n <= n + 1
      OBVIOUS
    <3> QED BY <2>1, <3>1, RecursionUnique
  <2>3. F(n + 1)[n + 1] = g[n][F(n + 1)[n]]
    BY <2>1 DEF Recurs
  <2> QED BY <2>2, <2>3
<1> HIDE DEF f
<1>5. \A n \in Nat : Recurs(f, n, b, g)
  BY <1>3, <1>4 DEF Recurs
<1> QED BY <1>2, <1>5

\* Shifting 1 to the left gives natural numbers.
LEMMA PowerType == \A n \in Nat : PowerOfTwo[n] \in Nat
<1> DEFINE g == [n \in Nat |-> [v \in Nat |-> 2 * v]]
           Recursive(f) == f = [n \in Nat |-> IF n = 0 THEN 1 ELSE 2 * f[n - 1]]
<1>1. \E f : Recursive(f)
  <2>1. g \in [Nat -> [Nat -> Nat]]
    OBVIOUS
  <2>2. PICK f \in [Nat -> Nat] : \A n \in Nat : Recurs(f, n, 1, g)
    <3> HIDE DEF g
    <3> QED BY <2>1, RecursionExists
  <2>3. f[0] = 1
    BY <2>2 DEF Recurs
  <2>4. ASSUME NEW n \in Nat, n # 0 PROVE f[n] = 2 * f[n - 1]
    <3>1. n - 1 \in Nat /\ n - 1 \in 0 .. n - 1 /\ (n - 1) + 1 = n
      BY <2>4
    <3>2. f[n] = g[n - 1][f[n - 1]]
      BY <2>2, <3>1 DEF Recurs
    <3> QED BY <3>1, <3>2
  <2> QED BY <2>2, <2>3, <2>4
<1>2. Recursive(PowerOfTwo)
  BY <1>1 DEF PowerOfTwo
<1> DEFINE S == {n \in Nat : PowerOfTwo[n] \in Nat}
<1>3. 0 \in S
  BY <1>2
<1>4. ASSUME NEW n \in Nat, n \in S PROVE n + 1 \in S
  <2>1. n + 1 \in Nat /\ n + 1 # 0 /\ (n + 1) - 1 = n
    OBVIOUS
  <2>2. PowerOfTwo[n + 1] = 2 * PowerOfTwo[n]
    BY <1>2, <2>1
  <2> QED BY <1>4, <2>2
<1>5. Nat \subseteq S
  <2> HIDE DEF S
  <2> QED BY <1>3, <1>4, SetInduction
<1> QED BY <1>5

\* calc_timeout's fixed-point arithmetic keeps what RFC 7252 asks for: the
\* timeout is at least ACK_TIMEOUT and at most one and a half times that,
\* whatever prng() returns and however long a tick is.
THEOREM TimeoutBounds ==
  \A r \in 0 .. 255 : CalcTimeout(r) \in AckTimeout .. 3 * TicksPerSecond
<1> SUFFICES ASSUME NEW r \in 0 .. 255
             PROVE  CalcTimeout(r) \in AckTimeout .. 3 * TicksPerSecond
  OBVIOUS
<1> DEFINE factor  == Rounded((96 - 64) * r, 256) + 64
           timeout == Rounded(factor * 128, 64)
<1>1. factor \in 64 .. 96
  BY DEF Rounded
<1>2. timeout \in 128 .. 192
  <2> HIDE DEF factor
  <2> QED BY <1>1 DEF Rounded
<1>3. CalcTimeout(r) = (TicksPerSecond * timeout + 32) \div 64
  BY DEF CalcTimeout, Rounded
<1> HIDE DEF timeout, factor
<1>4. TicksPerSecond \in Nat \ {0}
  BY TimingAssumption
<1>5. PICK p \in Int : p = TicksPerSecond * timeout
  BY <1>2, <1>4
<1>6. 128 * TicksPerSecond <= p /\ p <= 192 * TicksPerSecond
  BY <1>2, <1>4, <1>5
<1>7. (p + 32) \div 64 \in 2 * TicksPerSecond .. 3 * TicksPerSecond
  BY <1>4, <1>6
<1> QED BY <1>3, <1>5, <1>7 DEF AckTimeout

\* ... so no message is due at the moment it is sent.
LEMMA TimeoutType == Timeouts \subseteq Nat \ {0}
<1> SUFFICES ASSUME NEW r \in Randoms PROVE CalcTimeout(r) \in Nat \ {0}
  BY DEF Timeouts
<1>1. r \in 0 .. 255 /\ TicksPerSecond \in Nat \ {0}
  BY TimingAssumption
<1>2. CalcTimeout(r) \in AckTimeout .. 3 * TicksPerSecond
  BY <1>1, TimeoutBounds
<1> QED BY <1>1, <1>2 DEF AckTimeout

(***************************************************************************)
(* Relative times.                                                         *)
(***************************************************************************)
Timed(q) == Len(q) \in Nat /\ \A k \in 1 .. Len(q) : q[k].t \in Int

\* The absolute time of an element is the sum of the relative ones up to it.
LEMMA OffsetSums ==
  ASSUME NEW q, Timed(q)
  PROVE  /\ Offset(q, 0) = 0
         /\ \A i \in 0 .. Len(q) : Offset(q, i) \in Int
         /\ \A i \in 1 .. Len(q) : Offset(q, i) = Offset(q, i - 1) + q[i].t
<1> DEFINE n == Len(q)
           g == [k \in Nat |-> [v \in Int |-> v + IF k + 1 \in 1 .. n THEN q[k + 1].t ELSE 0]]
           UpTo(f, i) == f = [k \in 0 .. i |-> IF k = 0 THEN 0 ELSE f[k - 1] + q[k].t]
<1>1. n \in Nat /\ \A k \in 1 .. n : q[k].t \in Int
  BY DEF Timed
<1> HIDE DEF n
<1>2. g \in [Nat -> [Int -> Int]]
  BY <1>1
<1>3. PICK f \in [Nat -> Int] : \A k \in Nat : Recurs(f, k, 0, g)
  <2>1. 0 \in Int
    OBVIOUS
  <2> HIDE DEF g
  <2> QED BY ONLY <1>2, <2>1, RecursionExists
<1>4. f[0] = 0
  BY <1>3 DEF Recurs
<1>5. ASSUME NEW k \in 1 .. n PROVE f[k] = f[k - 1] + q[k].t
  <2>1. k \in Nat /\ k - 1 \in Nat /\ k - 1 \in 0 .. k - 1 /\ (k - 1) + 1 = k
    BY <1>1
  <2>2. f[(k - 1) + 1] = g[k - 1][f[k - 1]]
    BY <1>3, <2>1 DEF Recurs
  <2>3. f[k - 1] \in Int
    BY <2>1
  <2>4. g[k - 1][f[k - 1]] = f[k - 1] + q[k].t
    BY <2>1, <2>3
  <2> QED BY <2>1, <2>2, <2>4
<1>6. ASSUME NEW i \in 0 .. n PROVE Offset(q, i) = f[i]
  <2> DEFINE e == [k \in 0 .. i |-> f[k]]
  <2>1. UpTo(e, i)
    <3>1. ASSUME NEW k \in 0 .. i, k # 0 PROVE e[k] = e[k - 1] + q[k].t
      <4>1. k \in 1 .. n /\ k - 1 \in 0 .. i
        BY <1>1, <3>1
      <4> QED BY <1>5, <4>1
    <3>2. e[0] = 0
      BY <1>1, <1>4
    <3> QED BY <3>1, <3>2
  <2> DEFINE upTo == CHOOSE d : UpTo(d, i)
  <2>2. UpTo(upTo, i)
    <3> HIDE DEF e, UpTo
    <3> QED BY <2>1
  <2>3. Offset(q, i) = upTo[i]
    BY DEF Offset
  <2> HIDE DEF upTo
  <2> DEFINE S == {k \in Nat : k <= i => upTo[k] = f[k]}
  <2>4. 0 \in S
    <3>1. 0 \in 0 .. i
      BY <1>1
    <3> QED BY <1>4, <2>2, <3>1
  <2>5. ASSUME NEW k \in Nat, k \in S PROVE k + 1 \in S
    <3> SUFFICES ASSUME k + 1 <= i PROVE upTo[k + 1] = f[k + 1]
      OBVIOUS
    <3>1. k + 1 \in 0 .. i /\ k + 1 # 0 /\ (k + 1) - 1 = k /\ k + 1 \in 1 .. n /\ k <= i
      BY <1>1
    <3>2. upTo[k + 1] = upTo[k] + q[k + 1].t
      BY <2>2, <3>1
    <3>3. f[k + 1] = f[k] + q[k + 1].t
      BY <1>5, <3>1
    <3> QED BY <2>5, <3>1, <3>2, <3>3
  <2>6. Nat \subseteq S
    <3> HIDE DEF S
    <3> QED BY <2>4, <2>5, SetInduction
  <2>7. upTo[i] = f[i]
    BY <1>1, <2>6
  <2> QED BY <2>3, <2>7
<1>7. Offset(q, 0) = 0
  BY <1>1, <1>4, <1>6
<1>8. ASSUME NEW i \in 0 .. n PROVE Offset(q, i) \in Int
  <2>1. i \in Nat
    BY <1>1
  <2> QED BY <1>6, <2>1
<1>9. ASSUME NEW i \in 1 .. n PROVE Offset(q, i) = Offset(q, i - 1) + q[i].t
  <2>1. i \in 0 .. n /\ i - 1 \in 0 .. n
    BY <1>1
  <2>2. Offset(q, i) = f[i] /\ Offset(q, i - 1) = f[i - 1]
    BY <1>6, <2>1
  <2> QED BY <1>5, <2>2
<1> QED BY <1>7, <1>8, <1>9 DEF n

\* A list of nodes has relative times.
LEMMA NodesTimed ==
  ASSUME NEW q \in Seq(Node)
  PROVE  Timed(q) /\ \A k \in 1 .. Len(q) : q[k] \in Node /\ q[k].t \in Nat
<1>1. Len(q) \in Nat /\ \A k \in 1 .. Len(q) : q[k] \in Node
  OBVIOUS
<1>2. \A e \in Node : e.t \in Nat
  BY DEF Node
<1> QED BY <1>1, <1>2 DEF Timed

\* The n elements of r behind a have the times of those of q behind b, and
\* the same ones went before them.
Parallel(q, b, r, a, n) ==
  /\ a + n <= Len(r) /\ b + n <= Len(q)
  /\ Offset(r, a) = Offset(q, b)
  /\ \A d \in 1 .. n : r[a + d].t = q[b + d].t

\* Where the relative times of two lists agree from somewhere on, their
\* absolute times do when they do there.
LEMMA OffsetShift ==
  ASSUME NEW q, NEW r, Timed(q), Timed(r), NEW a \in Nat, NEW b \in Nat, NEW n \in Nat,
         Parallel(q, b, r, a, n)
  PROVE  \A d \in 0 .. n : Offset(r, a + d) = Offset(q, b + d)
<1> USE DEF Parallel
<1> DEFINE S == {d \in Nat : d <= n => Offset(r, a + d) = Offset(q, b + d)}
<1>1. 0 \in S
  OBVIOUS
<1>2. ASSUME NEW d \in Nat, d \in S PROVE d + 1 \in S
  <2> SUFFICES ASSUME d + 1 <= n PROVE Offset(r, a + (d + 1)) = Offset(q, b + (d + 1))
    OBVIOUS
  <2>1. Offset(r, a + d) = Offset(q, b + d) /\ d + 1 \in 1 .. n
    BY <1>2
  <2>2. PICK i \in Nat, j \in Nat : i = a + (d + 1) /\ j = b + (d + 1)
    OBVIOUS
  <2>3. /\ i \in 1 .. Len(r) /\ j \in 1 .. Len(q) /\ i - 1 = a + d /\ j - 1 = b + d
    BY <2>2 DEF Timed
  <2>4. r[i].t = q[j].t
    BY <2>1, <2>2
  <2>5. /\ Offset(r, i) = Offset(r, i - 1) + r[i].t
        /\ Offset(q, j) = Offset(q, j - 1) + q[j].t
    BY <2>3, OffsetSums
  <2> QED BY <2>1, <2>2, <2>3, <2>4, <2>5
<1>3. Nat \subseteq S
  <2> HIDE DEF S
  <2> QED BY <1>1, <1>2, SetInduction
<1> QED BY <1>3

\* Times never decrease along the list.
LEMMA OffsetMonotone ==
  ASSUME NEW q \in Seq(Node), NEW i \in 0 .. Len(q), NEW j \in 0 .. Len(q), i <= j
  PROVE  Offset(q, i) \in Nat /\ Offset(q, j) \in Nat /\ Offset(q, i) <= Offset(q, j)
<1> DEFINE S(k) == {d \in Nat : k + d <= Len(q) => Offset(q, k) <= Offset(q, k + d)}
<1>1. Timed(q) /\ \A k \in 1 .. Len(q) : q[k].t \in Nat
  BY NodesTimed
<1>2. /\ Offset(q, 0) = 0
      /\ \A k \in 0 .. Len(q) : Offset(q, k) \in Int
      /\ \A k \in 1 .. Len(q) : Offset(q, k) = Offset(q, k - 1) + q[k].t
  BY <1>1, OffsetSums
<1>3. ASSUME NEW k \in 0 .. Len(q) PROVE Nat \subseteq S(k)
  <2>1. 0 \in S(k)
    BY <1>2
  <2>2. ASSUME NEW d \in Nat, d \in S(k) PROVE d + 1 \in S(k)
    <3> SUFFICES ASSUME k + (d + 1) <= Len(q)
                 PROVE  Offset(q, k) <= Offset(q, k + (d + 1))
      OBVIOUS
    <3>1. Offset(q, k) <= Offset(q, k + d)
      BY <2>2
    <3>2. PICK m \in 1 .. Len(q) : m = k + (d + 1) /\ m - 1 = k + d /\ m - 1 \in 0 .. Len(q)
      OBVIOUS
    <3>3. Offset(q, m) = Offset(q, m - 1) + q[m].t /\ q[m].t \in Nat
      BY <1>1, <1>2
    <3>4. Offset(q, k) \in Int /\ Offset(q, m) \in Int /\ Offset(q, m - 1) \in Int
      BY <1>2, <3>2
    <3> QED BY <3>1, <3>2, <3>3, <3>4
  <2> HIDE DEF S
  <2> QED BY <2>1, <2>2, SetInduction
<1>4. ASSUME NEW k \in 0 .. Len(q), NEW m \in 0 .. Len(q), k <= m
      PROVE  Offset(q, k) <= Offset(q, m)
  <2>1. m - k \in Nat /\ k + (m - k) = m
    BY <1>4
  <2> QED BY <1>3, <2>1
<1>5. ASSUME NEW k \in 0 .. Len(q) PROVE Offset(q, k) \in Nat
  <2>1. Offset(q, 0) <= Offset(q, k) /\ Offset(q, k) \in Int
    BY <1>2, <1>4
  <2> QED BY <1>2, <2>1
<1> QED BY <1>4, <1>5

\* What is due no later than t is the beginning of the list.
LEMMA DueFirst ==
  ASSUME NEW q \in Seq(Node), NEW t \in Nat
  PROVE  \E c \in 0 .. Len(q) :
           /\ Cardinality({i \in 1 .. Len(q) : Offset(q, i) <= t}) = c
           /\ Offset(q, c) <= t
           /\ c < Len(q) => t < Offset(q, c + 1)
<1> DEFINE Later == {i \in 1 .. Len(q) : ~(Offset(q, i) <= t)}
<1>1. \A i \in 0 .. Len(q) : Offset(q, i) \in Nat
  BY OffsetMonotone
<1>2. Offset(q, 0) = 0
  BY NodesTimed, OffsetSums
<1>3. PICK c \in 0 .. Len(q) :
        /\ c < Len(q) => c + 1 \in Later
        /\ \A i \in Later : c + 1 <= i
  <2>1. CASE Later = {}
    BY <2>1
  <2>2. CASE Later # {}
    <3>1. PICK n \in Later : \A k \in Later : n <= k
      <4>1. Later \subseteq Nat
        OBVIOUS
      <4> HIDE DEF Later
      <4> QED BY ONLY <2>2, <4>1, SmallestOf
    <3>2. n - 1 \in 0 .. Len(q) /\ (n - 1) + 1 = n
      BY <3>1
    <3> QED BY <3>1, <3>2
  <2> QED BY <2>1, <2>2
<1>4. ASSUME NEW i \in 1 .. Len(q) PROVE Offset(q, i) <= t <=> i <= c
  <2>1. CASE i <= c
    BY <1>3, <2>1
  <2>2. CASE c < i
    <3>1. c < Len(q) /\ c + 1 \in 0 .. Len(q) /\ i \in 0 .. Len(q) /\ c + 1 <= i
      BY <2>2
    <3>2. Offset(q, c + 1) <= Offset(q, i)
      BY <3>1, OffsetMonotone
    <3>3. ~(Offset(q, c + 1) <= t)
      BY <1>3, <3>1
    <3>4. Offset(q, c + 1) \in Nat /\ Offset(q, i) \in Nat
      BY <1>1, <3>1
    <3> QED BY <2>2, <3>2, <3>3, <3>4
  <2> QED BY <2>1, <2>2
<1>5. {i \in 1 .. Len(q) : Offset(q, i) <= t} = 1 .. c
  BY <1>4
<1>6. Cardinality(1 .. c) = c
  <2>1. Cardinality(1 .. c) = IF 1 > c THEN 0 ELSE c - 1 + 1
    BY FS_Interval
  <2> QED BY <2>1
<1>7. Offset(q, c) <= t
  BY <1>2, <1>4
<1>8. c < Len(q) => t < Offset(q, c + 1)
  BY <1>1, <1>4
<1> QED BY <1>5, <1>6, <1>7, <1>8


(***************************************************************************)
(* What the operations do to a list: which element of the new list is      *)
(* which of the old one, due at the same time.                             *)
(***************************************************************************)
Alike(e, d) == d.msg = e.msg /\ d.id = e.id /\ d.timeout = e.timeout /\ d.cnt = e.cnt

\* Element j of r is element i of q.
Same(q, i, r, j) == Alike(q[i], r[j]) /\ Offset(r, j) = Offset(q, i)

\* Element i was taken out of q, and its time given to the one behind it.
Dropped(q, i, r) ==
  /\ Len(r) = Len(q) - 1
  /\ \A j \in 1 .. i - 1 : r[j] = q[j]
  /\ i < Len(q) => r[i] = [q[i + 1] EXCEPT !.t = @ + q[i].t]
  /\ \A j \in i + 1 .. Len(q) - 1 : r[j] = q[j + 1]

\* Node was put into q behind p others, and the one behind it made relative.
Inserted(q, p, node, r) ==
  LET t == node.t - Offset(q, p)
  IN  /\ Len(r) = Len(q) + 1
      /\ \A j \in 1 .. p : r[j] = q[j]
      /\ Alike(node, r[p + 1]) /\ r[p + 1].t = t
      /\ p < Len(q) => Alike(q[p + 1], r[p + 2]) /\ r[p + 2].t = q[p + 1].t - t
      /\ \A j \in p + 2 .. Len(q) : r[j + 1] = q[j]

\* A node with another time is a node, and alike.
LEMMA Retimed ==
  ASSUME NEW e \in Node, NEW t \in Int
  PROVE  /\ Alike(e, [e EXCEPT !.t = t]) /\ [e EXCEPT !.t = t].t = t
         /\ t >= 0 => [e EXCEPT !.t = t] \in Node
BY DEF Node, Alike

\* Delaying the head of a list leaves the rest as it is.
LEMMA DelayedType ==
  ASSUME NEW q \in Seq(Node), NEW t \in Int, q # <<>> => q[1].t + t >= 0
  PROVE  /\ Delayed(q, t) \in Seq(Node) /\ Len(Delayed(q, t)) = Len(q)
         /\ q # <<>> => Delayed(q, t)[1] = [q[1] EXCEPT !.t = @ + t]
         /\ \A j \in 2 .. Len(q) : Delayed(q, t)[j] = q[j]
<1>1. CASE q = <<>>
  BY <1>1 DEF Delayed
<1>2. CASE q # <<>>
  <2> DEFINE e == [q[1] EXCEPT !.t = @ + t]
  <2>1. q[1] \in Node /\ q[1].t \in Nat /\ 1 \in 1 .. Len(q)
    BY <1>2, NodesTimed
  <2>2. e \in Node
    BY <1>2, <2>1, Retimed
  <2>3. Delayed(q, t) = <<e>> \o Tail(q)
    BY <1>2 DEF Delayed
  <2> HIDE DEF e
  <2>4. /\ <<e>> \in Seq(Node) /\ Len(<<e>>) = 1 /\ <<e>>[1] = e
        /\ Tail(q) \in Seq(Node) /\ Len(Tail(q)) = Len(q) - 1
        /\ \A j \in 1 .. Len(q) - 1 : Tail(q)[j] = q[j + 1]
    BY <1>2, <2>2
  <2>5. /\ Delayed(q, t) \in Seq(Node) /\ Len(Delayed(q, t)) = Len(q)
        /\ Delayed(q, t)[1] = e
    BY <2>3, <2>4
  <2>6. ASSUME NEW j \in 2 .. Len(q) PROVE Delayed(q, t)[j] = q[j]
    <3>1. j - 1 \in 1 .. Len(q) - 1 /\ (j - 1) + 1 = j /\ j > 1 /\ j <= 1 + (Len(q) - 1)
      OBVIOUS
    <3>2. Delayed(q, t)[j] = Tail(q)[j - 1]
      BY <2>3, <2>4, <3>1
    <3> QED BY <2>4, <3>1, <3>2
  <2> QED BY <2>5, <2>6 DEF e
<1> QED BY <1>1, <1>2

\* The beginning and the end of a list are lists.
LEMMA PartsOf ==
  ASSUME NEW q \in Seq(Node), NEW i \in 0 .. Len(q)
  PROVE  /\ SubSeq(q, 1, i) \in Seq(Node) /\ Len(SubSeq(q, 1, i)) = i
         /\ \A j \in 1 .. i : SubSeq(q, 1, i)[j] = q[j]
         /\ SubSeq(q, i + 1, Len(q)) \in Seq(Node)
         /\ Len(SubSeq(q, i + 1, Len(q))) = Len(q) - i
         /\ \A j \in 1 .. Len(q) - i : SubSeq(q, i + 1, Len(q))[j] = q[i + j]
<1>1. /\ SubSeq(q, 1, i) \in Seq(Node) /\ Len(SubSeq(q, 1, i)) = i
      /\ \A j \in 1 .. i : SubSeq(q, 1, i)[j] = q[j]
  OBVIOUS
<1>2. /\ SubSeq(q, i + 1, Len(q)) \in Seq(Node)
      /\ Len(SubSeq(q, i + 1, Len(q))) = Len(q) - i
  OBVIOUS
<1>3. ASSUME NEW j \in 1 .. Len(q) - i PROVE SubSeq(q, i + 1, Len(q))[j] = q[i + j]
  OBVIOUS
<1> QED BY <1>1, <1>2, <1>3

\* One list after the other.
LEMMA Joined ==
  ASSUME NEW a \in Seq(Node), NEW d \in Seq(Node)
  PROVE  /\ a \o d \in Seq(Node) /\ Len(a \o d) = Len(a) + Len(d)
         /\ \A j \in 1 .. Len(a) : (a \o d)[j] = a[j]
         /\ \A j \in Len(a) + 1 .. Len(a) + Len(d) : (a \o d)[j] = d[j - Len(a)]
OBVIOUS

\* coap_remove_from_queue takes out one element.
LEMMA RemoveDrops ==
  ASSUME NEW q \in Seq(Node), NEW i \in 1 .. Len(q), NEW r,
         r = SubSeq(q, 1, i - 1) \o Delayed(SubSeq(q, i + 1, Len(q)), q[i].t)
  PROVE  r \in Seq(Node) /\ Dropped(q, i, r)
<1> DEFINE a == SubSeq(q, 1, i - 1)
           b == SubSeq(q, i + 1, Len(q))
           d == Delayed(b, q[i].t)
<1>1. /\ a \in Seq(Node) /\ Len(a) = i - 1
      /\ \A j \in 1 .. i - 1 : a[j] = q[j]
  <2>1. i - 1 \in 0 .. Len(q)
    OBVIOUS
  <2> QED BY <2>1, PartsOf
<1>2. /\ b \in Seq(Node) /\ Len(b) = Len(q) - i
      /\ \A j \in 1 .. Len(q) - i : b[j] = q[i + j]
  BY PartsOf
<1>3. q[i].t \in Nat /\ \A j \in 1 .. Len(b) : b[j].t \in Nat
  <2> HIDE DEF b
  <2> QED BY <1>2, NodesTimed
<1> HIDE DEF a, b
<1>4. /\ d \in Seq(Node) /\ Len(d) = Len(b)
      /\ b # <<>> => d[1] = [b[1] EXCEPT !.t = @ + q[i].t]
      /\ \A j \in 2 .. Len(b) : d[j] = b[j]
  <2>1. b # <<>> => b[1].t + q[i].t >= 0
    <3>1. b # <<>> => 1 \in 1 .. Len(b)
      BY <1>2
    <3> QED BY <1>3, <3>1
  <2>2. q[i].t \in Int
    BY <1>3
  <2> QED BY <1>2, <2>1, <2>2, DelayedType
<1>5. r = a \o d
  BY DEF a, b
<1> HIDE DEF d
<1>6. /\ r \in Seq(Node) /\ Len(r) = Len(q) - 1
      /\ \A j \in 1 .. i - 1 : r[j] = a[j]
      /\ \A j \in i .. Len(q) - 1 : r[j] = d[j - (i - 1)]
  <2>1. PICK m \in Nat, n \in Nat : m = Len(a) /\ m = i - 1 /\ n = Len(d) /\ n = Len(q) - i
    BY <1>1, <1>2, <1>4
  <2>2. /\ r \in Seq(Node) /\ Len(r) = m + n
        /\ \A j \in 1 .. m : r[j] = a[j]
        /\ \A j \in m + 1 .. m + n : r[j] = d[j - m]
    <3>1. /\ r \in Seq(Node) /\ Len(r) = Len(a) + Len(d)
          /\ \A j \in 1 .. Len(a) : r[j] = a[j]
          /\ \A j \in Len(a) + 1 .. Len(a) + Len(d) : r[j] = d[j - Len(a)]
      <4>1. a \in Seq(Node) /\ d \in Seq(Node)
        BY <1>1, <1>4
      <4>2. /\ a \o d \in Seq(Node) /\ Len(a \o d) = Len(a) + Len(d)
            /\ \A j \in 1 .. Len(a) : (a \o d)[j] = a[j]
            /\ \A j \in Len(a) + 1 .. Len(a) + Len(d) : (a \o d)[j] = d[j - Len(a)]
        BY ONLY <4>1, Joined
      <4> QED BY ONLY <1>5, <4>2
    <3> QED BY <2>1, <3>1
  <2>3. m + 1 = i /\ m + n = Len(q) - 1
    BY <2>1
  <2> QED BY <2>1, <2>2, <2>3
<1>7. i < Len(q) => r[i] = [q[i + 1] EXCEPT !.t = @ + q[i].t]
  <2> SUFFICES ASSUME i < Len(q) PROVE r[i] = [q[i + 1] EXCEPT !.t = @ + q[i].t]
    OBVIOUS
  <2>1. r[i] = d[1]
    <3>1. i \in i .. Len(q) - 1 /\ i - (i - 1) = 1
      OBVIOUS
    <3> QED BY <1>6, <3>1
  <2>2. b # <<>> /\ b[1] = q[i + 1]
    <3>1. 1 \in 1 .. Len(q) - i
      OBVIOUS
    <3> QED BY <1>2, <3>1
  <2> QED BY <1>4, <2>1, <2>2
<1>8. ASSUME NEW j \in i + 1 .. Len(q) - 1 PROVE r[j] = q[j + 1]
  <2>1. PICK k \in 2 .. Len(b) : j = (i - 1) + k /\ k \in 1 .. Len(q) - i
    <3>1. j - (i - 1) \in 2 .. Len(q) - i /\ j = (i - 1) + (j - (i - 1))
      OBVIOUS
    <3> QED BY <1>2, <3>1
  <2>2. j - (i - 1) = k /\ i + k = j + 1 /\ j \in i .. Len(q) - 1
    BY <2>1
  <2>3. r[j] = d[k]
    BY <1>6, <2>2
  <2>4. d[k] = b[k] /\ b[k] = q[i + k]
    BY <1>2, <1>4, <2>1
  <2> QED BY <2>2, <2>3, <2>4
<1> QED BY <1>1, <1>6, <1>7, <1>8 DEF Dropped

\* coap_pop_next takes out the first.
LEMMA PopDrops ==
  ASSUME NEW q \in Seq(Node), q # <<>>
  PROVE  CoapPopNext(q) \in Seq(Node) /\ Dropped(q, 1, CoapPopNext(q))
<1> DEFINE b == Tail(q)
           d == Delayed(b, Head(q).t)
<1>1. /\ b \in Seq(Node) /\ Len(b) = Len(q) - 1 /\ Len(q) >= 1
      /\ \A j \in 1 .. Len(q) - 1 : b[j] = q[j + 1]
  OBVIOUS
<1>2. Head(q) = q[1] /\ q[1].t \in Nat /\ \A j \in 1 .. Len(b) : b[j].t \in Nat
  <2> HIDE DEF b
  <2> QED BY <1>1, NodesTimed
<1> HIDE DEF b
<1>3. /\ d \in Seq(Node) /\ Len(d) = Len(b)
      /\ b # <<>> => d[1] = [b[1] EXCEPT !.t = @ + q[1].t]
      /\ \A j \in 2 .. Len(b) : d[j] = b[j]
  <2>1. b # <<>> => b[1].t + Head(q).t >= 0
    BY <1>1, <1>2
  <2>2. Head(q).t \in Int
    BY <1>2
  <2>3. /\ d \in Seq(Node) /\ Len(d) = Len(b)
        /\ b # <<>> => d[1] = [b[1] EXCEPT !.t = @ + Head(q).t]
        /\ \A j \in 2 .. Len(b) : d[j] = b[j]
    BY <1>1, <2>1, <2>2, DelayedType
  <2> QED BY <1>2, <2>3
<1>4. CoapPopNext(q) = d
  BY DEF CoapPopNext, b
<1> HIDE DEF d
<1>5. 1 < Len(q) => b # <<>> /\ b[1] = q[2]
  BY <1>1
<1>6. \A j \in 2 .. Len(q) - 1 : d[j] = q[j + 1]
  BY <1>1, <1>3
<1> QED BY <1>1, <1>3, <1>4, <1>5, <1>6 DEF Dropped

\* What is left is due when it was.
LEMMA DropKeeps ==
  ASSUME NEW q \in Seq(Node), NEW i \in 1 .. Len(q), NEW r \in Seq(Node), Dropped(q, i, r)
  PROVE  /\ \A j \in 1 .. i - 1 : Same(q, j, r, j)
         /\ \A j \in i .. Len(r) : Same(q, j + 1, r, j)
<1>1. Timed(q) /\ Timed(r) /\ Len(r) = Len(q) - 1
      /\ \A k \in 1 .. Len(q) : q[k] \in Node /\ q[k].t \in Nat
  BY NodesTimed DEF Dropped
<1>2. /\ Offset(q, 0) = 0 /\ Offset(r, 0) = 0
      /\ \A k \in 0 .. Len(q) : Offset(q, k) \in Int
      /\ \A k \in 1 .. Len(q) : Offset(q, k) = Offset(q, k - 1) + q[k].t
      /\ \A k \in 1 .. Len(r) : Offset(r, k) = Offset(r, k - 1) + r[k].t
  BY <1>1, OffsetSums
<1>3. \A d \in 0 .. i - 1 : Offset(r, 0 + d) = Offset(q, 0 + d)
  <2>1. PICK z \in Nat, n \in Nat : z = 0 /\ n = i - 1 /\ z + n <= Len(r) /\ z + n <= Len(q)
    BY <1>1
  <2>2. \A d \in 1 .. n : r[z + d].t = q[z + d].t
    BY <2>1 DEF Dropped
  <2>3. Offset(r, z) = Offset(q, z)
    BY <1>2, <2>1
  <2>4. \A d \in 0 .. n : Offset(r, z + d) = Offset(q, z + d)
    <3>1. Parallel(q, z, r, z, n)
      BY <2>1, <2>2, <2>3 DEF Parallel
    <3> QED BY <1>1, <3>1, OffsetShift
  <2> QED BY <2>1, <2>4
<1>4. ASSUME NEW j \in 1 .. i - 1 PROVE Same(q, j, r, j)
  <2>1. r[j] = q[j] /\ Offset(r, j) = Offset(q, j)
    BY <1>3 DEF Dropped
  <2> QED BY <2>1 DEF Same, Alike
<1>5. ASSUME NEW j \in i .. Len(r) PROVE Same(q, j + 1, r, j)
  <2>1. i < Len(q) /\ i + 1 \in 1 .. Len(q) /\ i \in 1 .. Len(r)
    BY <1>1, <1>5
  <2>2. r[i] = [q[i + 1] EXCEPT !.t = q[i + 1].t + q[i].t]
    BY <2>1 DEF Dropped
  <2>3. Alike(q[i + 1], r[i]) /\ r[i].t = q[i + 1].t + q[i].t
    <3>1. q[i + 1] \in Node /\ q[i + 1].t + q[i].t \in Int
      BY <1>1, <2>1
    <3> QED BY <2>2, <3>1, Retimed
  <2>4. Offset(r, i) = Offset(q, i + 1)
    <3>1. Offset(r, i - 1) = Offset(q, i - 1)
      BY <1>3
    <3>2. Offset(r, i) = Offset(r, i - 1) + r[i].t
      BY <1>2, <2>1
    <3>3. Offset(q, i) = Offset(q, i - 1) + q[i].t
      BY <1>2
    <3>4. Offset(q, i + 1) = Offset(q, i) + q[i + 1].t
      BY <1>2, <2>1
    <3>5. Offset(q, i - 1) \in Int /\ q[i].t \in Nat /\ q[i + 1].t \in Nat
      BY <1>1, <1>2, <2>1
    <3> QED BY <2>3, <3>1, <3>2, <3>3, <3>4, <3>5
  <2>5. \A d \in 1 .. Len(r) - i : r[i + d] = q[(i + 1) + d]
    <3>1. ASSUME NEW d \in 1 .. Len(r) - i PROVE r[i + d] = q[(i + 1) + d]
      <4>1. i + d \in i + 1 .. Len(q) - 1 /\ (i + d) + 1 = (i + 1) + d
        BY <1>1
      <4>2. r[i + d] = q[(i + d) + 1]
        BY <4>1 DEF Dropped
      <4> QED BY <4>1, <4>2
    <3> QED BY <3>1
  <2>6. \A d \in 0 .. Len(r) - i : Offset(r, i + d) = Offset(q, (i + 1) + d)
    <3>1. PICK a \in Nat, b \in Nat, n \in Nat :
            a = i /\ b = i + 1 /\ n = Len(r) - i /\ a + n <= Len(r) /\ b + n <= Len(q)
      <4>1. i \in Nat /\ i + 1 \in Nat /\ Len(r) - i \in Nat
            /\ i + (Len(r) - i) <= Len(r) /\ (i + 1) + (Len(r) - i) <= Len(q)
        BY <1>1, <2>1
      <4> QED BY <4>1
    <3>2. \A d \in 1 .. n : r[a + d].t = q[b + d].t
      BY <2>5, <3>1
    <3>3. Offset(r, a) = Offset(q, b)
      BY <2>4, <3>1
    <3>4. \A d \in 0 .. n : Offset(r, a + d) = Offset(q, b + d)
      <4>1. Parallel(q, b, r, a, n)
        BY <3>1, <3>2, <3>3 DEF Parallel
      <4> QED BY <1>1, <4>1, OffsetShift
    <3> QED BY <3>1, <3>4
  <2>7. PICK d \in 0 .. Len(r) - i : j = i + d /\ j + 1 = (i + 1) + d
    <3>1. j - i \in 0 .. Len(r) - i /\ j = i + (j - i) /\ j + 1 = (i + 1) + (j - i)
      BY <1>1
    <3> QED BY <3>1
  <2>8. Offset(r, j) = Offset(q, j + 1)
    BY <2>6, <2>7
  <2>9. Alike(q[j + 1], r[j])
    <3>1. CASE d = 0
      BY <2>3, <2>7, <3>1
    <3>2. CASE d # 0
      <4>1. d \in 1 .. Len(r) - i
        BY <3>2
      <4>2. r[j] = q[j + 1]
        BY <2>5, <2>7, <4>1
      <4> QED BY <4>2 DEF Alike
    <3> QED BY <3>1, <3>2
  <2> QED BY <2>8, <2>9 DEF Same
<1> QED BY <1>4, <1>5

\* coap_insert_node puts the node behind what is due no later; the relative
\* times stay natural numbers.
LEMMA InsertInserts ==
  ASSUME NEW q \in Seq(Node), NEW node \in Node
  PROVE  /\ CoapInsertNode(q, node) \in Seq(Node)
         /\ \E p \in 0 .. Len(q) : Inserted(q, p, node, CoapInsertNode(q, node))
<1>1. node.t \in Nat
  BY DEF Node
<1>2. PICK p \in 0 .. Len(q) :
        /\ Cardinality({i \in 1 .. Len(q) : Offset(q, i) <= node.t}) = p
        /\ Offset(q, p) <= node.t
        /\ p < Len(q) => node.t < Offset(q, p + 1)
  BY <1>1, DueFirst
<1> DEFINE r == CoapInsertNode(q, node)
           t == node.t - Offset(q, p)
           a == SubSeq(q, 1, p)
           e == [node EXCEPT !.t = t]
           b == SubSeq(q, p + 1, Len(q))
           d == Delayed(b, -t)
<1>3. r = a \o <<e>> \o d
  BY <1>2 DEF CoapInsertNode
<1>4. t \in Nat /\ Offset(q, p) \in Nat
  <2>1. Offset(q, p) \in Nat
    BY OffsetMonotone
  <2> QED BY <1>1, <1>2, <2>1
<1>5. /\ a \in Seq(Node) /\ Len(a) = p
      /\ \A j \in 1 .. p : a[j] = q[j]
      /\ b \in Seq(Node) /\ Len(b) = Len(q) - p
      /\ \A j \in 1 .. Len(q) - p : b[j] = q[p + j]
  BY PartsOf
<1>6. p < Len(q) => q[p + 1] \in Node /\ q[p + 1].t \in Nat /\ t <= q[p + 1].t
  <2> SUFFICES ASSUME p < Len(q)
               PROVE  q[p + 1] \in Node /\ q[p + 1].t \in Nat /\ t <= q[p + 1].t
    OBVIOUS
  <2>1. q[p + 1] \in Node /\ q[p + 1].t \in Nat
    BY NodesTimed
  <2>2. Offset(q, p + 1) = Offset(q, p) + q[p + 1].t
    <3>1. p + 1 \in 1 .. Len(q) /\ (p + 1) - 1 = p
      OBVIOUS
    <3>2. Offset(q, p + 1) = Offset(q, (p + 1) - 1) + q[p + 1].t
      BY <3>1, NodesTimed, OffsetSums
    <3> QED BY <3>1, <3>2
  <2> QED BY <1>1, <1>2, <1>4, <2>1, <2>2
<1>7. e \in Node /\ Alike(node, e) /\ e.t = t
  BY <1>4, Retimed
<1> HIDE DEF a, b, e, r, t
<1>8. b # <<>> => p < Len(q) /\ b[1] = q[p + 1]
  BY <1>5
<1>9. /\ d \in Seq(Node) /\ Len(d) = Len(b)
      /\ b # <<>> => d[1] = [b[1] EXCEPT !.t = @ + (-t)]
      /\ \A j \in 2 .. Len(b) : d[j] = b[j]
  <2>1. -t \in Int /\ (b # <<>> => b[1].t + (-t) >= 0)
    BY <1>4, <1>6, <1>8
  <2> QED BY <1>5, <2>1, DelayedType
<1> HIDE DEF d
<1>10. p < Len(q) => Alike(q[p + 1], d[1]) /\ d[1].t = q[p + 1].t - t
  <2> SUFFICES ASSUME p < Len(q) PROVE Alike(q[p + 1], d[1]) /\ d[1].t = q[p + 1].t - t
    OBVIOUS
  <2>1. b # <<>> /\ b[1] = q[p + 1]
    BY <1>5
  <2>2. d[1] = [q[p + 1] EXCEPT !.t = q[p + 1].t + (-t)]
    BY <1>9, <2>1
  <2>3. q[p + 1].t + (-t) \in Int /\ q[p + 1].t + (-t) = q[p + 1].t - t
    BY <1>4, <1>6
  <2>4. Alike(q[p + 1], d[1]) /\ d[1].t = q[p + 1].t + (-t)
    BY <1>6, <2>2, <2>3, Retimed
  <2> QED BY <2>3, <2>4
<1>11. /\ a \o <<e>> \in Seq(Node) /\ Len(a \o <<e>>) = p + 1
       /\ \A j \in 1 .. p : (a \o <<e>>)[j] = q[j]
       /\ (a \o <<e>>)[p + 1] = e
  <2>1. PICK s \in Seq(Node) : s = <<e>> /\ Len(s) = 1 /\ s[1] = e
    <3>1. <<e>> \in Seq(Node) /\ Len(<<e>>) = 1 /\ <<e>>[1] = e
      BY <1>7
    <3> QED BY <3>1
  <2>2. /\ a \o s \in Seq(Node) /\ Len(a \o s) = Len(a) + Len(s)
        /\ \A j \in 1 .. Len(a) : (a \o s)[j] = a[j]
        /\ \A j \in Len(a) + 1 .. Len(a) + Len(s) : (a \o s)[j] = s[j - Len(a)]
    BY ONLY <1>5, <2>1, Joined
  <2>3. p + 1 \in Len(a) + 1 .. Len(a) + Len(s) /\ (p + 1) - Len(a) = 1
    BY <1>5, <2>1
  <2> QED BY <1>5, <2>1, <2>2, <2>3
<1>12. PICK c \in Seq(Node) :
         /\ r = c \o d /\ Len(c) = p + 1
         /\ \A j \in 1 .. p : c[j] = q[j]
         /\ c[p + 1] = e
  BY <1>3, <1>11
<1>13. /\ r \in Seq(Node) /\ Len(r) = Len(c) + Len(d)
       /\ \A j \in 1 .. Len(c) : r[j] = c[j]
       /\ \A j \in Len(c) + 1 .. Len(c) + Len(d) : r[j] = d[j - Len(c)]
  BY ONLY <1>9, <1>12, Joined
<1>14. \A k \in 1 .. Len(d) : r[(p + 1) + k] = d[k]
  <2>1. ASSUME NEW k \in 1 .. Len(d) PROVE r[(p + 1) + k] = d[k]
    <3>1. PICK j \in Len(c) + 1 .. Len(c) + Len(d) : j = (p + 1) + k /\ j - Len(c) = k
      <4>1. (p + 1) + k \in Len(c) + 1 .. Len(c) + Len(d) /\ ((p + 1) + k) - Len(c) = k
        BY <1>9, <1>12
      <4> QED BY <4>1
    <3> QED BY <1>13, <3>1
  <2> QED BY <2>1
<1>15. Inserted(q, p, node, r)
  <2>1. Len(r) = Len(q) + 1
    BY <1>5, <1>9, <1>12, <1>13
  <2>2. \A j \in 1 .. p : r[j] = q[j]
    BY <1>12, <1>13
  <2>3. Alike(node, r[p + 1]) /\ r[p + 1].t = t
    <3>1. r[p + 1] = e
      BY <1>12, <1>13
    <3> QED BY <1>7, <3>1
  <2>4. p < Len(q) => Alike(q[p + 1], r[p + 2]) /\ r[p + 2].t = q[p + 1].t - t
    <3> SUFFICES ASSUME p < Len(q) PROVE r[p + 2] = d[1]
      BY <1>10
    <3>1. 1 \in 1 .. Len(d) /\ (p + 1) + 1 = p + 2
      BY <1>5, <1>9
    <3> QED BY <1>14, <3>1
  <2>5. ASSUME NEW j \in p + 2 .. Len(q) PROVE r[j + 1] = q[j]
    <3>1. PICK k \in 2 .. Len(b) : j = p + k /\ j + 1 = (p + 1) + k /\ k \in 1 .. Len(q) - p
      <4>1. j - p \in 2 .. Len(b) /\ j = p + (j - p) /\ j + 1 = (p + 1) + (j - p)
            /\ j - p \in 1 .. Len(q) - p
        BY <1>5
      <4> QED BY <4>1
    <3>2. k \in 1 .. Len(d)
      BY <1>9, <3>1
    <3>3. r[j + 1] = d[k] /\ d[k] = b[k] /\ b[k] = q[p + k]
      BY <1>5, <1>9, <1>14, <3>1, <3>2
    <3> QED BY <3>1, <3>3
  <2> QED BY <2>1, <2>2, <2>3, <2>4, <2>5 DEF Inserted, t
<1> QED BY <1>13, <1>15 DEF r

\* The node is due when its absolute time says, the others when they were.
LEMMA InsertKeeps ==
  ASSUME NEW q \in Seq(Node), NEW node \in Node, NEW p \in 0 .. Len(q),
         NEW r \in Seq(Node), Inserted(q, p, node, r)
  PROVE  /\ Alike(node, r[p + 1]) /\ Offset(r, p + 1) = node.t
         /\ \A j \in 1 .. p : Same(q, j, r, j)
         /\ \A j \in p + 1 .. Len(q) : Same(q, j, r, j + 1)
<1>1. /\ Timed(q) /\ Timed(r) /\ Len(r) = Len(q) + 1
      /\ \A k \in 1 .. Len(q) : q[k] \in Node /\ q[k].t \in Nat
  BY NodesTimed DEF Inserted
<1>2. /\ Offset(q, 0) = 0 /\ Offset(r, 0) = 0
      /\ \A k \in 0 .. Len(q) : Offset(q, k) \in Int
      /\ \A k \in 1 .. Len(q) : Offset(q, k) = Offset(q, k - 1) + q[k].t
      /\ \A k \in 1 .. Len(r) : Offset(r, k) = Offset(r, k - 1) + r[k].t
  BY <1>1, OffsetSums
<1>3. node.t \in Nat /\ Alike(node, r[p + 1]) /\ r[p + 1].t = node.t - Offset(q, p)
  BY DEF Inserted, Node
<1>4. \A j \in 0 .. p : Offset(r, j) = Offset(q, j)
  <2>1. PICK z \in Nat : z = 0 /\ z + p <= Len(r) /\ z + p <= Len(q)
    BY <1>1
  <2>2. \A j \in 1 .. p : r[z + j].t = q[z + j].t
    BY <2>1 DEF Inserted
  <2>3. Parallel(q, z, r, z, p)
    BY <1>2, <2>1, <2>2 DEF Parallel
  <2>4. \A j \in 0 .. p : Offset(r, z + j) = Offset(q, z + j)
    <3>1. p \in Nat
      OBVIOUS
    <3> QED BY <1>1, <2>3, <3>1, OffsetShift
  <2> QED BY <2>1, <2>4
<1>5. Offset(r, p + 1) = node.t
  <2>1. p + 1 \in 1 .. Len(r) /\ (p + 1) - 1 = p /\ p \in 0 .. p
    BY <1>1
  <2>2. Offset(r, p + 1) = Offset(r, (p + 1) - 1) + r[p + 1].t
    BY <1>2, <2>1
  <2>3. Offset(r, (p + 1) - 1) = Offset(q, p) /\ Offset(q, p) \in Int
    BY <1>2, <1>4, <2>1
  <2> QED BY <1>3, <2>2, <2>3
<1>6. ASSUME NEW j \in 1 .. p PROVE Same(q, j, r, j)
  <2>1. r[j] = q[j] /\ Offset(r, j) = Offset(q, j)
    BY <1>4 DEF Inserted
  <2> QED BY <2>1 DEF Same, Alike
<1>7. ASSUME NEW j \in p + 1 .. Len(q) PROVE Same(q, j, r, j + 1)
  <2>1. PICK b \in Nat, a \in Nat, n \in Nat :
          b = p + 1 /\ a = p + 2 /\ n = Len(q) - b /\ a + n <= Len(r) /\ b + n <= Len(q)
    <3>1. p + 1 \in Nat /\ p + 2 \in Nat /\ Len(q) - (p + 1) \in Nat
          /\ (p + 2) + (Len(q) - (p + 1)) <= Len(r) /\ (p + 1) + (Len(q) - (p + 1)) <= Len(q)
      BY <1>1
    <3> QED BY <3>1
  <2>2. b \in 1 .. Len(q) /\ a \in 1 .. Len(r) /\ b - 1 = p /\ a - 1 = p + 1 /\ p < Len(q)
    BY <1>1, <2>1
  <2>3. Alike(q[b], r[a]) /\ r[a].t = q[b].t - (node.t - Offset(q, p))
    BY <2>1, <2>2 DEF Inserted
  <2>4. Offset(r, a) = Offset(q, b)
    <3>1. Offset(r, a) = node.t + r[a].t
      BY <1>2, <1>5, <2>2
    <3>2. Offset(q, b) = Offset(q, p) + q[b].t
      BY <1>2, <2>2
    <3>3. Offset(q, p) \in Int /\ q[b].t \in Nat
      BY <1>1, <1>2, <2>2
    <3> QED BY <1>3, <2>3, <3>1, <3>2, <3>3
  <2>5. ASSUME NEW d \in 1 .. n PROVE r[a + d] = q[b + d]
    <3>1. PICK k \in p + 2 .. Len(q) : k = b + d /\ k + 1 = a + d
      <4>1. b + d \in p + 2 .. Len(q) /\ (b + d) + 1 = a + d
        BY <2>1
      <4> QED BY <4>1
    <3>2. r[k + 1] = q[k]
      BY <3>1 DEF Inserted
    <3> QED BY <3>1, <3>2
  <2>6. \A d \in 0 .. n : Offset(r, a + d) = Offset(q, b + d)
    <3>1. Parallel(q, b, r, a, n)
      BY <2>1, <2>4, <2>5 DEF Parallel
    <3> QED BY <1>1, <3>1, OffsetShift
  <2>7. PICK d \in 0 .. n : j = b + d /\ j + 1 = a + d
    <3>1. j - (p + 1) \in 0 .. n /\ j = b + (j - (p + 1)) /\ j + 1 = a + (j - (p + 1))
      BY <2>1
    <3> QED BY <3>1
  <2>8. Offset(r, j + 1) = Offset(q, j)
    BY <2>6, <2>7
  <2>9. Alike(q[j], r[j + 1])
    <3>1. CASE d = 0
      <4>1. j = b /\ j + 1 = a
        BY <2>1, <2>7, <3>1
      <4> QED BY <2>3, <4>1
    <3>2. CASE d # 0
      <4>1. d \in 1 .. n
        BY <3>2
      <4>2. r[j + 1] = q[j]
        BY <2>5, <2>7, <4>1
      <4> QED BY <4>2 DEF Alike
    <3> QED BY <3>1, <3>2
  <2> QED BY <2>8, <2>9 DEF Same
<1> QED BY <1>3, <1>5, <1>6, <1>7

(***************************************************************************)
(* coap_cancel_all_messages.  Of the first k elements of q, s has those of *)
(* other exchanges, in their order and not later than they were.           *)
(***************************************************************************)
Distinct(q) == \A i, j \in 1 .. Len(q) : q[i].msg = q[j].msg => i = j

Prefix(q, k, s) == Len(s) = k /\ \A i \in 1 .. k : s[i] = q[i]

KeptOf(q, x, k, s) ==
  /\ s \in Seq(Node)
  /\ Offset(s, Len(s)) <= Offset(q, k)
  /\ \A j \in 1 .. Len(s) : \E i \in 1 .. k :
       Exchange[q[i].msg] # x /\ s[j] = q[i] /\ Offset(s, j) <= Offset(q, i)
  /\ \A i \in 1 .. k : Exchange[q[i].msg] # x => \E j \in 1 .. Len(s) : s[j] = q[i]
  /\ Distinct(q) => Distinct(s)
  /\ (\A i \in 1 .. k : Exchange[q[i].msg] # x) => Prefix(q, k, s)

\* A list that grows at its end keeps the times it has.
LEMMA AppendKeeps ==
  ASSUME NEW s \in Seq(Node), NEW e \in Node
  PROVE  /\ Append(s, e) \in Seq(Node) /\ Len(Append(s, e)) = Len(s) + 1
         /\ \A j \in 1 .. Len(s) : Append(s, e)[j] = s[j]
         /\ Append(s, e)[Len(s) + 1] = e
         /\ \A j \in 0 .. Len(s) : Offset(Append(s, e), j) = Offset(s, j)
         /\ Offset(Append(s, e), Len(s) + 1) = Offset(s, Len(s)) + e.t
<1>1. PICK r \in Seq(Node) :
        /\ r = Append(s, e) /\ Len(r) = Len(s) + 1
        /\ \A j \in 1 .. Len(s) : r[j] = s[j]
        /\ r[Len(s) + 1] = e
  <2>1. Append(s, e) \in Seq(Node) /\ Len(Append(s, e)) = Len(s) + 1
    OBVIOUS
  <2>2. \A j \in 1 .. Len(s) : Append(s, e)[j] = s[j]
    OBVIOUS
  <2>3. Append(s, e)[Len(s) + 1] = e
    OBVIOUS
  <2> QED BY <2>1, <2>2, <2>3
<1>2. Timed(r) /\ Timed(s) /\ Len(s) \in Nat
  BY NodesTimed
<1>3. \A j \in 0 .. Len(s) : Offset(r, j) = Offset(s, j)
  <2>1. PICK z \in Nat, n \in Nat : z = 0 /\ n = Len(s)
    BY <1>2
  <2>2. Offset(r, z) = Offset(s, z)
    BY <1>2, <2>1, OffsetSums
  <2>3. Parallel(s, z, r, z, n)
    BY <1>1, <1>2, <2>1, <2>2 DEF Parallel
  <2>4. \A j \in 0 .. n : Offset(r, z + j) = Offset(s, z + j)
    BY <1>2, <2>3, OffsetShift
  <2> QED BY <1>2, <2>1, <2>4
<1>4. Offset(r, Len(s) + 1) = Offset(s, Len(s)) + e.t
  <2>1. PICK n \in 1 .. Len(r) : n = Len(s) + 1 /\ n - 1 = Len(s)
    BY <1>1, <1>2
  <2>2. Offset(r, n) = Offset(r, n - 1) + r[n].t
    BY <1>2, OffsetSums
  <2>3. Offset(r, n - 1) = Offset(s, Len(s)) /\ r[n] = e
    BY <1>1, <1>2, <1>3, <2>1
  <2> QED BY <2>1, <2>2, <2>3
<1> QED BY <1>1, <1>3, <1>4

\* One more element of q is looked at.
LEMMA KeptNext ==
  ASSUME NEW q \in Seq(Node), NEW x, NEW k \in Nat, k + 1 <= Len(q),
         NEW s, KeptOf(q, x, k, s), NEW r,
         r = IF Exchange[q[k + 1].msg] = x THEN s ELSE Append(s, q[k + 1])
  PROVE  KeptOf(q, x, k + 1, r)
<1> DEFINE e == q[k + 1]
<1>1. e \in Node /\ e.t \in Nat /\ k + 1 \in 1 .. Len(q)
  BY NodesTimed
<1>2. /\ s \in Seq(Node) /\ Offset(s, Len(s)) <= Offset(q, k)
      /\ \A j \in 1 .. Len(s) : \E i \in 1 .. k :
           Exchange[q[i].msg] # x /\ s[j] = q[i] /\ Offset(s, j) <= Offset(q, i)
      /\ \A i \in 1 .. k : Exchange[q[i].msg] # x => \E j \in 1 .. Len(s) : s[j] = q[i]
      /\ Distinct(q) => Distinct(s)
      /\ (\A i \in 1 .. k : Exchange[q[i].msg] # x) => Prefix(q, k, s)
  BY DEF KeptOf
<1>3. /\ Offset(q, k + 1) = Offset(q, k) + e.t
      /\ Offset(q, k) \in Nat /\ Offset(q, k + 1) \in Nat
      /\ Offset(s, Len(s)) \in Nat
  <2>1. PICK n \in 1 .. Len(q) : n = k + 1 /\ n - 1 = k
    BY <1>1
  <2>2. Offset(q, n) = Offset(q, n - 1) + q[n].t
    BY NodesTimed, OffsetSums
  <2>3. k \in 0 .. Len(q) /\ k + 1 \in 0 .. Len(q) /\ Len(s) \in 0 .. Len(s)
    BY <1>2
  <2>4. Offset(q, k) \in Nat /\ Offset(q, k + 1) \in Nat /\ Offset(s, Len(s)) \in Nat
    BY <1>2, <2>3, OffsetMonotone
  <2> QED BY <2>1, <2>2, <2>4
<1>4. CASE Exchange[e.msg] = x
  <2>1. r = s /\ Offset(s, Len(s)) <= Offset(q, k + 1)
    BY <1>1, <1>2, <1>3, <1>4
  <2>2. \A i \in 1 .. k + 1 : Exchange[q[i].msg] # x => i \in 1 .. k
    BY <1>4
  <2>3. \A i \in 1 .. k : i \in 1 .. k + 1
    OBVIOUS
  <2>4. ~\A i \in 1 .. k + 1 : Exchange[q[i].msg] # x
    BY <1>4
  <2> QED BY <1>2, <2>1, <2>2, <2>3, <2>4 DEF KeptOf
<1>5. CASE Exchange[e.msg] # x
  <2>1. /\ r \in Seq(Node) /\ Len(r) = Len(s) + 1 /\ Len(s) \in Nat
        /\ \A j \in 1 .. Len(s) : r[j] = s[j]
        /\ r[Len(s) + 1] = e
        /\ \A j \in 0 .. Len(s) : Offset(r, j) = Offset(s, j)
        /\ Offset(r, Len(s) + 1) = Offset(s, Len(s)) + e.t
    <3>1. r = Append(s, e)
      BY <1>5
    <3> HIDE DEF e
    <3> QED BY <1>1, <1>2, <3>1, AppendKeeps
  <2>2. Offset(r, Len(r)) <= Offset(q, k + 1)
    BY <1>1, <1>2, <1>3, <2>1
  <2>3. ASSUME NEW j \in 1 .. Len(r)
        PROVE  \E i \in 1 .. k + 1 :
                 Exchange[q[i].msg] # x /\ r[j] = q[i] /\ Offset(r, j) <= Offset(q, i)
    <3>1. CASE j \in 1 .. Len(s)
      <4>1. r[j] = s[j] /\ Offset(r, j) = Offset(s, j)
        BY <2>1, <3>1
      <4>2. PICK i \in 1 .. k :
              Exchange[q[i].msg] # x /\ s[j] = q[i] /\ Offset(s, j) <= Offset(q, i)
        BY <1>2, <3>1
      <4>3. i \in 1 .. k + 1
        OBVIOUS
      <4> QED BY <4>1, <4>2, <4>3
    <3>2. CASE j = Len(s) + 1
      <4>1. r[j] = e /\ Offset(r, j) <= Offset(q, k + 1) /\ k + 1 \in 1 .. k + 1
        BY <2>1, <2>2, <3>2
      <4> QED BY <1>5, <4>1
    <3> QED BY <2>1, <3>1, <3>2
  <2>4. ASSUME NEW i \in 1 .. k + 1, Exchange[q[i].msg] # x
        PROVE  \E j \in 1 .. Len(r) : r[j] = q[i]
    <3>1. CASE i \in 1 .. k
      <4>1. PICK j \in 1 .. Len(s) : s[j] = q[i]
        BY <1>2, <2>4, <3>1
      <4>2. j \in 1 .. Len(r) /\ r[j] = q[i]
        BY <2>1, <4>1
      <4> QED BY <4>2
    <3>2. CASE i = k + 1
      <4>1. Len(s) + 1 \in 1 .. Len(r) /\ r[Len(s) + 1] = q[i]
        BY <2>1, <3>2
      <4> QED BY <4>1
    <3> QED BY <3>1, <3>2
  <2>5. ASSUME Distinct(q) PROVE Distinct(r)
    <3>1. ASSUME NEW j \in 1 .. Len(s) PROVE r[j].msg # e.msg
      <4>1. PICK i \in 1 .. k : s[j] = q[i]
        BY <1>2
      <4>2. i \in 1 .. Len(q) /\ i # k + 1
        OBVIOUS
      <4>3. q[i].msg # e.msg
        BY <1>1, <2>5, <4>2 DEF Distinct
      <4> QED BY <2>1, <4>1, <4>3
    <3>2. \A i, j \in 1 .. Len(s) : r[i].msg = r[j].msg => i = j
      BY <1>2, <2>1, <2>5 DEF Distinct
    <3>3. \A j \in 1 .. Len(r) : j \in 1 .. Len(s) \/ j = Len(s) + 1
      BY <2>1
    <3> QED BY <2>1, <3>1, <3>2, <3>3 DEF Distinct
  <2>6. ASSUME \A i \in 1 .. k + 1 : Exchange[q[i].msg] # x PROVE Prefix(q, k + 1, r)
    <3>1. \A i \in 1 .. k : i \in 1 .. k + 1
      OBVIOUS
    <3>2. Len(s) = k /\ \A i \in 1 .. k : s[i] = q[i]
      BY <1>2, <2>6, <3>1 DEF Prefix
    <3>3. \A i \in 1 .. k + 1 : i \in 1 .. k \/ i = k + 1
      OBVIOUS
    <3> QED BY <2>1, <3>2, <3>3 DEF Prefix
  <2> QED BY <2>1, <2>2, <2>3, <2>4, <2>5, <2>6 DEF KeptOf
<1> QED BY <1>4, <1>5

\* The loop looks at every element.
LEMMA CancelKeeps ==
  ASSUME NEW q \in Seq(Node), NEW x
  PROVE  KeptOf(q, x, Len(q), CoapCancelAll(q, x))
<1> DEFINE n == Len(q)
           g == [k \in Nat |-> [v \in Seq(Node) |->
                  IF k + 1 \in 1 .. n /\ Exchange[q[k + 1].msg] # x
                  THEN Append(v, q[k + 1]) ELSE v]]
           Kept(f) == f = [k \in 0 .. n |->
                  IF k = 0 THEN <<>>
                  ELSE IF Exchange[q[k].msg] = x THEN f[k - 1]
                  ELSE Append(f[k - 1], q[k])]
<1>1. n \in Nat /\ \A k \in 1 .. n : q[k] \in Node
  BY NodesTimed
<1> HIDE DEF n
<1>2. \E f : Kept(f)
  <2>1. g \in [Nat -> [Seq(Node) -> Seq(Node)]]
    BY <1>1
  <2>2. <<>> \in Seq(Node)
    OBVIOUS
  <2>3. PICK f \in [Nat -> Seq(Node)] : \A k \in Nat : Recurs(f, k, <<>>, g)
    <3> HIDE DEF g
    <3> QED BY ONLY <2>1, <2>2, RecursionExists
  <2> DEFINE e == [k \in 0 .. n |-> f[k]]
  <2>4. e[0] = <<>>
    <3>1. f[0] = <<>>
      <4>1. Recurs(f, 0, <<>>, g)
        BY <2>3
      <4> HIDE DEF g
      <4> QED BY <4>1 DEF Recurs
    <3>2. 0 \in 0 .. n
      BY <1>1
    <3> QED BY <3>1, <3>2
  <2>5. ASSUME NEW k \in 0 .. n, k # 0
        PROVE  e[k] = IF Exchange[q[k].msg] = x THEN e[k - 1] ELSE Append(e[k - 1], q[k])
    <3>1. k \in Nat /\ k - 1 \in Nat /\ k - 1 \in 0 .. k - 1 /\ (k - 1) + 1 = k
          /\ k \in 1 .. n /\ k - 1 \in 0 .. n
      BY <1>1, <2>5
    <3>2. f[(k - 1) + 1] = g[k - 1][f[k - 1]]
      BY <2>3, <3>1 DEF Recurs
    <3>3. f[k - 1] \in Seq(Node)
      BY <3>1
    <3>4. g[k - 1][f[k - 1]] = IF Exchange[q[k].msg] # x
                               THEN Append(f[k - 1], q[k]) ELSE f[k - 1]
      BY <3>1, <3>3
    <3>5. e[k] = f[k] /\ e[k - 1] = f[k - 1]
      BY <3>1
    <3> HIDE DEF g, e
    <3> QED BY <3>1, <3>2, <3>4, <3>5
  <2>6. Kept(e)
    BY <2>4, <2>5
  <2> QED BY <2>6
<1> DEFINE kept == CHOOSE f : Kept(f)
<1>3. Kept(kept)
  <2> HIDE DEF Kept
  <2> QED BY <1>2
<1>4. CoapCancelAll(q, x) = kept[n]
  BY DEF CoapCancelAll, n
<1> HIDE DEF kept
<1> DEFINE S == {k \in Nat : k <= n => KeptOf(q, x, k, kept[k])}
<1>5. 0 \in S
  <2>1. kept[0] = <<>>
    BY <1>1, <1>3
  <2>2. /\ <<>> \in Seq(Node) /\ Len(<<>>) = 0 /\ 1 .. 0 = {}
    OBVIOUS
  <2>3. Offset(<<>>, 0) <= Offset(q, 0)
    <3>1. PICK s \in Seq(Node) : s = <<>>
      BY <2>2
    <3>2. Offset(s, 0) = 0 /\ Offset(q, 0) = 0
      BY NodesTimed, OffsetSums
    <3> QED BY <3>1, <3>2
  <2>4. KeptOf(q, x, 0, <<>>)
    BY <2>2, <2>3 DEF KeptOf, Distinct, Prefix
  <2> QED BY <2>1, <2>4
<1>6. ASSUME NEW k \in Nat, k \in S PROVE k + 1 \in S
  <2> SUFFICES ASSUME k + 1 <= n PROVE KeptOf(q, x, k + 1, kept[k + 1])
    OBVIOUS
  <2>1. KeptOf(q, x, k, kept[k])
    BY <1>1, <1>6
  <2>2. k + 1 \in 0 .. n /\ k + 1 # 0 /\ (k + 1) - 1 = k
    BY <1>1
  <2>3. kept[k + 1] = IF Exchange[q[k + 1].msg] = x THEN kept[k]
                      ELSE Append(kept[k], q[k + 1])
    BY <1>3, <2>2
  <2>4. k + 1 <= Len(q)
    BY DEF n
  <2> QED BY ONLY q \in Seq(Node), k \in Nat, <2>1, <2>3, <2>4, KeptNext
<1>7. Nat \subseteq S
  <2> HIDE DEF S
  <2> QED BY <1>5, <1>6, SetInduction
<1>8. KeptOf(q, x, n, kept[n])
  BY <1>1, <1>7
<1> QED BY <1>4, <1>8 DEF n

(***************************************************************************)
(* Lists in which each message is once, under its own id or none.          *)
(***************************************************************************)
WellFormed(q) ==
  /\ q \in Seq(Node)
  /\ Distinct(q)
  /\ \A i \in 1 .. Len(q) : q[i].id \in {q[i].msg, Invalid}

\* Inserting another message keeps a list well formed.
LEMMA InsertWellFormed ==
  ASSUME NEW q, WellFormed(q), NEW node \in Node, node.id \in {node.msg, Invalid},
         \A i \in 1 .. Len(q) : q[i].msg # node.msg,
         NEW p \in 0 .. Len(q), NEW r \in Seq(Node), Inserted(q, p, node, r)
  PROVE  WellFormed(r)
<1>1. /\ q \in Seq(Node) /\ Distinct(q) /\ Len(q) \in Nat /\ Len(r) = Len(q) + 1
      /\ \A i \in 1 .. Len(q) : q[i].id \in {q[i].msg, Invalid}
  BY DEF WellFormed, Inserted
<1>2. /\ r[p + 1].msg = node.msg /\ r[p + 1].id = node.id
      /\ \A j \in 1 .. p : Alike(q[j], r[j])
      /\ \A j \in p + 1 .. Len(q) : Alike(q[j], r[j + 1])
  BY <1>1, InsertKeeps DEF Same, Alike
<1> DEFINE from(j) == IF j <= p THEN j ELSE j - 1
<1>3. ASSUME NEW j \in 1 .. Len(r), j # p + 1
      PROVE  from(j) \in 1 .. Len(q) /\ Alike(q[from(j)], r[j])
  <2>1. CASE j <= p
    BY <1>1, <1>2, <2>1
  <2>2. CASE p + 1 < j
    <3>1. j - 1 \in p + 1 .. Len(q) /\ (j - 1) + 1 = j /\ ~(j <= p)
      BY <1>1, <2>2
    <3>2. Alike(q[j - 1], r[(j - 1) + 1])
      BY <1>2, <3>1
    <3> QED BY <3>1, <3>2
  <2> QED BY <1>3, <2>1, <2>2
<1>4. ASSUME NEW j \in 1 .. Len(r), NEW k \in 1 .. Len(r), j # p + 1, k # p + 1,
             from(j) = from(k)
      PROVE  j = k
  BY <1>1, <1>4
<1> HIDE DEF from
<1>5. ASSUME NEW j \in 1 .. Len(r), NEW k \in 1 .. Len(r), r[j].msg = r[k].msg
      PROVE  j = k
  <2>1. CASE j # p + 1 /\ k # p + 1
    <3>1. q[from(j)].msg = q[from(k)].msg /\ from(j) \in 1 .. Len(q) /\ from(k) \in 1 .. Len(q)
      BY <1>3, <1>5, <2>1 DEF Alike
    <3>2. from(j) = from(k)
      BY <1>1, <3>1 DEF Distinct
    <3> QED BY <1>4, <2>1, <3>2
  <2>2. CASE j = p + 1 /\ k # p + 1
    <3>1. q[from(k)].msg = node.msg /\ from(k) \in 1 .. Len(q)
      BY <1>2, <1>3, <1>5, <2>2 DEF Alike
    <3> QED BY <3>1
  <2>3. CASE j # p + 1 /\ k = p + 1
    <3>1. q[from(j)].msg = node.msg /\ from(j) \in 1 .. Len(q)
      BY <1>2, <1>3, <1>5, <2>3 DEF Alike
    <3> QED BY <3>1
  <2> QED BY <2>1, <2>2, <2>3
<1>6. ASSUME NEW j \in 1 .. Len(r) PROVE r[j].id \in {r[j].msg, Invalid}
  BY <1>1, <1>2, <1>3 DEF Alike
<1> QED BY <1>5, <1>6 DEF WellFormed, Distinct

Holds(q, n) == \E i \in 1 .. Len(q) : q[i].msg = n

\* It has the messages of the list and the inserted one.
LEMMA InsertHolds ==
  ASSUME NEW q \in Seq(Node), NEW node \in Node, NEW p \in 0 .. Len(q),
         NEW r \in Seq(Node), Inserted(q, p, node, r)
  PROVE  \A n : Holds(r, n) <=> n = node.msg \/ Holds(q, n)
<1>1. Len(r) = Len(q) + 1 /\ Len(q) \in Nat
  BY DEF Inserted
<1>2. /\ r[p + 1].msg = node.msg
      /\ \A j \in 1 .. p : r[j].msg = q[j].msg
      /\ \A j \in p + 1 .. Len(q) : r[j + 1].msg = q[j].msg
  BY InsertKeeps DEF Same, Alike
<1>3. ASSUME NEW j \in 1 .. Len(r)
      PROVE  r[j].msg = node.msg \/ Holds(q, r[j].msg)
  <2>1. CASE j <= p
    <3>1. j \in 1 .. p /\ j \in 1 .. Len(q)
      BY <1>1, <2>1
    <3> QED BY <1>2, <3>1 DEF Holds
  <2>2. CASE j = p + 1
    BY <1>2, <2>2
  <2>3. CASE p + 1 < j
    <3>1. j - 1 \in p + 1 .. Len(q) /\ (j - 1) + 1 = j /\ j - 1 \in 1 .. Len(q)
      BY <1>1, <2>3
    <3>2. r[(j - 1) + 1].msg = q[j - 1].msg
      BY <1>2, <3>1
    <3> QED BY <3>1, <3>2 DEF Holds
  <2> QED BY <1>1, <2>1, <2>2, <2>3
<1>4. ASSUME NEW i \in 1 .. Len(q) PROVE Holds(r, q[i].msg)
  <2>1. CASE i <= p
    <3>1. i \in 1 .. p /\ i \in 1 .. Len(r)
      BY <1>1, <2>1
    <3> QED BY <1>2, <3>1 DEF Holds
  <2>2. CASE p < i
    <3>1. i \in p + 1 .. Len(q) /\ i + 1 \in 1 .. Len(r)
      BY <1>1, <2>2
    <3> QED BY <1>2, <3>1 DEF Holds
  <2> QED BY <2>1, <2>2
<1>5. Holds(r, node.msg)
  <2>1. p + 1 \in 1 .. Len(r)
    BY <1>1
  <2> QED BY <1>2, <2>1 DEF Holds
<1>6. ASSUME NEW n, Holds(r, n) PROVE n = node.msg \/ Holds(q, n)
  BY <1>3, <1>6 DEF Holds
<1>7. ASSUME NEW n, Holds(q, n) PROVE Holds(r, n)
  <2>1. PICK i \in 1 .. Len(q) : q[i].msg = n
    BY <1>7 DEF Holds
  <2> QED BY <1>4, <2>1
<1> QED BY <1>5, <1>6, <1>7

\* Which elements of the old list are in the new one when one is taken out.
LEMMA DropFrom ==
  ASSUME NEW q, WellFormed(q), NEW i \in 1 .. Len(q), NEW r \in Seq(Node), Dropped(q, i, r)
  PROVE  /\ WellFormed(r)
         /\ \A j \in 1 .. Len(r) : \E k \in 1 .. Len(q) : k # i /\ Same(q, k, r, j)
         /\ \A k \in 1 .. Len(q) : k # i => \E j \in 1 .. Len(r) : Same(q, k, r, j)
<1>1. /\ q \in Seq(Node) /\ Distinct(q) /\ Len(q) \in Nat /\ Len(r) = Len(q) - 1
      /\ \A k \in 1 .. Len(q) : q[k].id \in {q[k].msg, Invalid}
  BY DEF WellFormed, Dropped
<1>2. /\ \A j \in 1 .. i - 1 : Same(q, j, r, j)
      /\ \A j \in i .. Len(r) : Same(q, j + 1, r, j)
  BY <1>1, DropKeeps
<1> DEFINE from(j) == IF j < i THEN j ELSE j + 1
<1>3. ASSUME NEW j \in 1 .. Len(r)
      PROVE  from(j) \in 1 .. Len(q) /\ from(j) # i /\ Same(q, from(j), r, j)
  <2>1. CASE j < i
    BY <1>1, <1>2, <2>1
  <2>2. CASE i <= j
    <3>1. j \in i .. Len(r) /\ j + 1 \in 1 .. Len(q) /\ ~(j < i) /\ j + 1 # i
      BY <1>1, <2>2
    <3> QED BY <1>2, <3>1
  <2> QED BY <1>1, <2>1, <2>2
<1>4. \A j, k \in 1 .. Len(r) : from(j) = from(k) => j = k
  BY <1>1
<1>5. ASSUME NEW k \in 1 .. Len(q), k # i PROVE \E j \in 1 .. Len(r) : Same(q, k, r, j)
  <2>1. CASE k < i
    <3>1. k \in 1 .. i - 1 /\ k \in 1 .. Len(r)
      BY <1>1, <2>1
    <3> QED BY <1>2, <3>1
  <2>2. CASE i < k
    <3>1. k - 1 \in i .. Len(r) /\ (k - 1) + 1 = k /\ k - 1 \in 1 .. Len(r)
      BY <1>1, <2>2
    <3>2. Same(q, (k - 1) + 1, r, k - 1)
      BY <1>2, <3>1
    <3> QED BY <3>1, <3>2
  <2> QED BY <1>1, <1>5, <2>1, <2>2
<1> HIDE DEF from
<1>6. ASSUME NEW j \in 1 .. Len(r), NEW k \in 1 .. Len(r), r[j].msg = r[k].msg
      PROVE  j = k
  <2>1. q[from(j)].msg = q[from(k)].msg /\ from(j) \in 1 .. Len(q) /\ from(k) \in 1 .. Len(q)
    BY <1>3, <1>6 DEF Same, Alike
  <2>2. from(j) = from(k)
    BY <1>1, <2>1 DEF Distinct
  <2> QED BY <1>4, <2>2
<1>7. ASSUME NEW j \in 1 .. Len(r) PROVE r[j].id \in {r[j].msg, Invalid}
  BY <1>1, <1>3 DEF Same, Alike
<1>8. WellFormed(r)
  BY <1>6, <1>7 DEF WellFormed, Distinct
<1> QED BY <1>3, <1>5, <1>8

(***************************************************************************)
(* The messages ms were taken out of q, and nothing else; what is left is  *)
(* due when it was, or earlier.                                            *)
(***************************************************************************)
Reduced(q, r, ms) ==
  /\ WellFormed(r)
  /\ \A j \in 1 .. Len(r) : \E i \in 1 .. Len(q) :
       q[i].msg \notin ms /\ Alike(q[i], r[j]) /\ Offset(r, j) <= Offset(q, i)
  /\ \A i \in 1 .. Len(q) : q[i].msg \notin ms => \E j \in 1 .. Len(r) : r[j].msg = q[i].msg

\* The absolute times are natural numbers.
LEMMA OffsetType ==
  ASSUME NEW q, WellFormed(q)
  PROVE  \A i \in 1 .. Len(q) : Offset(q, i) \in Nat
<1>1. q \in Seq(Node) /\ \A i \in 1 .. Len(q) : i \in 0 .. Len(q) /\ i <= i
  BY DEF WellFormed
<1> QED BY <1>1, OffsetMonotone

\* Taking one element out.
LEMMA DropReduces ==
  ASSUME NEW q, WellFormed(q), NEW i \in 1 .. Len(q), NEW r \in Seq(Node), Dropped(q, i, r)
  PROVE  Reduced(q, r, {q[i].msg})
<1>1. WellFormed(r)
  BY DropFrom
<1>2. \A k \in 1 .. Len(q) : k # i => q[k].msg # q[i].msg
  BY DEF WellFormed, Distinct
<1>3. ASSUME NEW j \in 1 .. Len(r)
      PROVE  \E k \in 1 .. Len(q) :
               q[k].msg \notin {q[i].msg} /\ Alike(q[k], r[j]) /\ Offset(r, j) <= Offset(q, k)
  <2>1. PICK k \in 1 .. Len(q) : k # i /\ Same(q, k, r, j)
    BY DropFrom
  <2>2. Offset(q, k) \in Nat
    BY OffsetType
  <2> QED BY <1>2, <2>1, <2>2 DEF Same
<1>4. ASSUME NEW k \in 1 .. Len(q), q[k].msg \notin {q[i].msg}
      PROVE  \E j \in 1 .. Len(r) : r[j].msg = q[k].msg
  <2>1. PICK j \in 1 .. Len(r) : Same(q, k, r, j)
    BY <1>4, DropFrom
  <2> QED BY <2>1 DEF Same, Alike
<1> QED BY <1>1, <1>3, <1>4 DEF Reduced

\* Cancelling the messages of an exchange.
LEMMA CancelReduces ==
  ASSUME NEW q, WellFormed(q), NEW x
  PROVE  Reduced(q, CoapCancelAll(q, x), Cancelled(q, x))
<1>1. PICK r : r = CoapCancelAll(q, x)
  OBVIOUS
<1>2. /\ q \in Seq(Node) /\ Distinct(q)
      /\ \A i \in 1 .. Len(q) : q[i].id \in {q[i].msg, Invalid}
  BY DEF WellFormed
<1>3. KeptOf(q, x, Len(q), r)
  BY <1>1, <1>2, CancelKeeps
<1>4. \A i \in 1 .. Len(q) : q[i].msg \in Cancelled(q, x) <=> Exchange[q[i].msg] = x
  BY DEF Cancelled
<1>5. WellFormed(r)
  BY <1>2, <1>3 DEF KeptOf, WellFormed
<1>6. ASSUME NEW j \in 1 .. Len(r)
      PROVE  \E i \in 1 .. Len(q) : /\ q[i].msg \notin Cancelled(q, x)
                                    /\ Alike(q[i], r[j]) /\ Offset(r, j) <= Offset(q, i)
  <2>1. PICK i \in 1 .. Len(q) :
          Exchange[q[i].msg] # x /\ r[j] = q[i] /\ Offset(r, j) <= Offset(q, i)
    BY <1>3 DEF KeptOf
  <2> QED BY <1>4, <2>1 DEF Alike
<1>7. ASSUME NEW i \in 1 .. Len(q), q[i].msg \notin Cancelled(q, x)
      PROVE  \E j \in 1 .. Len(r) : r[j].msg = q[i].msg
  <2>1. PICK j \in 1 .. Len(r) : r[j] = q[i]
    BY <1>3, <1>4, <1>7 DEF KeptOf
  <2> QED BY <2>1
<1> QED BY <1>1, <1>5, <1>6, <1>7 DEF Reduced

\* Where there is none of the exchange nothing is cancelled.
LEMMA CancelNone ==
  ASSUME NEW q \in Seq(Node), NEW x, \A i \in 1 .. Len(q) : Exchange[q[i].msg] # x
  PROVE  CoapCancelAll(q, x) = q
<1>1. PICK r : r = CoapCancelAll(q, x)
  OBVIOUS
<1>2. r \in Seq(Node) /\ Len(r) = Len(q) /\ \A i \in 1 .. Len(q) : r[i] = q[i]
  <2>1. KeptOf(q, x, Len(q), r)
    BY <1>1, CancelKeeps
  <2>2. r \in Seq(Node) /\ Prefix(q, Len(q), r)
    BY <2>1 DEF KeptOf
  <2> QED BY <2>2 DEF Prefix
<1>3. r = q
  BY <1>2
<1> QED BY <1>1, <1>3

\* One after the other.
LEMMA ReducedTwice ==
  ASSUME NEW q, WellFormed(q), NEW r, NEW s, NEW ms, NEW ns,
         Reduced(q, r, ms), Reduced(r, s, ns)
  PROVE  Reduced(q, s, ms \cup ns)
<1>1. WellFormed(r) /\ WellFormed(s)
  BY DEF Reduced
<1>2. ASSUME NEW j \in 1 .. Len(s)
      PROVE  \E i \in 1 .. Len(q) : /\ q[i].msg \notin ms \cup ns
                                    /\ Alike(q[i], s[j]) /\ Offset(s, j) <= Offset(q, i)
  <2>1. PICK k \in 1 .. Len(r) :
          r[k].msg \notin ns /\ Alike(r[k], s[j]) /\ Offset(s, j) <= Offset(r, k)
    BY DEF Reduced
  <2>2. PICK i \in 1 .. Len(q) :
          q[i].msg \notin ms /\ Alike(q[i], r[k]) /\ Offset(r, k) <= Offset(q, i)
    BY DEF Reduced
  <2>3. Alike(q[i], s[j]) /\ q[i].msg \notin ns
    BY <2>1, <2>2 DEF Alike
  <2>4. Offset(q, i) \in Nat /\ Offset(r, k) \in Nat /\ Offset(s, j) \in Nat
    BY <1>1, OffsetType
  <2> QED BY <2>1, <2>2, <2>3, <2>4
<1>3. ASSUME NEW i \in 1 .. Len(q), q[i].msg \notin ms \cup ns
      PROVE  \E j \in 1 .. Len(s) : s[j].msg = q[i].msg
  <2>1. PICK k \in 1 .. Len(r) : r[k].msg = q[i].msg
    BY <1>3 DEF Reduced
  <2>2. r[k].msg \notin ns
    BY <1>3, <2>1
  <2>3. PICK j \in 1 .. Len(s) : s[j].msg = r[k].msg
    BY <2>2 DEF Reduced
  <2> QED BY <2>1, <2>3
<1> QED BY <1>1, <1>2, <1>3 DEF Reduced

\* coap_remove_from_queue finds the message that was sent under the id, since
\* no other element has it.
LEMMA FirstFound ==
  ASSUME NEW q, WellFormed(q), NEW m \in Msgs, Found(q, m)
  PROVE  FirstWith(q, m) \in 1 .. Len(q) /\ q[FirstWith(q, m)].msg = m
<1> DEFINE S == {i \in 1 .. Len(q) : q[i].id = m}
<1>1. q \in Seq(Node) /\ \A i \in 1 .. Len(q) : q[i].id \in {q[i].msg, Invalid}
  BY DEF WellFormed
<1>2. S \subseteq Nat /\ S # {}
  BY <1>1 DEF Found
<1>3. PICK n \in S : \A k \in S : n <= k
  <2> HIDE DEF S
  <2> QED BY ONLY <1>2, SmallestOf
<1>4. n \in 1 .. Len(q) /\ q[n].id = m /\ \A j \in 1 .. n - 1 : q[j].id # m
  <2>1. n \in 1 .. Len(q) /\ q[n].id = m
    BY <1>3
  <2>2. ASSUME NEW j \in 1 .. n - 1, q[j].id = m PROVE FALSE
    <3>1. j \in S /\ ~(n <= j)
      BY <1>1, <2>1, <2>2
    <3> QED BY <1>3, <3>1
  <2> QED BY <2>1, <2>2
<1>5. FirstWith(q, m) \in 1 .. Len(q) /\ q[FirstWith(q, m)].id = m
  BY <1>4 DEF FirstWith
<1>6. q[FirstWith(q, m)].id # Invalid
  BY <1>5, IdAssumption
<1> QED BY <1>1, <1>5, <1>6

\* ... and takes it out, and nothing else.
LEMMA RemoveReduces ==
  ASSUME NEW q, WellFormed(q), NEW m \in Msgs, Found(q, m)
  PROVE  Reduced(q, CoapRemoveFromQueue(q, m), {m})
<1>1. PICK i \in 1 .. Len(q) : i = FirstWith(q, m) /\ q[i].msg = m
  BY FirstFound
<1>2. PICK r : r = SubSeq(q, 1, i - 1) \o Delayed(SubSeq(q, i + 1, Len(q)), q[i].t)
  OBVIOUS
<1>3. CoapRemoveFromQueue(q, m) = r
  BY <1>1, <1>2 DEF CoapRemoveFromQueue
<1>4. r \in Seq(Node) /\ Dropped(q, i, r)
  <2>1. q \in Seq(Node)
    BY DEF WellFormed
  <2> QED BY <1>2, <2>1, RemoveDrops
<1> QED BY <1>1, <1>3, <1>4, DropReduces

\* ... as coap_pop_next does with the first.
LEMMA PopReduces ==
  ASSUME NEW q, WellFormed(q), q # <<>>
  PROVE  /\ 1 \in 1 .. Len(q) /\ Head(q) = q[1] /\ q[1] \in Node
         /\ CoapPopNext(q) \in Seq(Node) /\ Dropped(q, 1, CoapPopNext(q))
         /\ Reduced(q, CoapPopNext(q), {q[1].msg})
<1>1. q \in Seq(Node) /\ 1 \in 1 .. Len(q) /\ Head(q) = q[1] /\ q[1] \in Node
  BY DEF WellFormed
<1>2. CoapPopNext(q) \in Seq(Node) /\ Dropped(q, 1, CoapPopNext(q))
  BY <1>1, PopDrops
<1>3. Reduced(q, CoapPopNext(q), {q[1].msg})
  BY <1>1, <1>2, DropReduces
<1> QED BY <1>1, <1>2, <1>3

(***************************************************************************)
(* The invariant: the list is well formed, and has the waiting messages.   *)
(***************************************************************************)
Unanswered ==
  \A m \in Msgs : outcome[m] = "waiting" <=> \E i \in 1 .. Len(queue) : queue[i].msg = m

Inv == TypeOK /\ WellFormed(queue) /\ Unanswered

\* Nothing is sent yet.
LEMMA InvInit == Init => Inv
<1> SUFFICES ASSUME Init PROVE Inv
  OBVIOUS
<1>1. queue = <<>> /\ queue \in Seq(Node) /\ Len(queue) = 0
  BY DEF Init
<1>2. WellFormed(queue)
  BY <1>1 DEF WellFormed, Distinct
<1>3. Unanswered
  BY <1>1 DEF Init, Unanswered
<1>4. TypeOK
  <2>1. elapsed \in Nat /\ retrying \in BOOLEAN
    BY DEF Init
  <2>2. outcome \in [Msgs -> Outcomes]
    BY DEF Init, Outcomes
  <2>3. 0 \in 0 .. AckTimeout /\ 0 \in 0 .. MaxSendErrors
    BY TimingAssumption DEF AckTimeout
  <2>4. waited \in [Msgs -> 0 .. AckTimeout] /\ errors \in 0 .. MaxSendErrors
    BY <2>3 DEF Init
  <2> QED BY <1>1, <2>1, <2>2, <2>4 DEF TypeOK
<1> QED BY <1>2, <1>3, <1>4 DEF Inv

\* What coap_send_confirmed does to the queue.
LEMMA SendStep ==
  ASSUME Inv, NEW m \in Msgs, SendConfirmed(m)
  PROVE  /\ elapsed' \in Nat /\ (queue # <<>> => elapsed' = elapsed)
         /\ queue' \in Seq(Node)
         /\ \A i \in 1 .. Len(queue) : queue[i].msg # m
         /\ \E node \in Node, p \in 0 .. Len(queue) :
              /\ node.msg = m /\ node.id = m /\ node.cnt = 0
              /\ node.t = node.timeout + elapsed'
              /\ Inserted(queue, p, node, queue')
<1>1. PICK timeout \in Timeouts :
        queue' = CoapInsertNode(queue,
          [msg |-> m, id |-> m, timeout |-> timeout, cnt |-> 0,
           t |-> timeout + IF queue = <<>> THEN 0 ELSE elapsed])
  BY DEF SendConfirmed
<1>2. elapsed \in Nat /\ queue \in Seq(Node) /\ MaxRetransmit \in Nat
      /\ timeout \in Nat \ {0} /\ elapsed' = IF queue = <<>> THEN 0 ELSE elapsed
  BY TimingAssumption, TimeoutType DEF Inv, TypeOK, SendConfirmed
<1>3. PICK node \in Node :
        /\ node = [msg |-> m, id |-> m, timeout |-> timeout, cnt |-> 0,
                   t |-> timeout + elapsed']
        /\ queue' = CoapInsertNode(queue, node)
  <2>1. [msg |-> m, id |-> m, timeout |-> timeout, cnt |-> 0,
         t |-> timeout + elapsed'] \in Node
    BY <1>2 DEF Node
  <2>2. timeout + (IF queue = <<>> THEN 0 ELSE elapsed) = timeout + elapsed'
    BY <1>2
  <2> QED BY <1>1, <2>1, <2>2
<1>4. /\ node.msg = m /\ node.id = m /\ node.cnt = 0
      /\ node.t = node.timeout + elapsed'
  BY <1>3
<1>5. /\ queue' \in Seq(Node)
      /\ \E p \in 0 .. Len(queue) : Inserted(queue, p, node, queue')
  BY <1>2, <1>3, InsertInserts
<1>6. \A i \in 1 .. Len(queue) : queue[i].msg # m
  BY DEF Inv, Unanswered, SendConfirmed
<1> QED BY <1>2, <1>4, <1>5, <1>6

\* What coap_retransmit does to the queue when it sends the first message again.
LEMMA RetransmitStep ==
  ASSUME Inv, Retransmit
  PROVE  /\ queue # <<>> /\ queue[1].cnt < MaxRetransmit /\ queue[1].t <= elapsed
         /\ queue' \in Seq(Node)
         /\ \E node \in Node, p \in 0 .. Len(CoapPopNext(queue)) :
              /\ node.msg = queue[1].msg /\ node.id \in {node.msg, Invalid}
              /\ node.timeout = queue[1].timeout /\ node.cnt = queue[1].cnt + 1
              /\ node.t = node.timeout * PowerOfTwo[node.cnt]
              /\ Inserted(CoapPopNext(queue), p, node, queue')
<1>1. queue # <<>> /\ queue[1].t <= elapsed /\ WellFormed(queue)
  BY DEF Inv, Retransmit, HeadDue
<1>2. /\ Head(queue) = queue[1] /\ queue[1] \in Node
      /\ CoapPopNext(queue) \in Seq(Node)
  BY <1>1, PopReduces
<1>3. PICK ok \in BOOLEAN :
        queue' = CoapInsertNode(CoapPopNext(queue),
                   [queue[1] EXCEPT !.cnt = @ + 1,
                      !.t = queue[1].timeout * PowerOfTwo[queue[1].cnt + 1],
                      !.id = IF ok THEN queue[1].msg ELSE Invalid])
  BY <1>2 DEF Retransmit
<1>4. PICK e \in Node : e = queue[1]
  BY <1>2
<1>5. /\ e.cnt < MaxRetransmit /\ e.msg \in Msgs /\ e.timeout \in Nat \ {0}
      /\ e.cnt \in Nat /\ e.cnt + 1 \in 0 .. MaxRetransmit
  BY <1>2, <1>4, TimingAssumption DEF Retransmit, Node
<1>6. PICK t \in Nat : t = e.timeout * PowerOfTwo[e.cnt + 1]
  <2>1. PowerOfTwo[e.cnt + 1] \in Nat
    BY <1>5, PowerType
  <2> QED BY <1>5, <2>1
<1>7. PICK id \in {e.msg, Invalid} : id = IF ok THEN e.msg ELSE Invalid
  OBVIOUS
<1> DEFINE node == [e EXCEPT !.cnt = e.cnt + 1, !.t = t, !.id = id]
<1>8. /\ node \in Node /\ node.msg = e.msg /\ node.id = id /\ node.timeout = e.timeout
      /\ node.cnt = e.cnt + 1 /\ node.t = t
  BY <1>5 DEF Node
<1>9. queue' = CoapInsertNode(CoapPopNext(queue), node)
  BY <1>3, <1>4, <1>6, <1>7
<1> HIDE DEF node
<1>10. /\ queue' \in Seq(Node)
       /\ \E p \in 0 .. Len(CoapPopNext(queue)) :
            Inserted(CoapPopNext(queue), p, node, queue')
  BY <1>2, <1>8, <1>9, InsertInserts
<1> QED BY <1>1, <1>4, <1>5, <1>6, <1>8, <1>10

\* What is settled leaves the queue together.
LEMMA SettleKeeps ==
  ASSUME Inv, NEW ms, Reduced(queue, queue', ms),
         Settle(ms, "answered") \/ Settle(ms, "gaveup")
  PROVE  /\ queue' \in Seq(Node) /\ WellFormed(queue') /\ Unanswered'
         /\ outcome' \in [Msgs -> Outcomes]
<1>1. WellFormed(queue') /\ queue' \in Seq(Node)
  BY DEF Reduced, WellFormed
<1>2. /\ outcome' \in [Msgs -> Outcomes]
      /\ \A m \in Msgs : outcome'[m] = "waiting" <=> m \notin ms /\ outcome[m] = "waiting"
  BY DEF Settle, Inv, TypeOK, Outcomes, Settled
<1>3. ASSUME NEW m \in Msgs
      PROVE  outcome'[m] = "waiting" <=> \E j \in 1 .. Len(queue') : queue'[j].msg = m
  <2>1. ASSUME outcome'[m] = "waiting" PROVE \E j \in 1 .. Len(queue') : queue'[j].msg = m
    <3>1. m \notin ms /\ \E i \in 1 .. Len(queue) : queue[i].msg = m
      BY <1>2, <2>1 DEF Inv, Unanswered
    <3> QED BY <3>1 DEF Reduced
  <2>2. ASSUME NEW j \in 1 .. Len(queue'), queue'[j].msg = m PROVE outcome'[m] = "waiting"
    <3>1. PICK i \in 1 .. Len(queue) : queue[i].msg \notin ms /\ Alike(queue[i], queue'[j])
      BY DEF Reduced
    <3>2. m \notin ms /\ outcome[m] = "waiting"
      BY <2>2, <3>1 DEF Alike, Inv, Unanswered
    <3> QED BY <1>2, <3>2
  <2> QED BY <2>1, <2>2
<1>4. Unanswered'
  BY <1>3 DEF Unanswered
<1> QED BY <1>1, <1>2, <1>4

\* What coap_retransmit does when it gives up.
LEMMA GiveUpStep ==
  ASSUME Inv, GiveUp
  PROVE  /\ queue # <<>> /\ queue[1].t <= elapsed /\ queue[1].cnt = MaxRetransmit
         /\ \/ queue' = CoapPopNext(queue) /\ Settle({queue[1].msg}, "gaveup")
            \/ \E ms : /\ queue[1].msg \in ms
                       /\ Reduced(queue, queue', ms) /\ Settle(ms, "gaveup")
<1>1. queue # <<>> /\ queue[1].t <= elapsed /\ WellFormed(queue)
  BY DEF Inv, GiveUp, HeadDue
<1>2. Head(queue) = queue[1] /\ Reduced(queue, CoapPopNext(queue), {queue[1].msg})
  BY <1>1, PopReduces
<1>3. queue[1].cnt = MaxRetransmit
  BY <1>2 DEF GiveUp
<1>4. CASE queue' = CoapPopNext(queue) /\ Settle({queue[1].msg}, "gaveup")
  BY <1>1, <1>3, <1>4
<1>5. CASE /\ queue' = CoapCancelAll(CoapPopNext(queue), Exchange[queue[1].msg])
           /\ Settle({queue[1].msg} \cup
                     Cancelled(CoapPopNext(queue), Exchange[queue[1].msg]), "gaveup")
  <2>1. PICK rest, x, ms : /\ rest = CoapPopNext(queue) /\ x = Exchange[queue[1].msg]
                           /\ ms = Cancelled(rest, x)
    OBVIOUS
  <2>2. WellFormed(rest)
    BY <1>2, <2>1 DEF Reduced
  <2>3. Reduced(rest, queue', ms)
    BY <1>5, <2>1, <2>2, CancelReduces
  <2>4. Reduced(queue, queue', {queue[1].msg} \cup ms)
    BY <1>1, <1>2, <2>1, <2>3, ReducedTwice
  <2>5. Settle({queue[1].msg} \cup ms, "gaveup")
    BY <1>5, <2>1
  <2> QED BY <1>1, <1>3, <2>4, <2>5
<1> QED BY <1>2, <1>4, <1>5 DEF GiveUp

\* What an answer does: it settles messages and takes them out, and no other.
LEMMA AnswerStep ==
  ASSUME Inv, NEW m \in Msgs, Acked(m) \/ Responded(m) \/ Reset(m)
  PROVE  \E ms : /\ Reduced(queue, queue', ms) /\ Settle(ms, "answered")
                 /\ queue' = queue \/ \E i \in 1 .. Len(queue) : queue[i].msg \in ms
<1>1. WellFormed(queue)
  BY DEF Inv
<1>6. Found(queue, m) => \E i \in 1 .. Len(queue) : queue[i].msg = m
  BY <1>1, FirstFound
<1>2. CASE Acked(m)
  <2>1. Reduced(queue, queue', {m}) /\ Settle({m}, "answered") /\ Found(queue, m)
    BY <1>1, <1>2, RemoveReduces DEF Acked
  <2> QED BY <1>6, <2>1
<1>3. ASSUME NEW rest, WellFormed(rest), NEW ms, Reduced(queue, rest, ms)
      PROVE  Reduced(queue, CoapCancelAll(rest, Exchange[m]), ms \cup Cancelled(rest, Exchange[m]))
  <2>1. Reduced(rest, CoapCancelAll(rest, Exchange[m]), Cancelled(rest, Exchange[m]))
    BY <1>3, CancelReduces
  <2> QED BY <1>1, <1>3, <2>1, ReducedTwice
<1>4. CASE Responded(m)
  <2>1. PICK piggybacked \in BOOLEAN :
          LET acks == piggybacked /\ Found(queue, m)
              rest == IF acks THEN CoapRemoveFromQueue(queue, m) ELSE queue
          IN  /\ queue' = CoapCancelAll(rest, Exchange[m])
              /\ Settle(Cancelled(rest, Exchange[m]) \cup IF acks THEN {m} ELSE {},
                        "answered")
    BY <1>4 DEF Responded
  <2>2. CASE piggybacked /\ Found(queue, m)
    <3>1. PICK rest, x, ms : /\ rest = CoapRemoveFromQueue(queue, m) /\ x = Exchange[m]
                             /\ ms = Cancelled(rest, x)
      OBVIOUS
    <3>2. queue' = CoapCancelAll(rest, x) /\ Settle(ms \cup {m}, "answered")
      BY <2>1, <2>2, <3>1
    <3>3. Reduced(queue, rest, {m})
      BY <1>1, <2>2, <3>1, RemoveReduces
    <3>4. WellFormed(rest)
      BY <3>3 DEF Reduced
    <3>5. Reduced(queue, CoapCancelAll(rest, Exchange[m]), {m} \cup Cancelled(rest, Exchange[m]))
      BY <1>3, <3>3, <3>4
    <3>6. {m} \cup ms = ms \cup {m}
      OBVIOUS
    <3> QED BY <1>6, <2>2, <3>1, <3>2, <3>5, <3>6
  <2>3. CASE ~(piggybacked /\ Found(queue, m))
    <3>1. PICK x, ms : x = Exchange[m] /\ ms = Cancelled(queue, x)
      OBVIOUS
    <3>2. queue' = CoapCancelAll(queue, x) /\ Settle(ms \cup {}, "answered")
      BY <2>1, <2>3, <3>1
    <3>3. ms \cup {} = ms
      OBVIOUS
    <3>4. Reduced(queue, queue', ms)
      BY <1>1, <3>1, <3>2, CancelReduces
    <3>5. queue' = queue \/ \E i \in 1 .. Len(queue) : queue[i].msg \in ms
      <4>1. CASE \E i \in 1 .. Len(queue) : Exchange[queue[i].msg] = x
        BY <3>1, <4>1 DEF Cancelled
      <4>2. CASE \A i \in 1 .. Len(queue) : Exchange[queue[i].msg] # x
        <5>1. queue \in Seq(Node)
          BY <1>1 DEF WellFormed
        <5> QED BY <3>2, <4>2, <5>1, CancelNone
      <4> QED BY <4>1, <4>2
    <3> QED BY <3>2, <3>3, <3>4, <3>5
  <2> QED BY <2>2, <2>3
<1>5. CASE Reset(m)
  <2>1. PICK rest, x, ms : /\ rest = CoapRemoveFromQueue(queue, m) /\ x = Exchange[m]
                           /\ ms = Cancelled(rest, x)
    OBVIOUS
  <2>2. Reduced(queue, rest, {m}) /\ \E i \in 1 .. Len(queue) : queue[i].msg = m
    BY <1>1, <1>5, <1>6, <2>1, RemoveReduces DEF Reset
  <2>3. CASE queue' = rest /\ Settle({m}, "answered")
    BY <2>2, <2>3
  <2>4. CASE queue' = CoapCancelAll(rest, x) /\ Settle({m} \cup ms, "answered")
    <3>1. WellFormed(rest)
      BY <2>2 DEF Reduced
    <3>2. Reduced(queue, CoapCancelAll(rest, Exchange[m]), {m} \cup Cancelled(rest, Exchange[m]))
      BY <1>3, <2>2, <3>1
    <3> QED BY <2>1, <2>2, <2>4, <3>2
  <2> QED BY <1>5, <2>1, <2>3, <2>4 DEF Reset
<1> QED BY <1>2, <1>4, <1>5

\* Every step keeps the invariant.
LEMMA InvNext == Inv /\ [Next]_vars => Inv'
<1> SUFFICES ASSUME Inv, [Next]_vars PROVE Inv'
  OBVIOUS
<1>1. TypeOK /\ WellFormed(queue) /\ Unanswered
  BY DEF Inv
<1>2. TicksPerSecond \in Nat \ {0} /\ AckTimeout \in Nat /\ MaxSendErrors \in Nat
  BY TimingAssumption DEF AckTimeout
<1>3. CASE Tick
  <2>1. waited' \in [Msgs -> 0 .. AckTimeout]
    <3>1. ASSUME NEW m \in Msgs
          PROVE  (IF m \notin Queued THEN 0
                  ELSE IF waited[m] < AckTimeout THEN waited[m] + 1 ELSE waited[m])
                 \in 0 .. AckTimeout
      <4>1. waited[m] \in 0 .. AckTimeout
        BY <1>1 DEF TypeOK
      <4> QED BY <1>2, <4>1
    <3> QED BY <1>3, <3>1 DEF Tick
  <2>2. elapsed' \in Nat
    BY <1>1, <1>3 DEF Tick, TypeOK
  <2>3. UNCHANGED <<queue, retrying, outcome, errors>>
    BY <1>3 DEF Tick
  <2>4. TypeOK'
    BY <1>1, <2>1, <2>2, <2>3 DEF TypeOK
  <2>5. WellFormed(queue') /\ Unanswered'
    BY <1>1, <2>3 DEF Unanswered
  <2> QED BY <2>4, <2>5 DEF Inv
<1>4. ASSUME NEW m \in Msgs, SendConfirmed(m) PROVE Inv'
  <2>1. PICK node \in Node, p \in 0 .. Len(queue) :
          /\ node.msg = m /\ node.id = m /\ Inserted(queue, p, node, queue')
          /\ elapsed' \in Nat /\ queue' \in Seq(Node)
          /\ \A i \in 1 .. Len(queue) : queue[i].msg # m
    BY <1>4, SendStep
  <2>2. WellFormed(queue')
    BY <1>1, <2>1, InsertWellFormed
  <2>3. /\ outcome' \in [Msgs -> Outcomes] /\ outcome'[m] = "waiting"
        /\ \A n \in Msgs \ {m} : outcome'[n] = outcome[n]
    BY <1>1, <1>4 DEF SendConfirmed, Settle, TypeOK, Outcomes
  <2>4. UNCHANGED <<retrying, waited, errors>>
    BY <1>4 DEF SendConfirmed
  <2>5. TypeOK'
    BY <1>1, <2>1, <2>3, <2>4 DEF TypeOK
  <2>6. Unanswered'
    <3>1. queue \in Seq(Node)
      BY <1>1 DEF WellFormed
    <3>2. \A n : Holds(queue', n) <=> n = node.msg \/ Holds(queue, n)
      BY ONLY <2>1, <3>1, InsertHolds
    <3> QED BY <1>1, <2>1, <2>3, <3>2 DEF Unanswered, Holds
  <2> QED BY <2>2, <2>5, <2>6 DEF Inv
<1>5. ASSUME NEW m \in Msgs, SendRefused(m) PROVE Inv'
  <2>1. /\ outcome' \in [Msgs -> Outcomes]
        /\ \A n \in Msgs : outcome'[n] = "waiting" <=> outcome[n] = "waiting"
    BY <1>1, <1>5 DEF SendRefused, Settle, TypeOK, Outcomes, Settled
  <2>2. errors' \in 0 .. MaxSendErrors
    BY <1>1, <1>2, <1>5 DEF SendRefused, TypeOK
  <2>3. UNCHANGED <<elapsed, queue, retrying, waited>>
    BY <1>5 DEF SendRefused
  <2>4. TypeOK'
    BY <1>1, <2>1, <2>2, <2>3 DEF TypeOK
  <2>5. Unanswered'
    BY <1>1, <2>1, <2>3 DEF Unanswered
  <2> QED BY <1>1, <2>3, <2>4, <2>5 DEF Inv
<1>6. CASE Retransmit
  <2>1. PICK rest : rest = CoapPopNext(queue)
    OBVIOUS
  <2>2. queue # <<>>
    BY <1>6, RetransmitStep
  <2>3. PICK node \in Node, p \in 0 .. Len(rest) :
          /\ node.msg = queue[1].msg /\ node.id \in {node.msg, Invalid}
          /\ Inserted(rest, p, node, queue') /\ queue' \in Seq(Node)
    BY <1>6, <2>1, RetransmitStep
  <2>4. /\ 1 \in 1 .. Len(queue) /\ Head(queue) = queue[1]
        /\ Reduced(queue, rest, {node.msg})
    BY <1>1, <2>1, <2>2, <2>3, PopReduces
  <2>5. /\ WellFormed(rest)
        /\ \A j \in 1 .. Len(rest) : rest[j].msg # node.msg
        /\ \A n : n # node.msg => (Holds(rest, n) <=> Holds(queue, n))
    <3>1. /\ WellFormed(rest)
          /\ \A j \in 1 .. Len(rest) : \E i \in 1 .. Len(queue) :
               queue[i].msg # node.msg /\ rest[j].msg = queue[i].msg
          /\ \A i \in 1 .. Len(queue) : queue[i].msg # node.msg =>
               \E j \in 1 .. Len(rest) : rest[j].msg = queue[i].msg
      BY <2>4 DEF Reduced, Alike
    <3>2. ASSUME NEW n, n # node.msg, Holds(rest, n) PROVE Holds(queue, n)
      BY <3>1, <3>2 DEF Holds
    <3>3. ASSUME NEW n, n # node.msg, Holds(queue, n) PROVE Holds(rest, n)
      BY <3>1, <3>3 DEF Holds
    <3> QED BY <3>1, <3>2, <3>3
  <2>6. WellFormed(queue')
    BY <2>3, <2>5, InsertWellFormed
  <2>7. \A n : Holds(queue', n) <=> n = node.msg \/ Holds(rest, n)
    <3>1. rest \in Seq(Node)
      BY <2>5 DEF WellFormed
    <3> QED BY ONLY <2>3, <3>1, InsertHolds
  <2>8. Unanswered'
    <3>1. outcome' = outcome
      BY <1>6 DEF Retransmit
    <3>2. Holds(queue, node.msg)
      BY <2>3, <2>4 DEF Holds
    <3>3. \A n : Holds(queue', n) <=> Holds(queue, n)
      BY <2>5, <2>7, <3>2
    <3> QED BY <1>1, <3>1, <3>3 DEF Unanswered, Holds
  <2>9. errors' \in 0 .. MaxSendErrors
    BY <1>1, <1>2, <1>6 DEF Retransmit, TypeOK
  <2>10. waited' \in [Msgs -> 0 .. AckTimeout]
    <3>1. waited' = [waited EXCEPT ![Head(queue).msg] = 0] /\ 0 \in 0 .. AckTimeout
      BY <1>2, <1>6 DEF Retransmit
    <3>2. waited \in [Msgs -> 0 .. AckTimeout]
      BY <1>1 DEF TypeOK
    <3> QED BY <3>1, <3>2
  <2>11. UNCHANGED <<elapsed, outcome>> /\ retrying' \in BOOLEAN
    BY <1>6 DEF Retransmit, HeadDue
  <2>12. TypeOK'
    BY <1>1, <2>3, <2>9, <2>10, <2>11 DEF TypeOK
  <2> QED BY <2>6, <2>8, <2>12 DEF Inv
<1>7. CASE GiveUp
  <2>1. PICK ms : Reduced(queue, queue', ms) /\ Settle(ms, "gaveup")
    <3>1. queue # <<>>
      BY <1>7, GiveUpStep
    <3>2. Reduced(queue, CoapPopNext(queue), {queue[1].msg})
      BY <1>1, <3>1, PopReduces
    <3> QED BY <1>7, <3>2, GiveUpStep
  <2>2. queue' \in Seq(Node) /\ WellFormed(queue') /\ Unanswered' /\ outcome' \in [Msgs -> Outcomes]
    BY <2>1, SettleKeeps
  <2>3. UNCHANGED <<elapsed, waited, errors>> /\ retrying' \in BOOLEAN
    BY <1>7 DEF GiveUp, HeadDue
  <2>4. TypeOK'
    BY <1>1, <2>2, <2>3 DEF TypeOK
  <2> QED BY <2>2, <2>4 DEF Inv
<1>8. ASSUME NEW m \in Msgs, Acked(m) \/ Responded(m) \/ Reset(m) PROVE Inv'
  <2>1. PICK ms : Reduced(queue, queue', ms) /\ Settle(ms, "answered")
    BY <1>8, AnswerStep
  <2>2. queue' \in Seq(Node) /\ WellFormed(queue') /\ Unanswered' /\ outcome' \in [Msgs -> Outcomes]
    BY <2>1, SettleKeeps
  <2>3. UNCHANGED <<elapsed, retrying, waited, errors>>
    BY <1>8 DEF Acked, Responded, Reset
  <2>4. TypeOK'
    BY <1>1, <2>2, <2>3 DEF TypeOK
  <2> QED BY <2>2, <2>4 DEF Inv
<1>9. CASE UNCHANGED vars
  BY <1>1, <1>9 DEF vars, Inv, TypeOK, Unanswered
<1> QED BY <1>3, <1>4, <1>5, <1>6, <1>7, <1>8, <1>9 DEF Next

LEMMA Invariant == Spec => []Inv
BY InvInit, InvNext, PTL DEF Spec

\* The relative times stay natural numbers, whatever is inserted, taken out
\* or cancelled: the library keeps them in an unsigned type.
THEOREM TypeCorrect == Spec => []TypeOK
<1>1. Inv => TypeOK
  BY DEF Inv
<1> QED BY <1>1, Invariant, PTL

\* The queue holds the messages that nobody answered, rejected or gave up,
\* each once.
THEOREM QueueIsUnansweredCorrect == Spec => []QueueIsUnanswered
<1>1. Inv => QueueIsUnanswered
  <2> SUFFICES ASSUME Inv PROVE QueueIsUnanswered
    OBVIOUS
  <2>1. /\ queue \in Seq(Node) /\ Len(queue) \in Nat /\ Distinct(queue)
        /\ \A i \in 1 .. Len(queue) : queue[i].msg \in Msgs
    <3>1. queue \in Seq(Node) /\ Distinct(queue)
      BY DEF Inv, WellFormed
    <3>2. \A e \in Node : e.msg \in Msgs
      BY DEF Node
    <3> QED BY <3>1, <3>2
  <2>2. Queued = {m \in Msgs : outcome[m] = "waiting"}
    BY <2>1 DEF Inv, Unanswered, Queued
  <2>3. Cardinality(Queued) = Len(queue)
    <3> DEFINE f == [i \in 1 .. Len(queue) |-> queue[i].msg]
    <3>1. f \in Bijection(1 .. Len(queue), Queued)
      <4>1. f \in [1 .. Len(queue) -> Queued]
        BY DEF Queued
      <4>2. \A i, j \in 1 .. Len(queue) : f[i] = f[j] => i = j
        BY <2>1 DEF Distinct
      <4>3. \A m \in Queued : \E i \in 1 .. Len(queue) : f[i] = m
        BY DEF Queued
      <4> HIDE DEF f
      <4> QED BY <4>1, <4>2, <4>3 DEF Bijection, Injection, Surjection, IsInjective
    <3>2. ExistsBijection(1 .. Len(queue), Queued)
      <4> HIDE DEF f
      <4> QED BY <3>1 DEF ExistsBijection
    <3>3. IsFiniteSet(1 .. Len(queue)) /\ Cardinality(1 .. Len(queue)) = Len(queue)
      <4>1. /\ IsFiniteSet(1 .. Len(queue))
            /\ Cardinality(1 .. Len(queue)) =
                 IF 1 > Len(queue) THEN 0 ELSE Len(queue) - 1 + 1
        BY <2>1, FS_Interval
      <4> QED BY <2>1, <4>1
    <3>4. Cardinality(Queued) = Cardinality(1 .. Len(queue))
      BY <3>2, <3>3, FS_Bijection
    <3> QED BY <3>3, <3>4
  <2> QED BY <2>2, <2>3 DEF QueueIsUnanswered
<1> QED BY <1>1, Invariant, PTL

(***************************************************************************)
(* The refinement.  The list with its base time stands for a timer per     *)
(* message, wherever in the list the message is.                           *)
(***************************************************************************)
MsgsOf(q) == {q[i].msg : i \in 1 .. Len(q)}

TimersIn(q, now) == [m \in MsgsOf(q) |->
  LET i == CHOOSE j \in 1 .. Len(q) : q[j].msg = m
  IN  [left |-> Offset(q, i) - now, timeout |-> q[i].timeout, cnt |-> q[i].cnt]]

\* T has the timers of q's messages.
View(T, q, now) ==
  /\ DOMAIN T = MsgsOf(q)
  /\ \A i \in 1 .. Len(q) :
       T[q[i].msg] = [left |-> Offset(q, i) - now, timeout |-> q[i].timeout,
                      cnt |-> q[i].cnt]

\* Where a message is in the list there is no choice.
LEMMA ViewOf ==
  ASSUME NEW q, WellFormed(q), NEW now
  PROVE  View(TimersIn(q, now), q, now)
<1>1. \A i, j \in 1 .. Len(q) : q[i].msg = q[j].msg => i = j
  BY DEF WellFormed, Distinct
<1>2. DOMAIN TimersIn(q, now) = MsgsOf(q)
  BY DEF TimersIn
<1>3. ASSUME NEW i \in 1 .. Len(q)
      PROVE  TimersIn(q, now)[q[i].msg] =
               [left |-> Offset(q, i) - now, timeout |-> q[i].timeout, cnt |-> q[i].cnt]
  <2>1. (CHOOSE j \in 1 .. Len(q) : q[j].msg = q[i].msg) = i
    BY <1>1
  <2>2. q[i].msg \in MsgsOf(q)
    BY DEF MsgsOf
  <2> QED BY <2>1, <2>2 DEF TimersIn
<1> QED BY <1>2, <1>3 DEF View

\* The message whose timer is looked at is somewhere in the list.
LEMMA ViewAt ==
  ASSUME NEW q, NEW T, NEW now, View(T, q, now)
  PROVE  \A m \in DOMAIN T : \E i \in 1 .. Len(q) :
           /\ q[i].msg = m
           /\ T[m] = [left |-> Offset(q, i) - now, timeout |-> q[i].timeout, cnt |-> q[i].cnt]
BY DEF View, MsgsOf

\* The first of the list is the earliest.
LEMMA HeadEarliest ==
  ASSUME NEW q, WellFormed(q), q # <<>>, NEW now \in Int, q[1].t <= now,
         NEW T, View(T, q, now)
  PROVE  /\ q[1].msg \in DOMAIN T /\ T[q[1].msg].left <= 0
         /\ \A n \in DOMAIN T : T[q[1].msg].left <= T[n].left
<1>1. q \in Seq(Node) /\ 1 \in 1 .. Len(q) /\ q[1].t \in Nat /\ Timed(q)
  BY NodesTimed DEF WellFormed
<1>2. Offset(q, 1) = q[1].t
  <2>1. Offset(q, 0) = 0 /\ Offset(q, 1) = Offset(q, 1 - 1) + q[1].t /\ 1 - 1 = 0
    BY <1>1, OffsetSums
  <2> QED BY <1>1, <2>1
<1>3. T[q[1].msg].left = q[1].t - now
  <2>1. T[q[1].msg] = [left |-> Offset(q, 1) - now, timeout |-> q[1].timeout, cnt |-> q[1].cnt]
    BY <1>1 DEF View
  <2>2. T[q[1].msg].left = Offset(q, 1) - now
    BY <2>1
  <2> QED BY <1>2, <2>2
<1>4. ASSUME NEW n \in DOMAIN T PROVE T[q[1].msg].left <= T[n].left
  <2>1. PICK i \in 1 .. Len(q) : T[n].left = Offset(q, i) - now
    BY ViewAt
  <2>2. 1 \in 0 .. Len(q) /\ i \in 0 .. Len(q) /\ 1 <= i
    BY <1>1
  <2>3. Offset(q, 1) <= Offset(q, i) /\ Offset(q, i) \in Nat
    BY <1>1, <2>2, OffsetMonotone
  <2> QED BY <1>1, <1>2, <1>3, <2>1, <2>3
<1>5. q[1].msg \in DOMAIN T
  BY <1>1 DEF View, MsgsOf
<1> QED BY <1>1, <1>3, <1>4, <1>5

\* A message that is still there, due at the same time, has the same timer.
LEMMA SameTimer ==
  ASSUME NEW q, NEW i \in 1 .. Len(q), NEW r, NEW j \in 1 .. Len(r), Same(q, i, r, j),
         NEW now, NEW S, View(S, q, now), NEW T, View(T, r, now)
  PROVE  T[q[i].msg] = S[q[i].msg]
<1>1. /\ r[j].msg = q[i].msg /\ r[j].timeout = q[i].timeout /\ r[j].cnt = q[i].cnt
      /\ Offset(r, j) = Offset(q, i)
  BY DEF Same, Alike
<1>2. S[q[i].msg] = [left |-> Offset(q, i) - now, timeout |-> q[i].timeout, cnt |-> q[i].cnt]
  BY DEF View
<1>3. T[r[j].msg] = [left |-> Offset(r, j) - now, timeout |-> r[j].timeout, cnt |-> r[j].cnt]
  BY DEF View
<1> QED BY <1>1, <1>2, <1>3

\* Taking messages out stops their timers and delays no other.
LEMMA ReducedStops ==
  ASSUME NEW q, WellFormed(q), NEW r, NEW ms, Reduced(q, r, ms),
         \E i \in 1 .. Len(q) : q[i].msg \in ms,
         NEW now \in Int, NEW S, View(S, q, now), NEW T, View(T, r, now)
  PROVE  /\ DOMAIN T \in (SUBSET DOMAIN S) \ {DOMAIN S}
         /\ \A n \in DOMAIN T : /\ T[n].timeout = S[n].timeout
                                /\ T[n].cnt = S[n].cnt
                                /\ T[n].left <= S[n].left
<1>1. WellFormed(r) /\ DOMAIN S = MsgsOf(q) /\ DOMAIN T = MsgsOf(r)
  BY DEF Reduced, View
<1>2. ASSUME NEW n \in DOMAIN T
      PROVE  /\ n \in DOMAIN S /\ n \notin ms
             /\ T[n].timeout = S[n].timeout /\ T[n].cnt = S[n].cnt /\ T[n].left <= S[n].left
  <2>1. PICK j \in 1 .. Len(r) :
          /\ r[j].msg = n
          /\ T[n] = [left |-> Offset(r, j) - now, timeout |-> r[j].timeout, cnt |-> r[j].cnt]
    BY ViewAt
  <2>2. PICK i \in 1 .. Len(q) :
          q[i].msg \notin ms /\ Alike(q[i], r[j]) /\ Offset(r, j) <= Offset(q, i)
    BY DEF Reduced
  <2>3. q[i].msg = n /\ r[j].timeout = q[i].timeout /\ r[j].cnt = q[i].cnt
    BY <2>1, <2>2 DEF Alike
  <2>4. S[n] = [left |-> Offset(q, i) - now, timeout |-> q[i].timeout, cnt |-> q[i].cnt]
    BY <2>3 DEF View
  <2>5. Offset(r, j) \in Nat /\ Offset(q, i) \in Nat
    BY <1>1, OffsetType
  <2>6. n \in DOMAIN S
    BY <1>1, <2>3 DEF MsgsOf
  <2> QED BY <2>1, <2>2, <2>3, <2>4, <2>5, <2>6
<1>3. DOMAIN T # DOMAIN S
  <2>1. PICK i \in 1 .. Len(q) : q[i].msg \in ms
    OBVIOUS
  <2>2. q[i].msg \in DOMAIN S
    BY <1>1 DEF MsgsOf
  <2> QED BY <1>2, <2>1, <2>2
<1> QED BY <1>2, <1>3

\* The timer of the node was set, and the others are as they were.
SetTimer(S, T, node, now) ==
  /\ DOMAIN T = DOMAIN S \cup {node.msg}
  /\ \A n \in DOMAIN S : T[n] = S[n]
  /\ T[node.msg] = [left |-> node.t - now, timeout |-> node.timeout, cnt |-> node.cnt]

\* The timer of m was stopped, and the others are as they were.
StoppedTimer(S, T, m) ==
  /\ DOMAIN T = DOMAIN S \ {m}
  /\ \A n \in DOMAIN T : T[n] = S[n]

\* Inserting a message starts its timer and leaves the others alone.
LEMMA InsertedStarts ==
  ASSUME NEW q \in Seq(Node), NEW node \in Node, NEW p \in 0 .. Len(q),
         NEW r \in Seq(Node), Inserted(q, p, node, r),
         \A i \in 1 .. Len(q) : q[i].msg # node.msg,
         NEW now, NEW S, View(S, q, now), NEW T, View(T, r, now)
  PROVE  SetTimer(S, T, node, now)
<1>1. DOMAIN S = MsgsOf(q) /\ DOMAIN T = MsgsOf(r) /\ Len(r) = Len(q) + 1 /\ Len(q) \in Nat
  BY DEF View, Inserted
<1>2. \A n : Holds(r, n) <=> n = node.msg \/ Holds(q, n)
  BY InsertHolds
<1>3. DOMAIN T = DOMAIN S \cup {node.msg}
  <2>1. \A n : n \in MsgsOf(r) <=> Holds(r, n)
    BY DEF MsgsOf, Holds
  <2>2. \A n : n \in MsgsOf(q) <=> Holds(q, n)
    BY DEF MsgsOf, Holds
  <2> QED BY <1>1, <1>2, <2>1, <2>2
<1>4. /\ Alike(node, r[p + 1]) /\ Offset(r, p + 1) = node.t
      /\ \A j \in 1 .. p : Same(q, j, r, j)
      /\ \A j \in p + 1 .. Len(q) : Same(q, j, r, j + 1)
  BY InsertKeeps
<1>5. ASSUME NEW i \in 1 .. Len(q) PROVE T[q[i].msg] = S[q[i].msg]
  <2>1. PICK j \in 1 .. Len(r) : Same(q, i, r, j)
    <3>1. CASE i <= p
      <4>1. i \in 1 .. p /\ i \in 1 .. Len(r)
        BY <1>1, <3>1
      <4> QED BY <1>4, <4>1
    <3>2. CASE p < i
      <4>1. i \in p + 1 .. Len(q) /\ i + 1 \in 1 .. Len(r)
        BY <1>1, <3>2
      <4> QED BY <1>4, <4>1
    <3> QED BY <3>1, <3>2
  <2> QED BY <2>1, SameTimer
<1>6. T[node.msg] = [left |-> node.t - now, timeout |-> node.timeout, cnt |-> node.cnt]
  <2>1. PICK j \in 1 .. Len(r) : j = p + 1
    BY <1>1
  <2>2. r[j].msg = node.msg /\ r[j].timeout = node.timeout /\ r[j].cnt = node.cnt
        /\ Offset(r, j) = node.t
    BY <1>4, <2>1 DEF Alike
  <2>3. T[r[j].msg] = [left |-> Offset(r, j) - now, timeout |-> r[j].timeout, cnt |-> r[j].cnt]
    BY DEF View
  <2> QED BY <2>2, <2>3
<1>7. \A n \in DOMAIN S : T[n] = S[n]
  BY <1>1, <1>5 DEF MsgsOf
<1> QED BY <1>3, <1>6, <1>7 DEF SetTimer

\* Taking the first out stops its timer and leaves the others alone.
LEMMA PoppedStops ==
  ASSUME NEW q, WellFormed(q), q # <<>>, NEW r, r = CoapPopNext(q),
         NEW now, NEW S, View(S, q, now), NEW T, View(T, r, now)
  PROVE  StoppedTimer(S, T, q[1].msg)
<1>1. 1 \in 1 .. Len(q) /\ r \in Seq(Node) /\ Dropped(q, 1, r)
  BY PopReduces
<1>2. /\ \A j \in 1 .. Len(r) : \E k \in 1 .. Len(q) : k # 1 /\ Same(q, k, r, j)
      /\ \A k \in 1 .. Len(q) : k # 1 => \E j \in 1 .. Len(r) : Same(q, k, r, j)
  BY <1>1, DropFrom
<1>3. \A k \in 1 .. Len(q) : k # 1 => q[k].msg # q[1].msg
  BY <1>1 DEF WellFormed, Distinct
<1>4. DOMAIN S = MsgsOf(q) /\ DOMAIN T = MsgsOf(r)
  BY DEF View
<1>5. ASSUME NEW n \in DOMAIN T
      PROVE  n \in DOMAIN S /\ n # q[1].msg /\ T[n] = S[n]
  <2>1. PICK j \in 1 .. Len(r) : r[j].msg = n
    BY <1>4 DEF MsgsOf
  <2>2. PICK k \in 1 .. Len(q) : k # 1 /\ Same(q, k, r, j)
    BY <1>2
  <2>3. q[k].msg = n /\ n # q[1].msg
    BY <1>3, <2>1, <2>2 DEF Same, Alike
  <2>4. n \in DOMAIN S
    BY <1>4, <2>3 DEF MsgsOf
  <2>5. T[q[k].msg] = S[q[k].msg]
    BY <2>2, SameTimer
  <2> QED BY <2>3, <2>4, <2>5
<1>6. ASSUME NEW n \in DOMAIN S, n # q[1].msg PROVE n \in DOMAIN T
  <2>1. PICK k \in 1 .. Len(q) : q[k].msg = n
    BY <1>4 DEF MsgsOf
  <2>2. PICK j \in 1 .. Len(r) : Same(q, k, r, j)
    BY <1>2, <1>6, <2>1
  <2>3. r[j].msg = n
    BY <2>1, <2>2 DEF Same, Alike
  <2> QED BY <1>4, <2>3 DEF MsgsOf
<1> QED BY <1>5, <1>6 DEF StoppedTimer

\* What TimersOf is before and after a step.
LEMMA Views ==
  ASSUME Inv, Inv'
  PROVE  View(TimersOf, queue, elapsed) /\ View(TimersOf', queue', elapsed')
<1>1. WellFormed(queue) /\ WellFormed(queue')
  BY DEF Inv
<1>2. TimersOf = TimersIn(queue, elapsed)
  BY DEF TimersOf, TimersIn, Queued, MsgsOf
<1>3. TimersOf' = TimersIn(queue', elapsed')
  BY DEF TimersOf, TimersIn, Queued, MsgsOf
<1> QED BY <1>1, <1>2, <1>3, ViewOf

(***************************************************************************)
(* The step simulation.  Tick is Tick, a sent message Start, a             *)
(* retransmission Fire, giving up Expire, or Stop when other notifications *)
(* to the observer are cancelled with it; an answer is Stop, or a stutter  *)
(* when it settles nothing.                                                *)
(***************************************************************************)
\* Every step of the queue is a step of the timers or leaves them as they are.
LEMMA StepSimulation ==
  Inv /\ Inv' /\ [Next]_vars => [Timers!Next]_TimersOf
<1> SUFFICES ASSUME Inv, Inv', [Next]_vars PROVE [Timers!Next]_TimersOf
  OBVIOUS
<1>1. /\ elapsed \in Nat /\ elapsed' \in Nat
      /\ queue \in Seq(Node) /\ queue' \in Seq(Node)
      /\ WellFormed(queue) /\ WellFormed(queue')
  BY DEF Inv, TypeOK
<1>2. View(TimersOf, queue, elapsed) /\ View(TimersOf', queue', elapsed')
  BY Views
<1>3. ASSUME UNCHANGED <<queue, elapsed>> PROVE [Timers!Next]_TimersOf
  BY <1>3 DEF TimersOf, Queued
<1>4. CASE Tick
  <2>1. queue' = queue /\ elapsed' = elapsed + 1
    BY <1>4 DEF Tick
  <2>2. DOMAIN TimersOf' = DOMAIN TimersOf
    BY <1>2, <2>1 DEF View
  <2>3. ASSUME NEW n \in DOMAIN TimersOf
        PROVE  TimersOf'[n] = [TimersOf[n] EXCEPT !.left = @ - 1]
    <3>1. PICK i \in 1 .. Len(queue) :
            /\ queue[i].msg = n
            /\ TimersOf[n] = [left |-> Offset(queue, i) - elapsed,
                              timeout |-> queue[i].timeout, cnt |-> queue[i].cnt]
      BY <1>2, ViewAt
    <3>2. TimersOf'[queue[i].msg] = [left |-> Offset(queue, i) - (elapsed + 1),
                                     timeout |-> queue[i].timeout, cnt |-> queue[i].cnt]
      BY <1>2, <2>1 DEF View
    <3>3. Offset(queue, i) \in Nat
      BY <1>1, OffsetType
    <3>4. Offset(queue, i) - (elapsed + 1) = (Offset(queue, i) - elapsed) - 1
      BY <1>1, <3>3
    <3> QED BY <3>1, <3>2, <3>4
  <2>4. Timers!Tick
    BY <2>2, <2>3 DEF Timers!Tick, Timers!Outstanding
  <2> QED BY <2>4 DEF Timers!Next
<1>5. ASSUME NEW m \in Msgs, SendConfirmed(m) PROVE [Timers!Next]_TimersOf
  <2>1. /\ \A i \in 1 .. Len(queue) : queue[i].msg # m
        /\ queue # <<>> => elapsed' = elapsed
    BY <1>5, SendStep
  <2>2. PICK node \in Node, p \in 0 .. Len(queue) :
          /\ node.msg = m /\ node.cnt = 0 /\ node.t = node.timeout + elapsed'
          /\ Inserted(queue, p, node, queue')
    BY <1>5, SendStep
  <2>3. View(TimersOf, queue, elapsed')
    <3>1. CASE queue # <<>>
      BY <1>2, <2>1, <3>1
    <3>2. CASE queue = <<>>
      BY <1>2, <3>2 DEF View
    <3> QED BY <3>1, <3>2
  <2>4. PICK now : now = elapsed' /\ View(TimersOf, queue, now) /\ View(TimersOf', queue', now)
    BY <1>2, <2>3
  <2>5. \A i \in 1 .. Len(queue) : queue[i].msg # node.msg
    BY <2>1, <2>2
  <2>6. /\ DOMAIN TimersOf' = DOMAIN TimersOf \cup {node.msg}
        /\ \A n \in DOMAIN TimersOf : TimersOf'[n] = TimersOf[n]
        /\ TimersOf'[node.msg] = [left |-> node.t - now, timeout |-> node.timeout,
                                  cnt |-> node.cnt]
    <3>1. SetTimer(TimersOf, TimersOf', node, now)
      BY <1>1, <2>2, <2>4, <2>5, InsertedStarts
    <3> QED BY <3>1 DEF SetTimer
  <2>7. m \notin DOMAIN TimersOf
    BY <1>2, <2>1 DEF View, MsgsOf
  <2>8. TimersOf'[m].cnt = 0 /\ TimersOf'[m].left = TimersOf'[m].timeout
    <3>1. /\ TimersOf'[m].cnt = node.cnt /\ TimersOf'[m].left = node.t - now
          /\ TimersOf'[m].timeout = node.timeout
      BY <2>2, <2>6
    <3>2. node.timeout \in Nat
      BY DEF Node
    <3> QED BY <1>1, <2>2, <2>4, <3>1, <3>2
  <2>9. Timers!Start(m)
    BY <2>2, <2>6, <2>7, <2>8 DEF Timers!Start, Timers!Others, Timers!Outstanding
  <2> QED BY <2>9 DEF Timers!Next
<1>6. ASSUME NEW m \in Msgs, SendRefused(m) PROVE [Timers!Next]_TimersOf
  BY <1>3, <1>6 DEF SendRefused
<1>7. CASE Retransmit
  <2>1. /\ queue # <<>> /\ queue[1].cnt < MaxRetransmit /\ queue[1].t <= elapsed
        /\ elapsed' = elapsed
    BY <1>7, RetransmitStep DEF Retransmit
  <2>2. PICK rest : rest = CoapPopNext(queue)
    OBVIOUS
  <2>3. PICK node \in Node, p \in 0 .. Len(rest) :
          /\ node.msg = queue[1].msg
          /\ node.timeout = queue[1].timeout /\ node.cnt = queue[1].cnt + 1
          /\ node.t = node.timeout * PowerOfTwo[node.cnt]
          /\ Inserted(rest, p, node, queue')
    BY <1>7, <2>2, RetransmitStep
  <2>4. PICK m \in Msgs : m = queue[1].msg
    BY <2>3 DEF Node
  <2>5. Reduced(queue, rest, {m}) /\ 1 \in 1 .. Len(queue)
    BY <1>1, <2>1, <2>2, <2>4, PopReduces
  <2>6. /\ WellFormed(rest) /\ rest \in Seq(Node)
        /\ \A j \in 1 .. Len(rest) : rest[j].msg # node.msg
    BY <2>3, <2>4, <2>5 DEF Reduced, Alike, WellFormed
  <2>7. PICK R : R = TimersIn(rest, elapsed) /\ View(R, rest, elapsed)
    BY <2>6, ViewOf
  <2>8. /\ DOMAIN R = DOMAIN TimersOf \ {m}
        /\ \A n \in DOMAIN R : R[n] = TimersOf[n]
    <3>1. StoppedTimer(TimersOf, R, queue[1].msg)
      BY <1>1, <1>2, <2>1, <2>2, <2>7, PoppedStops
    <3> QED BY <2>4, <3>1 DEF StoppedTimer
  <2>9. /\ DOMAIN TimersOf' = DOMAIN R \cup {m}
        /\ \A n \in DOMAIN R : TimersOf'[n] = R[n]
        /\ TimersOf'[m] = [left |-> node.t - elapsed, timeout |-> node.timeout,
                           cnt |-> node.cnt]
    <3>1. View(TimersOf', queue', elapsed)
      BY <1>2, <2>1
    <3>2. SetTimer(R, TimersOf', node, elapsed)
      BY <1>1, <2>3, <2>6, <2>7, <3>1, InsertedStarts
    <3> QED BY <2>3, <2>4, <3>2 DEF SetTimer
  <2>10. /\ m \in DOMAIN TimersOf /\ TimersOf[m].left <= 0
         /\ \A n \in DOMAIN TimersOf : TimersOf[m].left <= TimersOf[n].left
    BY <1>1, <1>2, <2>1, <2>4, HeadEarliest
  <2>11. TimersOf[m].timeout = queue[1].timeout /\ TimersOf[m].cnt = queue[1].cnt
    <3>1. TimersOf[m] = [left |-> Offset(queue, 1) - elapsed, timeout |-> queue[1].timeout,
                         cnt |-> queue[1].cnt]
      BY <1>2, <2>4, <2>5 DEF View
    <3> QED BY <3>1
  <2>12. /\ TimersOf'[m].left = node.t - elapsed /\ TimersOf'[m].timeout = node.timeout
         /\ TimersOf'[m].cnt = node.cnt
    BY <2>9
  <2>13. TimersOf'[m].left <= TimersOf[m].timeout * PowerOfTwo[TimersOf'[m].cnt]
    <3>1. node.t \in Nat
      BY DEF Node
    <3>2. node.t - elapsed <= node.t
      BY <1>1, <3>1
    <3> QED BY <2>3, <2>11, <2>12, <3>2
  <2>14. Timers!PowerOfTwo = PowerOfTwo
    BY DEF PowerOfTwo, Timers!PowerOfTwo
  <2>15. Timers!Fire(m)
    <3>1. Timers!Earliest(m)
      BY <2>10 DEF Timers!Earliest, Timers!Outstanding
    <3>2. Timers!Others(m)
      BY <2>8, <2>9 DEF Timers!Others, Timers!Outstanding
    <3>3. DOMAIN TimersOf' = DOMAIN TimersOf
      BY <2>8, <2>9, <2>10
    <3>4. /\ TimersOf[m].cnt < MaxRetransmit
          /\ TimersOf'[m].timeout = TimersOf[m].timeout
          /\ TimersOf'[m].cnt = TimersOf[m].cnt + 1
      BY <2>1, <2>3, <2>11, <2>12
    <3> QED BY <2>13, <2>14, <3>1, <3>2, <3>3, <3>4 DEF Timers!Fire, Timers!Outstanding
  <2> QED BY <2>15 DEF Timers!Next
<1>8. ASSUME NEW ms, Reduced(queue, queue', ms), elapsed' = elapsed,
             \E i \in 1 .. Len(queue) : queue[i].msg \in ms
      PROVE  [Timers!Next]_TimersOf
  <2>1. View(TimersOf', queue', elapsed) /\ elapsed \in Int
    BY <1>1, <1>2, <1>8
  <2>2. /\ DOMAIN TimersOf' \in (SUBSET DOMAIN TimersOf) \ {DOMAIN TimersOf}
        /\ \A n \in DOMAIN TimersOf' : /\ TimersOf'[n].timeout = TimersOf[n].timeout
                                       /\ TimersOf'[n].cnt = TimersOf[n].cnt
                                       /\ TimersOf'[n].left <= TimersOf[n].left
    BY ONLY <1>1, <1>2, <1>8, <2>1, ReducedStops
  <2>3. Timers!Stop
    BY <2>2 DEF Timers!Stop, Timers!Outstanding
  <2> QED BY <2>3 DEF Timers!Next
<1>9. CASE GiveUp
  <2>1. /\ queue # <<>> /\ queue[1].t <= elapsed /\ queue[1].cnt = MaxRetransmit
        /\ elapsed' = elapsed
    BY <1>9, GiveUpStep DEF GiveUp
  <2>2. 1 \in 1 .. Len(queue) /\ queue[1] \in Node
    BY <1>1, <2>1, PopReduces
  <2>3. CASE queue' = CoapPopNext(queue)
    <3>1. PICK m \in Msgs : m = queue[1].msg
      BY <2>2 DEF Node
    <3>2. View(TimersOf', queue', elapsed)
      BY <1>2, <2>1
    <3>3. /\ DOMAIN TimersOf' = DOMAIN TimersOf \ {m}
          /\ \A n \in DOMAIN TimersOf' : TimersOf'[n] = TimersOf[n]
      <4>1. StoppedTimer(TimersOf, TimersOf', queue[1].msg)
        BY <1>1, <1>2, <2>1, <2>3, <3>2, PoppedStops
      <4> QED BY <3>1, <4>1 DEF StoppedTimer
    <3>4. /\ m \in DOMAIN TimersOf /\ TimersOf[m].left <= 0
          /\ \A n \in DOMAIN TimersOf : TimersOf[m].left <= TimersOf[n].left
      BY <1>1, <1>2, <2>1, <3>1, HeadEarliest
    <3>5. TimersOf[m].cnt = MaxRetransmit
      <4>1. TimersOf[m] = [left |-> Offset(queue, 1) - elapsed,
                           timeout |-> queue[1].timeout, cnt |-> queue[1].cnt]
        BY <1>2, <2>2, <3>1 DEF View
      <4> QED BY <2>1, <4>1
    <3>6. Timers!Expire(m)
      BY <3>3, <3>4, <3>5
      DEF Timers!Expire, Timers!Earliest, Timers!Others, Timers!Outstanding
    <3> QED BY <3>6 DEF Timers!Next
  <2>4. CASE \E ms : queue[1].msg \in ms /\ Reduced(queue, queue', ms)
    BY <1>8, <2>1, <2>2, <2>4
  <2> QED BY <1>9, <2>3, <2>4, GiveUpStep
<1>10. ASSUME NEW m \in Msgs, Acked(m) \/ Responded(m) \/ Reset(m)
       PROVE  [Timers!Next]_TimersOf
  <2>1. elapsed' = elapsed
    BY <1>10 DEF Acked, Responded, Reset
  <2>2. PICK ms : /\ Reduced(queue, queue', ms)
                  /\ queue' = queue \/ \E i \in 1 .. Len(queue) : queue[i].msg \in ms
    BY <1>10, AnswerStep
  <2> QED BY <1>3, <1>8, <2>1, <2>2
<1>11. CASE UNCHANGED vars
  BY <1>3, <1>11 DEF vars
<1> QED BY <1>4, <1>5, <1>6, <1>7, <1>9, <1>10, <1>11 DEF Next

\* The list of relative times implements a set of timers: the earliest is
\* served first, and none is put off by what happens to the others.
THEOREM ImplementsTimersCorrect == Spec => ImplementsTimers
<1>1. Init => Timers!Init
  <2> SUFFICES ASSUME Init PROVE Timers!Init
    OBVIOUS
  <2>1. queue = <<>> /\ Queued = {}
    BY DEF Init, Queued
  <2>2. DOMAIN TimersOf = {}
    BY <2>1 DEF TimersOf
  <2>3. TimersOf = <<>>
    BY <2>1 DEF TimersOf
  <2> QED BY <2>3 DEF Timers!Init
<1> QED
  BY <1>1, Invariant, StepSimulation, PTL DEF Spec, ImplementsTimers, Timers!Spec
=============================================================================
