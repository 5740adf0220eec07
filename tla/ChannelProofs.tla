---------------------------- MODULE ChannelProofs ----------------------------
(***************************************************************************)
(* Proofs about Channel, for any subscribers, topics, tokens and packets.  *)
(***************************************************************************)
EXTENDS Channel, FiniteSetTheorems, SequenceTheorems, TLAPS

(***************************************************************************)
(* The invariant, part by part.                                            *)
(***************************************************************************)
Phases == {"new", "starting", "running", "ended", "closing", "released"}

\* Until the loop ends.
Up == phase \in {"new", "starting", "running"}

Packaged ==
  /\ DOMAIN packets \subseteq Tokens /\ Range(packets) \subseteq Packets
  /\ heap \in [Packets -> {"none", "allocated", "freed"}]
  /\ lost \subseteq Packets
  /\ \A p \in lost : heap[p] # "none"

\* Every allocated packet has an entry or lost it.
Kept == \A p \in Packets : heap[p] = "allocated" =>
          p \in lost \/ \E token \in DOMAIN packets : packets[token] = p

Queues ==
  /\ commands \in Seq(Command)
  /\ arrived \in Seq(Topics) /\ Len(arrived) <= MaxArrivals
  /\ heard \in [Subs -> Seq(Numbers)]
  /\ declined \in [Subs -> SUBSET Numbers]

Tables ==
  /\ phase \in Phases
  /\ broker \subseteq Topics /\ DOMAIN topics \subseteq broker
  /\ held = [s \in Subs |-> held[s]]
  /\ \A s \in Subs : DOMAIN held[s] \subseteq Wants[s]
  /\ \A t \in DOMAIN topics :
       /\ topics[t].token \in 1 .. Cardinality(Subs)
       /\ DOMAIN topics[t].subs \subseteq 0 .. topics[t].token - 1
       /\ Range(topics[t].subs) \subseteq Subs

\* The Subscribers that have entered themselves for a topic.
Members(t) == {s \in Subs : t \in DOMAIN held[s]}

\* While nobody leaves, the table of a topic holds its members, each once,
\* under the tokens 0, 1, ...
Complete ==
  Up => \A t \in Topics :
    /\ t \in DOMAIN topics <=> Members(t) # {}
    /\ t \in DOMAIN topics =>
         /\ topics[t].token = Cardinality(Members(t))
         /\ DOMAIN topics[t].subs = 0 .. topics[t].token - 1
         /\ Range(topics[t].subs) = Members(t)
         /\ \A k, l \in DOMAIN topics[t].subs :
              topics[t].subs[k] = topics[t].subs[l] => k = l

Everyone == phase = "running" => \A s \in Subs : DOMAIN held[s] = Wants[s]

OnlyReceived ==
  phase \in {"new", "starting"} =>
    /\ heard = [s \in Subs |-> <<>>] /\ declined = [s \in Subs |-> {}]
    /\ \A i \in 1 .. Len(commands) : commands[i].kind # "parsed"

\* Commands are about messages that arrived.
Known == \A i \in 1 .. Len(commands) :
  commands[i].kind \in {"receive", "parsed"} => commands[i].number \in 1 .. Len(arrived)

\* Messages are executed in order: each kind of command is in order, a message
\* that is parsed comes before those that are not, and both come after what was
\* executed.
ReceivedInOrder == \A i, j \in 1 .. Len(commands) :
  commands[i].kind = "receive" /\ commands[j].kind = "receive" /\ i < j
    => commands[i].number < commands[j].number
ParsedFirst == \A i, j \in 1 .. Len(commands) :
  commands[i].kind = "parsed" /\ commands[j].kind = "receive"
    => commands[i].number < commands[j].number
ParsedInOrder == \A i, j \in 1 .. Len(commands) :
  commands[i].kind = "parsed" /\ commands[j].kind = "parsed" /\ i < j
    /\ commands[i].who = commands[j].who
    => commands[i].number < commands[j].number

MineAt(s, i) == Mine(s, commands[i])
HeardFirst == \A s \in Subs : \A h \in 1 .. Len(heard[s]), i \in 1 .. Len(commands) :
  MineAt(s, i) => heard[s][h] < commands[i].number
HeardInOrder == \A s \in Subs : \A h, k \in 1 .. Len(heard[s]) :
  h < k => heard[s][h] < heard[s][k]

Ordered == Up => /\ Known /\ ReceivedInOrder /\ ParsedFirst /\ ParsedInOrder
                 /\ HeardFirst /\ HeardInOrder

\* What a subscriber turned down it has neither in the queue nor executed.
Apart == Up => \A s \in Subs : \A n \in declined[s] :
  /\ \A i \in 1 .. Len(commands) : MineAt(s, i) => commands[i].number # n
  /\ \A h \in 1 .. Len(heard[s]) : heard[s][h] # n

\* A message of a subscriber's topics was executed, is in the queue or was
\* turned down.
Somewhere(s, n) == \/ n \in declined[s]
                   \/ \E h \in 1 .. Len(heard[s]) : heard[s][h] = n
                   \/ \E i \in 1 .. Len(commands) : MineAt(s, i) /\ commands[i].number = n
Whole == Up => \A s \in Subs : \A n :
  Somewhere(s, n) <=> n \in 1 .. Len(arrived) /\ arrived[n] \in Wants[s]

\* No packet is published before the connection.
Unused == phase = "new" => DOMAIN packets = {}

PacketInv == Packaged /\ Kept /\ Unused /\ PacketsAccounted
TableInv == Tables /\ Complete /\ Everyone
QueueInv == Queues /\ OnlyReceived /\ Ordered /\ Apart /\ Whole

(***************************************************************************)
(* The published packets.  No other part of the state matters to them.     *)
(***************************************************************************)
LEMMA PacketInit == Init => PacketInv
BY DEF Init, PacketInv, Packaged, Kept, Unused, PacketsAccounted, None, Range

\* A packet enters the table; the one that had its token loses its entry.
LEMMA PublishStep ==
  ASSUME PacketInv, NEW p \in Packets, Publish(p)
  PROVE  PacketInv'
<1> USE DEF PacketInv, Packaged, Range
<1>1. PICK token \in Tokens :
        /\ packets' = Put(packets, token, p)
        /\ lost' = lost \cup (IF token \in DOMAIN packets THEN {packets[token]} ELSE {})
  BY DEF Publish
<1>2. /\ phase = "running" /\ phase' = phase /\ heap[p] = "none"
      /\ heap' = [heap EXCEPT ![p] = "allocated"]
  BY DEF Publish
<1>3. /\ DOMAIN packets' = DOMAIN packets \cup {token}
      /\ packets'[token] = p
      /\ \A x \in DOMAIN packets \ {token} : packets'[x] = packets[x]
  BY <1>1 DEF Put
<1>4. \A x \in DOMAIN packets : heap[packets[x]] = "allocated" /\ packets[x] # p
  BY <1>2 DEF PacketsAccounted
<1>5. /\ heap' \in [Packets -> {"none", "allocated", "freed"}]
      /\ heap'[p] = "allocated"
      /\ \A q \in Packets \ {p} : heap'[q] = heap[q]
  BY <1>2
<1>6. Packaged'
  <2>1. DOMAIN packets' \subseteq Tokens /\ Range(packets') \subseteq Packets
    BY <1>3
  <2>2. ASSUME NEW q \in lost' PROVE q \in Packets /\ heap'[q] # "none"
    <3>1. q \in lost \/ (token \in DOMAIN packets /\ q = packets[token])
      BY <1>1
    <3>2. q \in Packets /\ heap[q] # "none"
      BY <3>1, <1>4
    <3> QED BY <3>2, <1>2, <1>5
  <2> QED BY <2>1, <2>2, <1>5
<1>7. p \notin lost'
  <2>1. p \notin lost
    BY <1>2
  <2> QED BY <2>1, <1>1, <1>4
<1>8. Kept'
  <2> SUFFICES ASSUME NEW q \in Packets, heap'[q] = "allocated", q \notin lost'
               PROVE  \E x \in DOMAIN packets' : packets'[x] = q
    BY DEF Kept
  <2>1. CASE q = p
    BY <2>1, <1>3
  <2>2. CASE q # p
    <3>1. PICK x \in DOMAIN packets : packets[x] = q
      BY <2>2, <1>1, <1>5 DEF Kept
    <3>2. x # token
      BY <3>1, <1>1
    <3> QED BY <3>1, <3>2, <1>3
  <2> QED BY <2>1, <2>2
<1>9. PacketsAccounted' /\ Unused'
  <2> SUFFICES ASSUME NEW x \in DOMAIN packets'
               PROVE  /\ heap'[packets'[x]] = "allocated"
                      /\ packets'[x] \notin lost'
                      /\ \A y \in DOMAIN packets' \ {x} : packets'[y] # packets'[x]
    BY <1>2 DEF PacketsAccounted, Unused
  <2>1. CASE x = token
    BY <2>1, <1>3, <1>4, <1>5, <1>7
  <2>2. CASE x # token
    <3>1. x \in DOMAIN packets /\ packets'[x] = packets[x] /\ packets[x] \in Packets
      BY <2>2, <1>3
    <3>2. packets[x] \notin lost'
      BY <2>2, <3>1, <1>1 DEF PacketsAccounted
    <3> QED BY <3>1, <3>2, <1>3, <1>4, <1>5 DEF PacketsAccounted
  <2> QED BY <2>1, <2>2
<1> QED BY <1>6, <1>8, <1>9

\* A reported delivery deletes the packet under its token and no other.
LEMMA DeliveryStep ==
  ASSUME PacketInv, ExecuteDelivery
  PROVE  PacketInv'
<1> USE DEF PacketInv, Packaged, Range
<1> DEFINE token == Head(commands).token
<1>1. phase = "running" /\ phase' = phase /\ lost' = lost
  BY DEF ExecuteDelivery, Executes
<1>2. CASE token \notin DOMAIN packets
  <2>1. packets' = packets /\ heap' = heap
    BY <1>2 DEF ExecuteDelivery
  <2> QED BY <1>1, <2>1 DEF Kept, Unused, PacketsAccounted
<1>3. CASE token \in DOMAIN packets
  <2> HIDE DEF token
  <2>1. heap' = [heap EXCEPT ![packets[token]] = "freed"] /\ packets' = Drop(packets, token)
    BY <1>3 DEF ExecuteDelivery, token
  <2>2. /\ DOMAIN packets' = DOMAIN packets \ {token}
        /\ \A x \in DOMAIN packets' : packets'[x] = packets[x]
    BY <2>1 DEF Drop
  <2>3. packets[token] \in Packets
    BY <1>3
  <2>4. /\ heap' \in [Packets -> {"none", "allocated", "freed"}]
        /\ heap'[packets[token]] = "freed"
        /\ \A q \in Packets \ {packets[token]} : heap'[q] = heap[q]
    BY <2>1, <2>3
  <2>5. \A x \in DOMAIN packets' : packets'[x] # packets[token] /\ packets'[x] \in Packets
    BY <1>3, <2>2 DEF PacketsAccounted
  <2>6. Packaged'
    BY <1>1, <2>2, <2>4, <2>3
  <2>7. Kept'
    <3> SUFFICES ASSUME NEW q \in Packets, heap'[q] = "allocated", q \notin lost
                 PROVE  \E x \in DOMAIN packets' : packets'[x] = q
      BY <1>1 DEF Kept
    <3>1. q # packets[token] /\ heap[q] = "allocated"
      BY <2>4
    <3>2. PICK x \in DOMAIN packets : packets[x] = q
      BY <3>1 DEF Kept
    <3> QED BY <3>1, <3>2, <2>2
  <2>8. PacketsAccounted' /\ Unused'
    BY <1>1, <2>2, <2>4, <2>5 DEF PacketsAccounted, Unused
  <2> QED BY <2>6, <2>7, <2>8
<1> QED BY <1>2, <1>3

\* Release deletes what has an entry; what is left lost it.
LEMMA ReleaseStep ==
  ASSUME PacketInv, Release
  PROVE  PacketInv'
<1> USE DEF PacketInv, Packaged, Range
<1>1. /\ phase' = "released" /\ DOMAIN packets' = {} /\ lost' = lost
      /\ heap' = [p \in Packets |-> IF p \in Range(packets) THEN "freed" ELSE heap[p]]
  BY DEF Release, None
<1>2. Packaged'
  BY <1>1
<1>3. \A p \in Packets : heap'[p] = "allocated" => p \in lost
  BY <1>1 DEF Kept
<1> QED BY <1>1, <1>2, <1>3 DEF Kept, Unused, PacketsAccounted

LEMMA PublishFailsStep ==
  ASSUME PacketInv, NEW p \in Packets, PublishFails(p)
  PROVE  PacketInv'
<1> USE DEF PacketInv, Packaged, Range
<1>1. /\ phase = "running" /\ phase' = phase /\ heap[p] = "none"
      /\ packets' = packets /\ lost' = lost
      /\ heap' \in [Packets -> {"none", "allocated", "freed"}]
      /\ heap'[p] = "freed"
      /\ \A q \in Packets \ {p} : heap'[q] = heap[q]
  BY DEF PublishFails
<1> QED BY <1>1 DEF Kept, Unused, PacketsAccounted

\* All other actions leave the packets as they are and do not release.
LEMMA OtherPacketStep ==
  ASSUME PacketInv, UNCHANGED memory,
         phase' = phase \/ phase' \notin {"new", "released"}
           \/ (phase = "new" /\ phase' = "released")
  PROVE  PacketInv'
<1>1. packets' = packets /\ heap' = heap /\ lost' = lost
  BY DEF memory
<1> QED BY <1>1 DEF PacketInv, Packaged, Range, Kept, Unused, PacketsAccounted

LEMMA PacketStep == PacketInv /\ [Next]_vars => PacketInv'
<1> SUFFICES ASSUME PacketInv, [Next]_vars PROVE PacketInv'
  OBVIOUS
<1>1. CASE Connect \/ ConnectFails \/ SubscribeFails \/ Run
  BY <1>1, OtherPacketStep DEF Connect, ConnectFails, SubscribeFails, Run
<1>2. CASE \E s \in Subs, t \in Topics : Subscribe(s, t) \/ Unsubscribe(s, t)
  BY <1>2, OtherPacketStep DEF Subscribe, Unsubscribe
<1>3. CASE \E t \in Topics : Arrive(t)
  BY <1>3, OtherPacketStep DEF Arrive
<1>4. CASE \E token \in Tokens : DeliveryComplete(token)
  BY <1>4, OtherPacketStep DEF DeliveryComplete
<1>5. CASE ExecuteReceive \/ ExecuteParsed
  BY <1>5, OtherPacketStep DEF ExecuteReceive, ExecuteParsed
<1>6. CASE ExecuteDelivery
  BY <1>6, DeliveryStep
<1>7. CASE \E p \in Packets : Publish(p) \/ PublishFails(p)
  BY <1>7, PublishStep, PublishFailsStep
<1>8. CASE Exit \/ ServiceReleased
  BY <1>8, OtherPacketStep DEF Exit, ServiceReleased
<1>9. CASE Release
  BY <1>9, ReleaseStep
<1>10. CASE UNCHANGED vars
  BY <1>10, OtherPacketStep DEF vars
<1> QED
  BY <1>1, <1>2, <1>3, <1>4, <1>5, <1>6, <1>7, <1>8, <1>9, <1>10 DEF Next

LEMMA PacketInvariant == Spec => []PacketInv
BY PacketInit, PacketStep, PTL DEF Spec

\* Whatever delivery tokens the library returns and reports: no packet is
\* deleted twice, and only those that lost their entry are left in the end.
THEOREM PacketsAccountedCorrect == Spec => []PacketsAccounted
<1>1. PacketInv => PacketsAccounted
  BY DEF PacketInv
<1> QED BY PacketInvariant, <1>1, PTL

(***************************************************************************)
(* The topic tables.                                                       *)
(***************************************************************************)
LEMMA TableInit == Init => TableInv
<1> SUFFICES ASSUME Init PROVE TableInv
  OBVIOUS
<1>1. /\ phase = "new" /\ broker = {} /\ DOMAIN topics = {}
      /\ held = [s \in Subs |-> None] /\ DOMAIN None = {}
  BY DEF Init, None
<1>2. \A t \in Topics : Members(t) = {}
  BY <1>1 DEF Members
<1> QED BY <1>1, <1>2 DEF TableInv, Tables, Complete, Everyone, Phases

\* A topic's entry, whether it is in the table yet or not.
Entry(t) == IF t \in DOMAIN topics THEN topics[t] ELSE NoTopic

LEMMA EntryComplete ==
  ASSUME TableInv, Up, NEW t \in Topics
  PROVE  /\ Entry(t).token = Cardinality(Members(t))
         /\ DOMAIN Entry(t).subs = 0 .. Entry(t).token - 1
         /\ Range(Entry(t).subs) = Members(t)
         /\ \A k, l \in DOMAIN Entry(t).subs :
              Entry(t).subs[k] = Entry(t).subs[l] => k = l
<1>1. CASE t \in DOMAIN topics
  BY <1>1 DEF Entry, TableInv, Complete
<1>2. CASE t \notin DOMAIN topics
  <2>1. Entry(t).token = 0 /\ Entry(t).subs = <<>>
    BY <1>2 DEF Entry, NoTopic, None
  <2>2. Members(t) = {}
    BY <1>2 DEF TableInv, Complete
  <2> QED BY <2>1, <2>2, FS_EmptySet DEF Range
<1> QED BY <1>1, <1>2

LEMMA MembersFinite ==
  ASSUME NEW t
  PROVE  /\ IsFiniteSet(Members(t)) /\ Cardinality(Members(t)) \in Nat
         /\ Cardinality(Members(t)) <= Cardinality(Subs)
         /\ Cardinality(Subs) \in Nat
<1>1. Members(t) \subseteq Subs
  BY DEF Members
<1> QED BY <1>1, ChannelAssumption, FS_Subset, FS_CardinalityType

\* Subscriber::subscribe keeps every table complete.
LEMMA SubscribeStep ==
  ASSUME TableInv, NEW s \in Subs, NEW t \in Topics, Subscribe(s, t)
  PROVE  TableInv'
<1> DEFINE new == Entered(Entry(t), s)
<1>1. /\ phase = "starting" /\ phase' = phase /\ Up /\ Up'
      /\ t \in Wants[s] /\ t \notin DOMAIN held[s]
      /\ broker' = broker \cup (IF t \in DOMAIN topics THEN {} ELSE {t})
      /\ topics' = Put(topics, t, new)
      /\ held' = [held EXCEPT ![s] = Put(@, t, new.token)]
  BY DEF Subscribe, Entry, Up
<1>2. Tables /\ held = [x \in Subs |-> held[x]]
  BY DEF TableInv, Tables
<1>3. /\ held' = [x \in Subs |-> held'[x]]
      /\ DOMAIN held'[s] = DOMAIN held[s] \cup {t}
      /\ \A x \in Subs \ {s} : held'[x] = held[x]
  BY <1>1, <1>2 DEF Put
<1>4. /\ Members(t)' = Members(t) \cup {s} /\ s \notin Members(t)
      /\ \A x \in Topics \ {t} : Members(x)' = Members(x)
  BY <1>1, <1>3 DEF Members
<1>5. /\ Cardinality(Members(t)') = Cardinality(Members(t)) + 1
      /\ Cardinality(Members(t)') <= Cardinality(Subs) /\ Cardinality(Members(t)') \in Nat
      /\ Cardinality(Members(t)) \in Nat /\ Cardinality(Subs) \in Nat
  <2>1. Members(t)' \subseteq Subs
    BY DEF Members
  <2>2. Cardinality(Members(t)') <= Cardinality(Subs) /\ Cardinality(Members(t)') \in Nat
    BY <2>1, ChannelAssumption, FS_Subset, FS_CardinalityType
  <2> QED BY <2>2, <1>4, MembersFinite, FS_AddElement
<1> DEFINE old == Entry(t)
<1>6. /\ old.token = Cardinality(Members(t)) /\ DOMAIN old.subs = 0 .. old.token - 1
      /\ Range(old.subs) = Members(t)
      /\ \A k, l \in DOMAIN old.subs : old.subs[k] = old.subs[l] => k = l
  BY <1>1, EntryComplete
<1>7. new.token = old.token + 1 /\ new.subs = Put(old.subs, old.token, s)
  BY DEF Entered
<1> HIDE DEF old, new
<1>8. /\ DOMAIN new.subs = 0 .. new.token - 1
      /\ new.subs[old.token] = s
      /\ \A k \in DOMAIN old.subs : new.subs[k] = old.subs[k] /\ k # old.token
      /\ DOMAIN new.subs = DOMAIN old.subs \cup {old.token}
  BY <1>5, <1>6, <1>7 DEF Put
<1>9. Range(new.subs) = Members(t)'
  <2>1. ASSUME NEW k \in DOMAIN new.subs PROVE new.subs[k] \in Members(t) \cup {s}
    <3>1. CASE k = old.token
      BY <3>1, <1>8
    <3>2. CASE k \in DOMAIN old.subs
      BY <3>2, <1>6, <1>8 DEF Range
    <3> QED BY <3>1, <3>2, <1>8
  <2>2. ASSUME NEW x \in Members(t) PROVE x \in Range(new.subs)
    <3>1. PICK k \in DOMAIN old.subs : old.subs[k] = x
      BY <1>6 DEF Range
    <3> QED BY <3>1, <1>8 DEF Range
  <2>3. s \in Range(new.subs)
    BY <1>8 DEF Range
  <2> QED BY <2>1, <2>2, <2>3, <1>4 DEF Range
<1>10. \A k, l \in DOMAIN new.subs : new.subs[k] = new.subs[l] => k = l
  <2>1. \A k \in DOMAIN old.subs : new.subs[k] # s
    BY <1>4, <1>6, <1>8 DEF Range
  <2> QED BY <2>1, <1>6, <1>8
<1>11. /\ DOMAIN topics' = DOMAIN topics \cup {t} /\ topics'[t] = new
       /\ \A x \in DOMAIN topics \ {t} : topics'[x] = topics[x]
  BY <1>1 DEF Put
<1>12. Tables'
  <2>1. broker' \subseteq Topics /\ DOMAIN topics' \subseteq broker'
    BY <1>1, <1>2, <1>11 DEF Tables
  <2>2. \A x \in Subs : DOMAIN held'[x] \subseteq Wants[x]
    BY <1>1, <1>2, <1>3 DEF Tables
  <2>3. ASSUME NEW x \in DOMAIN topics'
        PROVE  /\ topics'[x].token \in 1 .. Cardinality(Subs)
               /\ DOMAIN topics'[x].subs \subseteq 0 .. topics'[x].token - 1
               /\ Range(topics'[x].subs) \subseteq Subs
    <3>1. CASE x = t
      <4>1. Range(new.subs) \subseteq Subs
        BY <1>9 DEF Members
      <4> QED BY <3>1, <4>1, <1>5, <1>6, <1>7, <1>8, <1>11
    <3>2. CASE x # t
      BY <3>2, <1>2, <1>11 DEF Tables
    <3> QED BY <3>1, <3>2
  <2> QED BY <2>1, <2>2, <2>3, <1>1, <1>2, <1>3 DEF Tables
<1>13. Complete'
  <2> SUFFICES ASSUME NEW x \in Topics
      PROVE /\ x \in DOMAIN topics' <=> Members(x)' # {}
            /\ x \in DOMAIN topics' =>
                 /\ topics'[x].token = Cardinality(Members(x)')
                 /\ DOMAIN topics'[x].subs = 0 .. topics'[x].token - 1
                 /\ Range(topics'[x].subs) = Members(x)'
                 /\ \A k, l \in DOMAIN topics'[x].subs :
                      topics'[x].subs[k] = topics'[x].subs[l] => k = l
    BY DEF Complete
  <2>1. CASE x = t
    BY <2>1, <1>4, <1>5, <1>6, <1>7, <1>8, <1>9, <1>10, <1>11
  <2>2. CASE x # t
    <3>1. Members(x)' = Members(x)
      BY <2>2, <1>4
    <3>2. x \in DOMAIN topics' <=> x \in DOMAIN topics
      BY <2>2, <1>11
    <3>3. x \in DOMAIN topics => topics'[x] = topics[x]
      BY <2>2, <1>11
    <3> QED BY <3>1, <3>2, <3>3, <1>1 DEF TableInv, Complete
  <2> QED BY <2>1, <2>2
<1>14. Everyone'
  BY <1>1 DEF Everyone
<1> QED BY <1>12, <1>13, <1>14 DEF TableInv

\* Unsubscribing only takes entries out.
LEMMA UnsubscribeStep ==
  ASSUME TableInv, NEW s \in Subs, NEW t \in Topics, Unsubscribe(s, t)
  PROVE  TableInv'
<1>1. /\ phase = "ended" /\ phase' = phase /\ ~Up' /\ broker' = broker
      /\ held' = [held EXCEPT ![s] = Drop(@, t)]
  BY DEF Unsubscribe, Up
<1>2. Tables /\ held = [x \in Subs |-> held[x]]
  BY DEF TableInv, Tables
<1>3. /\ held' = [x \in Subs |-> held'[x]]
      /\ \A x \in Subs : DOMAIN held'[x] \subseteq DOMAIN held[x]
  BY <1>1, <1>2 DEF Drop
<1> DEFINE new == Unsubscribed(topics[t], held[s][t])
<1>4. /\ DOMAIN topics' \subseteq DOMAIN topics
      /\ \A x \in DOMAIN topics' : topics'[x] = topics[x] \/ (x = t /\ topics'[x] = new)
  <2>1. CASE t \notin DOMAIN topics
    BY <2>1 DEF Unsubscribe
  <2>2. CASE t \in DOMAIN topics
    <3>1. topics' = Drop(topics, t) \/ topics' = Put(topics, t, new)
      BY <2>2 DEF Unsubscribe
    <3> HIDE DEF new
    <3> QED BY <2>2, <3>1 DEF Drop, Put
  <2> QED BY <2>1, <2>2
<1>5. /\ new.token = topics[t].token
      /\ DOMAIN new.subs \subseteq DOMAIN topics[t].subs
      /\ Range(new.subs) \subseteq Range(topics[t].subs)
  BY DEF Unsubscribed, Drop, Range
<1> HIDE DEF new
<1>6. Tables'
  BY <1>1, <1>2, <1>3, <1>4, <1>5 DEF Tables
<1> QED BY <1>1, <1>6 DEF TableInv, Complete, Everyone, Up

\* The other actions leave the tables alone.
LEMMA OtherTableStep ==
  ASSUME TableInv, UNCHANGED net, phase' \in Phases,
         Up' => Up, phase' = "running" => phase = "running"
  PROVE  TableInv'
<1>1. broker' = broker /\ topics' = topics /\ held' = held
  BY DEF net
<1>2. \A t : Members(t)' = Members(t)
  BY <1>1 DEF Members
<1>3. Tables' /\ Everyone'
  BY <1>1 DEF TableInv, Tables, Everyone
<1>4. Complete'
  BY <1>1, <1>2 DEF TableInv, Complete
<1> QED BY <1>3, <1>4 DEF TableInv

LEMMA RunStep ==
  ASSUME TableInv, Run
  PROVE  TableInv'
<1>1. /\ phase = "starting" /\ phase' = "running" /\ \A s \in Subs : DOMAIN held[s] = Wants[s]
      /\ broker' = broker /\ topics' = topics /\ held' = held
  BY DEF Run, net
<1>2. \A t : Members(t)' = Members(t)
  BY <1>1 DEF Members
<1> QED BY <1>1, <1>2 DEF TableInv, Tables, Complete, Everyone, Up, Phases

LEMMA TableStep == TableInv /\ [Next]_vars => TableInv'
<1> SUFFICES ASSUME TableInv, [Next]_vars PROVE TableInv'
  OBVIOUS
<1> USE DEF Up, Phases
<1>p. phase \in Phases
  BY DEF TableInv, Tables
<1>1. CASE Connect \/ ConnectFails \/ SubscribeFails
  BY <1>1, OtherTableStep DEF Connect, ConnectFails, SubscribeFails
<1>2. CASE Run
  BY <1>2, RunStep
<1>3. CASE \E s \in Subs, t \in Topics : Subscribe(s, t) \/ Unsubscribe(s, t)
  BY <1>3, SubscribeStep, UnsubscribeStep
<1>4. CASE \E t \in Topics : Arrive(t)
  BY <1>4, <1>p, OtherTableStep DEF Arrive
<1>5. CASE \E token \in Tokens : DeliveryComplete(token)
  BY <1>5, <1>p, OtherTableStep DEF DeliveryComplete
<1>6. CASE ExecuteReceive \/ ExecuteParsed \/ ExecuteDelivery
  BY <1>6, <1>p, OtherTableStep DEF ExecuteReceive, ExecuteParsed, ExecuteDelivery
<1>7. CASE \E q \in Packets : Publish(q) \/ PublishFails(q)
  BY <1>7, <1>p, OtherTableStep DEF Publish, PublishFails
<1>8. CASE Exit \/ ServiceReleased \/ Release
  BY <1>8, OtherTableStep DEF Exit, ServiceReleased, Release
<1>9. CASE UNCHANGED vars
  BY <1>9, <1>p, OtherTableStep DEF vars
<1> QED BY <1>1, <1>2, <1>3, <1>4, <1>5, <1>6, <1>7, <1>8, <1>9 DEF Next

LEMMA TableInvariant == Spec => []TableInv
BY TableInit, TableStep, PTL DEF Spec

\* The broker sends every topic somebody of the service subscribed to.
THEOREM TablesMatchBrokerCorrect == Spec => []TablesMatchBroker
<1>1. TableInv => TablesMatchBroker
  BY DEF TableInv, Tables, TablesMatchBroker
<1> QED BY TableInvariant, <1>1, PTL

(***************************************************************************)
(* The messages and the queue.                                             *)
(***************************************************************************)
LEMMA CommandFields ==
  ASSUME NEW c \in Command
  PROVE  /\ c.kind \in {"receive", "parsed", "delivery"}
         /\ c.kind = "receive" => c.number \in Numbers
         /\ c.kind = "parsed" => c.number \in Numbers /\ c.who \in Subs
BY DEF Command

LEMMA CommandTypes ==
  /\ \A n \in Numbers : Receive(n) \in Command
  /\ \A s \in Subs, n \in Numbers : Parsed(s, n) \in Command
  /\ \A token \in Tokens : Delivery(token) \in Command
BY DEF Command, Receive, Parsed, Delivery

\* Some of the tokens of a table, each once.
LEMMA InOrderTokens ==
  ASSUME NEW keys, keys \subseteq Int, NEW q \in InOrder(keys)
  PROVE  /\ q \in Seq(keys) /\ DOMAIN q = 1 .. Len(q) /\ Len(q) \in Nat
         /\ \A i \in 1 .. Len(q) : q[i] \in keys
         /\ \A i, j \in 1 .. Len(q) : q[i] = q[j] => i = j
<1>1. PICK n \in 0 .. Cardinality(keys) : q \in [1 .. n -> keys]
  BY DEF InOrder
<1>2. \A i, j \in DOMAIN q : i < j => q[i] < q[j]
  BY DEF InOrder
<1>3. q \in Seq(keys) /\ Len(q) = n /\ n \in Nat
  BY <1>1
<1>4. ASSUME NEW i \in 1 .. n, NEW j \in 1 .. n, q[i] = q[j] PROVE i = j
  <2>1. q[i] \in Int /\ q[j] \in Int
    BY <1>1
  <2> QED BY <2>1, <1>1, <1>2, <1>4
<1> QED BY <1>1, <1>3, <1>4

LEMMA QueueInit == Init => QueueInv
<1> SUFFICES ASSUME Init PROVE QueueInv
  OBVIOUS
<1> USE ChannelAssumption
<1>1. /\ commands = <<>> /\ Len(commands) = 0 /\ arrived = <<>> /\ Len(arrived) = 0
      /\ heard = [s \in Subs |-> <<>>] /\ declined = [s \in Subs |-> {}]
      /\ phase = "new"
  BY DEF Init
<1>2. Queues
  BY <1>1 DEF Queues
<1>3. OnlyReceived
  BY <1>1 DEF OnlyReceived
<1>4. Ordered
  BY <1>1 DEF Ordered, Known, ReceivedInOrder, ParsedFirst, ParsedInOrder, HeardFirst,
              HeardInOrder
<1>5. Whole /\ Apart
  BY <1>1 DEF Whole, Somewhere, Apart
<1> QED BY <1>2, <1>3, <1>4, <1>5 DEF QueueInv

\* A message arrives: it is the last.
LEMMA ArriveStep ==
  ASSUME QueueInv, NEW t \in Topics, Arrive(t)
  PROVE  QueueInv'
<1> USE ChannelAssumption
<1>n. PICK N \in Nat, L \in Nat : N = Len(arrived) + 1 /\ L = Len(commands)
  BY DEF QueueInv, Queues
<1>1. /\ N = Len(arrived) + 1 /\ L = Len(commands)
      /\ commands \in Seq(Command) /\ arrived \in Seq(Topics) /\ Len(arrived) < MaxArrivals
      /\ heard \in [Subs -> Seq(Numbers)] /\ L \in Nat /\ Len(arrived) \in Nat
      /\ commands' = Append(commands, Receive(N)) /\ arrived' = Append(arrived, t)
      /\ heard' = heard /\ declined' = declined /\ phase' = phase
      /\ declined \in [Subs -> SUBSET Numbers]
  BY <1>n DEF QueueInv, Queues, Arrive, taken
<1>2. N \in Numbers /\ Receive(N) \in Command
  BY <1>1, CommandTypes DEF Numbers
<1>3. /\ commands' \in Seq(Command) /\ Len(commands') = L + 1
      /\ \A i \in 1 .. L : commands'[i] = commands[i]
      /\ commands'[L + 1] = Receive(N)
      /\ arrived' \in Seq(Topics) /\ Len(arrived') = N
      /\ \A n \in 1 .. Len(arrived) : arrived'[n] = arrived[n]
      /\ arrived'[N] = t
  BY <1>1, <1>2
<1>4. /\ Receive(N).kind = "receive" /\ Receive(N).number = N
  BY DEF Receive
<1>5. Queues'
  BY <1>1, <1>3 DEF Queues
<1>6. OnlyReceived'
  BY <1>1, <1>3, <1>4 DEF QueueInv, OnlyReceived
<1> SUFFICES ASSUME Up PROVE Ordered' /\ Apart' /\ Whole'
  BY <1>1, <1>5, <1>6 DEF QueueInv, Up, Ordered, Apart, Whole
<1>7. Ordered /\ Apart /\ Whole /\ Up'
  BY <1>1 DEF QueueInv, Up
<1>8. \A i \in 1 .. L : commands[i].kind \in {"receive", "parsed"} =>
        commands[i].number \in 1 .. Len(arrived)
  BY <1>1, <1>7 DEF Ordered, Known
<1>9. ASSUME NEW s, NEW i \in 1 .. L PROVE MineAt(s, i)' <=> MineAt(s, i)
  BY <1>3, <1>8 DEF Mine, MineAt
<1>10. \A s : MineAt(s, L + 1)' <=> t \in Wants[s]
  BY <1>3, <1>4 DEF Mine, MineAt
<1>11. \A i \in 1 .. Len(commands') : i \in 1 .. L \/ i = L + 1
  BY <1>1, <1>3
<1>12. Known' /\ ReceivedInOrder' /\ ParsedFirst'
  <2>1. Known'
    BY <1>1, <1>3, <1>4, <1>8, <1>11 DEF Known
  <2>2. ReceivedInOrder'
    BY <1>1, <1>3, <1>4, <1>7, <1>8, <1>11 DEF Ordered, ReceivedInOrder
  <2>3. ParsedFirst'
    BY <1>1, <1>3, <1>4, <1>7, <1>8, <1>11 DEF Ordered, ParsedFirst
  <2> QED BY <2>1, <2>2, <2>3
<1>13. ParsedInOrder'
  <2>1. ParsedInOrder
    BY <1>7 DEF Ordered
  <2>2. \A i \in 1 .. Len(commands') : commands'[i].kind = "parsed" =>
          i \in 1 .. L /\ commands'[i] = commands[i]
    BY <1>3, <1>4, <1>11
  <2> SUFFICES ASSUME NEW i \in 1 .. Len(commands'), NEW j \in 1 .. Len(commands'),
                      commands'[i].kind = "parsed", commands'[j].kind = "parsed", i < j,
                      commands'[i].who = commands'[j].who
               PROVE  commands'[i].number < commands'[j].number
    BY DEF ParsedInOrder
  <2>3. /\ i \in 1 .. Len(commands) /\ commands'[i] = commands[i]
        /\ j \in 1 .. Len(commands) /\ commands'[j] = commands[j]
    BY <1>1, <2>2
  <2> QED BY <2>1, <2>3 DEF ParsedInOrder
<1>14. \A s \in Subs : \A h \in 1 .. Len(heard[s]) : heard[s][h] \in 1 .. Len(arrived)
  BY <1>7 DEF Whole, Somewhere
<1>15. HeardFirst' /\ HeardInOrder'
  <2>1. HeardInOrder'
    BY <1>1, <1>7 DEF Ordered, HeardInOrder
  <2>2. ASSUME NEW s \in Subs, NEW h \in 1 .. Len(heard[s]), NEW i \in 1 .. Len(commands'),
               MineAt(s, i)'
        PROVE  heard[s][h] < commands'[i].number
    <3>1. CASE i \in 1 .. L
      <4>1. MineAt(s, i) /\ commands'[i] = commands[i] /\ i \in 1 .. Len(commands)
        BY <3>1, <2>2, <1>1, <1>3, <1>9
      <4>2. HeardFirst
        BY <1>7 DEF Ordered
      <4> QED BY <4>1, <4>2 DEF HeardFirst
    <3>2. CASE i = L + 1
      BY <3>2, <1>1, <1>3, <1>4, <1>14
    <3> QED BY <3>1, <3>2, <1>11
  <2> QED BY <2>1, <2>2, <1>1 DEF HeardFirst
<1>16. Whole'
  <2> SUFFICES ASSUME NEW s \in Subs, NEW n
      PROVE Somewhere(s, n)' <=> n \in 1 .. N /\ arrived'[n] \in Wants[s]
    BY <1>3 DEF Whole
  <2>1. Somewhere(s, n)' <=> Somewhere(s, n) \/ (t \in Wants[s] /\ n = N)
    <3>1. \A i \in 1 .. L : commands'[i].number = commands[i].number
      BY <1>3
    <3>2. L + 1 \in 1 .. Len(commands') /\ commands'[L + 1].number = N
      BY <1>1, <1>3, <1>4
    <3>3. \A i \in 1 .. L : i \in 1 .. Len(commands')
      BY <1>1, <1>3
    <3>4. n \in declined'[s] <=> n \in declined[s]
      BY <1>1
    <3> QED BY <3>1, <3>2, <3>3, <3>4, <1>1, <1>9, <1>10, <1>11 DEF Somewhere
  <2>2. Somewhere(s, n) <=> n \in 1 .. Len(arrived) /\ arrived[n] \in Wants[s]
    BY <1>7 DEF Whole
  <2>3. n \in 1 .. N <=> n \in 1 .. Len(arrived) \/ n = N
    BY <1>1
  <2>4. ~(n \in 1 .. Len(arrived) /\ n = N)
    BY <1>1
  <2> QED BY <2>1, <2>2, <2>3, <2>4, <1>3
<1>17. Apart'
  <2> SUFFICES ASSUME NEW s \in Subs, NEW n \in declined[s]
      PROVE /\ \A i \in 1 .. Len(commands') : MineAt(s, i)' => commands'[i].number # n
            /\ \A h \in 1 .. Len(heard[s]) : heard[s][h] # n
    BY <1>1 DEF Apart
  <2>1. n \in 1 .. Len(arrived)
    BY <1>7 DEF Whole, Somewhere
  <2>2. n # N
    BY <2>1, <1>1
  <2>3. ASSUME NEW i \in 1 .. Len(commands'), MineAt(s, i)' PROVE commands'[i].number # n
    <3>1. CASE i \in 1 .. L
      <4>1. MineAt(s, i) /\ commands'[i] = commands[i] /\ i \in 1 .. Len(commands)
        BY <3>1, <2>3, <1>1, <1>3, <1>9
      <4> QED BY <4>1, <1>7 DEF Apart
    <3>2. CASE i = L + 1
      BY <3>2, <2>2, <1>3, <1>4
    <3> QED BY <3>1, <3>2, <1>11
  <2> QED BY <2>3, <1>7 DEF Apart
<1> QED BY <1>7, <1>12, <1>13, <1>15, <1>16, <1>17 DEF Ordered

\* What the subscribers of a message's topic make of it: each of them one
\* command, or none.
LEMMA ParsedCommands ==
  ASSUME QueueInv, TableInv, ExecuteReceive
  PROVE  LET n == commands[1].number
             t == arrived[n]
         IN  \E new \in Seq(Command) :
               /\ commands' = Tail(commands) \o new
               /\ declined' \in [Subs -> SUBSET Numbers]
               /\ \A i \in 1 .. Len(new) :
                    /\ new[i].kind = "parsed" /\ new[i].number = n
                    /\ new[i].who \in Subs /\ t \in Wants[new[i].who]
               /\ \A i, j \in 1 .. Len(new) : new[i].who = new[j].who => i = j
               /\ \A s \in Subs :
                    \/ /\ t \notin Wants[s] /\ declined'[s] = declined[s]
                    \/ /\ t \in Wants[s] /\ declined'[s] = declined[s]
                       /\ \E i \in 1 .. Len(new) : new[i].who = s
                    \/ /\ t \in Wants[s] /\ declined'[s] = declined[s] \cup {n}
                       /\ \A i \in 1 .. Len(new) : new[i].who # s
<1> DEFINE n == commands[1].number
           t == arrived[n]
<1>1. /\ commands \in Seq(Command) /\ commands # <<>> /\ commands[1].kind = "receive"
      /\ arrived \in Seq(Topics) /\ phase = "running" /\ Up
      /\ declined \in [Subs -> SUBSET Numbers]
      /\ Known /\ \A s \in Subs : DOMAIN held[s] = Wants[s]
  <2>1. phase = "running" /\ commands # <<>> /\ Head(commands).kind = "receive"
    BY DEF ExecuteReceive, Executes
  <2>2. /\ commands \in Seq(Command) /\ arrived \in Seq(Topics)
        /\ declined \in [Subs -> SUBSET Numbers]
    BY DEF QueueInv, Queues
  <2>3. Head(commands) = commands[1]
    BY <2>1, <2>2
  <2> QED BY <2>1, <2>2, <2>3 DEF QueueInv, Ordered, TableInv, Everyone, Up
<1>2. commands[1] \in Command /\ n \in Numbers /\ t \in Topics /\ Head(commands) = commands[1]
  <2>1. commands[1] \in Command /\ n \in 1 .. Len(arrived)
    BY <1>1 DEF Known
  <2> QED BY <2>1, <1>1, CommandFields
<1>3. PICK made \in InOrder(DOMAIN Called) : Take(made, DOMAIN Called \ Range(made))
  BY DEF ExecuteReceive
<1>4. Members(t) = {s \in Subs : t \in Wants[s]}
  BY <1>1 DEF Members
<1>5. /\ DOMAIN Called \subseteq Int
      /\ \A k \in DOMAIN Called : Called[k] \in Members(t)
      /\ \A s \in Members(t) : \E k \in DOMAIN Called : Called[k] = s
      /\ \A k, l \in DOMAIN Called : Called[k] = Called[l] => k = l
  <2>1. CASE t \notin DOMAIN topics
    <3>1. Members(t) = {}
      BY <2>1, <1>1, <1>2 DEF TableInv, Complete
    <3>2. Called = <<>>
      BY <2>1, <1>2 DEF Called, None
    <3> QED BY <3>1, <3>2
  <2>2. CASE t \in DOMAIN topics
    <3>1. Called = topics[t].subs
      BY <2>2, <1>2 DEF Called
    <3>2. /\ DOMAIN topics[t].subs = 0 .. topics[t].token - 1
          /\ Range(topics[t].subs) = Members(t)
          /\ \A x, y \in DOMAIN topics[t].subs :
               topics[t].subs[x] = topics[t].subs[y] => x = y
      BY <2>2, <1>1, <1>2 DEF TableInv, Complete
    <3>3. DOMAIN Called \subseteq Int
      BY <3>1, <3>2
    <3>4. /\ \A k \in DOMAIN Called : Called[k] \in Members(t)
          /\ \A s \in Members(t) : \E k \in DOMAIN Called : Called[k] = s
      BY <3>1, <3>2 DEF Range
    <3>5. \A k, l \in DOMAIN Called : Called[k] = Called[l] => k = l
      BY <3>1, <3>2
    <3> QED BY <3>3, <3>4, <3>5
  <2> QED BY <2>1, <2>2
<1>6. /\ DOMAIN made = 1 .. Len(made) /\ Len(made) \in Nat
      /\ \A i \in 1 .. Len(made) : made[i] \in DOMAIN Called
      /\ \A i, j \in 1 .. Len(made) : made[i] = made[j] => i = j
  BY <1>3, <1>5, InOrderTokens
<1> DEFINE passed == DOMAIN Called \ Range(made)
           new == [i \in 1 .. Len(made) |-> Parsed(Called[made[i]], n)]
<1>7. /\ commands' = Tail(commands) \o new
      /\ declined' = [s \in Subs |->
           declined[s] \cup {m \in {n} : \E k \in passed : Called[k] = s}]
  BY <1>2, <1>3 DEF Take
<1>8. \A k \in DOMAIN Called : k \in passed <=> \A i \in 1 .. Len(made) : made[i] # k
  BY <1>6 DEF Range
<1>9. passed \subseteq DOMAIN Called
  OBVIOUS
<1> HIDE DEF n, t, passed
<1>10. declined' \in [Subs -> SUBSET Numbers]
  BY <1>1, <1>2, <1>7
<1>11. /\ new \in Seq(Command) /\ Len(new) = Len(made)
       /\ \A i \in 1 .. Len(made) : new[i] = Parsed(Called[made[i]], n)
  <2>1. \A i \in 1 .. Len(made) : Parsed(Called[made[i]], n) \in Command
    BY <1>2, <1>5, <1>6, CommandTypes DEF Members
  <2> QED BY <2>1, <1>6
<1> HIDE DEF new
<1>12. \A i \in 1 .. Len(new) :
         new[i].kind = "parsed" /\ new[i].number = n /\ new[i].who = Called[made[i]]
  <2> SUFFICES ASSUME NEW i \in 1 .. Len(new)
      PROVE new[i].kind = "parsed" /\ new[i].number = n /\ new[i].who = Called[made[i]]
    OBVIOUS
  <2>1. new[i] = Parsed(Called[made[i]], n)
    BY <1>11
  <2> QED BY <2>1 DEF Parsed
<1>13. \A i \in 1 .. Len(new) : new[i].who \in Subs /\ t \in Wants[new[i].who]
  BY <1>4, <1>5, <1>6, <1>11, <1>12
<1>14. \A i, j \in 1 .. Len(new) : new[i].who = new[j].who => i = j
  <2> SUFFICES ASSUME NEW i \in 1 .. Len(new), NEW j \in 1 .. Len(new),
                      new[i].who = new[j].who
               PROVE  i = j
    OBVIOUS
  <2>1. i \in 1 .. Len(made) /\ j \in 1 .. Len(made) /\ Called[made[i]] = Called[made[j]]
    BY <1>11, <1>12
  <2>2. made[i] = made[j]
    BY <2>1, <1>5, <1>6
  <2> QED BY <2>1, <2>2, <1>6
<1>15. ASSUME NEW s \in Subs
       PROVE  \/ /\ t \notin Wants[s] /\ declined'[s] = declined[s]
              \/ /\ t \in Wants[s] /\ declined'[s] = declined[s]
                 /\ \E i \in 1 .. Len(new) : new[i].who = s
              \/ /\ t \in Wants[s] /\ declined'[s] = declined[s] \cup {n}
                 /\ \A i \in 1 .. Len(new) : new[i].who # s
  <2>1. declined'[s] = declined[s] \cup {m \in {n} : \E k \in passed : Called[k] = s}
    BY <1>7
  <2>2. CASE t \notin Wants[s]
    <3>1. \A k \in passed : Called[k] # s
      BY <2>2, <1>4, <1>5, <1>9
    <3> QED BY <2>1, <2>2, <3>1
  <2>3. CASE t \in Wants[s]
    <3>1. PICK k \in DOMAIN Called : Called[k] = s
      BY <2>3, <1>4, <1>5
    <3>2. \A l \in DOMAIN Called : Called[l] = s => l = k
      BY <3>1, <1>5
    <3>3. CASE k \in passed
      <4>1. declined'[s] = declined[s] \cup {n}
        BY <2>1, <3>1, <3>3
      <4>2. ASSUME NEW i \in 1 .. Len(new), new[i].who = s PROVE FALSE
        <5>1. i \in 1 .. Len(made) /\ Called[made[i]] = s
          BY <4>2, <1>11, <1>12
        <5> QED BY <5>1, <3>2, <3>3, <1>6, <1>8
      <4> QED BY <2>3, <4>1, <4>2
    <3>4. CASE k \notin passed
      <4>1. declined'[s] = declined[s]
        BY <2>1, <3>2, <3>4, <1>9
      <4>2. PICK i \in 1 .. Len(made) : made[i] = k
        BY <3>4, <1>8
      <4>3. i \in 1 .. Len(new) /\ new[i].who = s
        BY <4>2, <3>1, <1>11, <1>12
      <4> QED BY <2>3, <4>1, <4>3
    <3> QED BY <3>3, <3>4
  <2> QED BY <2>2, <2>3
<1> QED BY <1>7, <1>10, <1>11, <1>12, <1>13, <1>14, <1>15 DEF n, t

\* What becomes of the message at the head of the queue for one subscriber.
Fate(s, n, new) ==
  \/ /\ arrived[n] \notin Wants[s] /\ declined'[s] = declined[s]
  \/ /\ arrived[n] \in Wants[s] /\ declined'[s] = declined[s]
     /\ \E i \in 1 .. Len(new) : new[i].who = s
  \/ /\ arrived[n] \in Wants[s] /\ declined'[s] = declined[s] \cup {n}
     /\ \A i \in 1 .. Len(new) : new[i].who # s

\* The first message of the queue becomes the last commands.
LEMMA ReceiveStep ==
  ASSUME QueueInv, TableInv, ExecuteReceive
  PROVE  QueueInv'
<1>n. PICK n : n = commands[1].number
  OBVIOUS
<1>a. PICK new \in Seq(Command) :
        /\ commands' = Tail(commands) \o new
        /\ declined' \in [Subs -> SUBSET Numbers]
        /\ \A i \in 1 .. Len(new) :
             /\ new[i].kind = "parsed" /\ new[i].number = n
             /\ new[i].who \in Subs /\ arrived[n] \in Wants[new[i].who]
        /\ \A i, j \in 1 .. Len(new) : new[i].who = new[j].who => i = j
        /\ \A s \in Subs : Fate(s, n, new)
  BY <1>n, ParsedCommands DEF Fate
<1>1. /\ n = commands[1].number
      /\ commands' = Tail(commands) \o new
      /\ declined' \in [Subs -> SUBSET Numbers]
      /\ \A i \in 1 .. Len(new) :
           /\ new[i].kind = "parsed" /\ new[i].number = n
           /\ new[i].who \in Subs /\ arrived[n] \in Wants[new[i].who]
      /\ \A s \in Subs : Fate(s, n, new)
      /\ \A i, j \in 1 .. Len(new) : new[i].who = new[j].who => i = j
  BY <1>n, <1>a
<1>2. /\ commands \in Seq(Command) /\ commands # <<>>
      /\ arrived \in Seq(Topics) /\ Len(arrived) <= MaxArrivals
      /\ heard \in [Subs -> Seq(Numbers)]
  BY DEF QueueInv, Queues, ExecuteReceive, Executes
<1>3. /\ phase = "running" /\ phase' = phase /\ Up /\ Up'
      /\ arrived' = arrived /\ heard' = heard /\ Head(commands).kind = "receive"
  BY DEF ExecuteReceive, Executes, Up
<1>4. /\ Whole /\ Known /\ ReceivedInOrder /\ ParsedFirst /\ ParsedInOrder /\ HeardFirst
      /\ HeardInOrder /\ Apart
  BY <1>3 DEF QueueInv, Ordered
<1>5. PICK L \in Nat : Len(commands) = L + 1
  <2>1. Len(commands) - 1 \in Nat
    BY <1>2
  <2> QED BY <2>1
<1>6. /\ Tail(commands) \in Seq(Command) /\ Len(Tail(commands)) = L
      /\ \A i \in 1 .. L : Tail(commands)[i] = commands[i + 1]
      /\ commands[1].kind = "receive"
  BY <1>2, <1>3, <1>5
<1>7. /\ commands' \in Seq(Command) /\ Len(commands') = L + Len(new) /\ Len(new) \in Nat
      /\ \A i \in 1 .. L : commands'[i] = commands[i + 1]
      /\ \A i \in 1 .. Len(new) : commands'[L + i] = new[i] /\ L + i \in 1 .. Len(commands')
  BY <1>1, <1>6
<1>8. \A i \in 1 .. Len(commands') : i \in 1 .. L \/ i > L
  BY <1>7
<1>9. /\ \A i \in 1 .. L : i + 1 \in 1 .. Len(commands) /\ 1 < i + 1
      /\ 1 \in 1 .. Len(commands)
      /\ \A i \in 1 .. L : ~(i > L)
  BY <1>5
<1>b. ASSUME NEW i \in 1 .. Len(commands'), i > L
      PROVE  /\ i - L \in 1 .. Len(new) /\ commands'[i] = new[i - L]
             /\ commands'[i].kind = "parsed" /\ commands'[i].number = n
             /\ commands'[i].who = new[i - L].who
             /\ arrived[n] \in Wants[commands'[i].who]
  <2>1. i - L \in 1 .. Len(new) /\ L + (i - L) = i
    BY <1>b, <1>7
  <2>2. commands'[i] = new[i - L]
    BY <2>1, <1>7
  <2> QED BY <2>1, <2>2, <1>1
<1>10. n \in 1 .. Len(arrived)
  BY <1>1, <1>4, <1>6, <1>9 DEF Known
<1>11. /\ \A s : \A i \in 1 .. L : MineAt(s, i)' <=> MineAt(s, i + 1)
       /\ \A s : \A i \in 1 .. Len(commands') : i > L =>
            (MineAt(s, i)' <=> new[i - L].who = s)
       /\ \A s : MineAt(s, 1) <=> arrived[n] \in Wants[s]
  <2>1. ASSUME NEW s, NEW i \in 1 .. L PROVE MineAt(s, i)' <=> MineAt(s, i + 1)
    BY <1>3, <1>7 DEF MineAt, Mine
  <2>2. ASSUME NEW s, NEW i \in 1 .. Len(commands'), i > L
        PROVE  MineAt(s, i)' <=> new[i - L].who = s
    <3>1. commands'[i].kind = "parsed" /\ commands'[i].who = new[i - L].who
      BY <2>2, <1>b
    <3> QED BY <3>1 DEF MineAt, Mine
  <2>3. ASSUME NEW s PROVE MineAt(s, 1) <=> arrived[n] \in Wants[s]
    BY <1>1, <1>6 DEF MineAt, Mine
  <2> QED BY <2>1, <2>2, <2>3
<1>12. \A i \in 1 .. L :
         commands[i + 1].kind = "receive" => n < commands[i + 1].number
  BY <1>1, <1>4, <1>6, <1>9 DEF ReceivedInOrder
<1>13. \A i \in 1 .. L :
         commands[i + 1].kind = "parsed" => commands[i + 1].number < n
  BY <1>1, <1>4, <1>6, <1>9 DEF ParsedFirst
<1>14. Known'
  <2> SUFFICES ASSUME NEW i \in 1 .. Len(commands'),
                      commands'[i].kind \in {"receive", "parsed"}
               PROVE  commands'[i].number \in 1 .. Len(arrived)
    BY <1>3 DEF Known
  <2>1. CASE i \in 1 .. L
    <3>1. commands'[i] = commands[i + 1] /\ i + 1 \in 1 .. Len(commands)
      BY <2>1, <1>7, <1>9
    <3> QED BY <3>1, <1>4 DEF Known
  <2>2. CASE i > L
    BY <2>2, <1>b, <1>10
  <2> QED BY <2>1, <2>2, <1>8
<1>15. ReceivedInOrder'
  <2> SUFFICES ASSUME NEW i \in 1 .. Len(commands'), NEW j \in 1 .. Len(commands'),
                      commands'[i].kind = "receive", commands'[j].kind = "receive", i < j
               PROVE  commands'[i].number < commands'[j].number
    BY DEF ReceivedInOrder
  <2>1. i \in 1 .. L /\ j \in 1 .. L
    BY <1>b, <1>8
  <2>2. /\ i + 1 \in 1 .. Len(commands) /\ commands'[i] = commands[i + 1]
        /\ j + 1 \in 1 .. Len(commands) /\ commands'[j] = commands[j + 1]
        /\ i + 1 < j + 1
    BY <2>1, <1>7, <1>9
  <2> QED BY <2>2, <1>4 DEF ReceivedInOrder
<1>16. ParsedFirst'
  <2> SUFFICES ASSUME NEW i \in 1 .. Len(commands'), NEW j \in 1 .. Len(commands'),
                      commands'[i].kind = "parsed", commands'[j].kind = "receive"
               PROVE  commands'[i].number < commands'[j].number
    BY DEF ParsedFirst
  <2>1. j \in 1 .. L
    BY <1>b, <1>8
  <2>2. j + 1 \in 1 .. Len(commands) /\ commands'[j] = commands[j + 1]
    BY <2>1, <1>7, <1>9
  <2>3. CASE i \in 1 .. L
    <3>1. i + 1 \in 1 .. Len(commands) /\ commands'[i] = commands[i + 1]
      BY <2>3, <1>7, <1>9
    <3> QED BY <2>2, <3>1, <1>4 DEF ParsedFirst
  <2>4. CASE i > L
    <3>1. commands'[i].number = n
      BY <2>4, <1>b
    <3>2. n < commands[j + 1].number
      BY <2>1, <2>2, <1>12
    <3> QED BY <2>2, <3>1, <3>2
  <2> QED BY <2>3, <2>4, <1>8
<1>17. ParsedInOrder'
  <2> SUFFICES ASSUME NEW i \in 1 .. Len(commands'), NEW j \in 1 .. Len(commands'),
                      commands'[i].kind = "parsed", commands'[j].kind = "parsed", i < j,
                      commands'[i].who = commands'[j].who
               PROVE  commands'[i].number < commands'[j].number
    BY DEF ParsedInOrder
  <2>1. CASE i \in 1 .. L /\ j \in 1 .. L
    <3>1. /\ i + 1 \in 1 .. Len(commands) /\ commands'[i] = commands[i + 1]
          /\ j + 1 \in 1 .. Len(commands) /\ commands'[j] = commands[j + 1]
          /\ i + 1 < j + 1
      BY <2>1, <1>7, <1>9
    <3> QED BY <3>1, <1>4 DEF ParsedInOrder
  <2>2. CASE i \in 1 .. L /\ j > L
    <3>1. commands'[j].number = n
      BY <2>2, <1>b
    <3>2. commands'[i] = commands[i + 1]
      BY <2>2, <1>7
    <3>3. commands[i + 1].number < n
      BY <2>2, <3>2, <1>13
    <3> QED BY <3>1, <3>2, <3>3
  <2>3. CASE i > L /\ j > L
    <3>1. /\ i - L \in 1 .. Len(new) /\ j - L \in 1 .. Len(new)
          /\ new[i - L].who = new[j - L].who
      BY <2>3, <1>b
    <3>2. i - L = j - L
      BY <3>1, <1>1
    <3> QED BY <3>2
  <2>4. CASE i > L /\ j \in 1 .. L
    BY <2>4
  <2> QED BY <2>1, <2>2, <2>3, <2>4, <1>8
<1>18. HeardFirst'
  <2> SUFFICES ASSUME NEW s \in Subs, NEW h \in 1 .. Len(heard[s]),
                      NEW i \in 1 .. Len(commands'), MineAt(s, i)'
               PROVE  heard[s][h] < commands'[i].number
    BY <1>3 DEF HeardFirst
  <2>1. CASE i \in 1 .. L
    <3>1. /\ i + 1 \in 1 .. Len(commands) /\ commands'[i] = commands[i + 1]
          /\ MineAt(s, i + 1)
      BY <2>1, <1>7, <1>9, <1>11
    <3> QED BY <3>1, <1>4 DEF HeardFirst
  <2>2. CASE i > L
    <3>1. commands'[i].number = n /\ arrived[n] \in Wants[s]
      <4>1. new[i - L].who = s
        BY <2>2, <1>11
      <4> QED BY <2>2, <4>1, <1>b
    <3>2. MineAt(s, 1)
      BY <3>1, <1>11
    <3>3. heard[s][h] < commands[1].number
      BY <3>2, <1>4, <1>9 DEF HeardFirst
    <3> QED BY <3>1, <3>3, <1>1
  <2> QED BY <2>1, <2>2, <1>8
<1>19. HeardInOrder'
  BY <1>3, <1>4 DEF HeardInOrder
<1>c. ASSUME NEW s \in Subs, NEW i \in 1 .. Len(commands'), i > L, MineAt(s, i)'
      PROVE  /\ \E k \in 1 .. Len(new) : new[k].who = s
             /\ arrived[n] \in Wants[s] /\ commands'[i].number = n
  <2>1. new[i - L].who = s
    BY <1>c, <1>11
  <2> QED BY <2>1, <1>c, <1>b
<1>20. Whole'
  <2> SUFFICES ASSUME NEW s \in Subs, NEW m PROVE Somewhere(s, m)' <=> Somewhere(s, m)
    BY <1>3, <1>4 DEF Whole
  <2>1. ASSUME NEW i \in 1 .. Len(commands'), MineAt(s, i)', commands'[i].number = m
        PROVE  Somewhere(s, m)
    <3>1. CASE i \in 1 .. L
      <4>1. MineAt(s, i + 1) /\ commands[i + 1].number = m /\ i + 1 \in 1 .. Len(commands)
        BY <2>1, <3>1, <1>7, <1>9, <1>11
      <4> QED BY <4>1 DEF Somewhere
    <3>2. CASE i > L
      <4>1. m = n /\ arrived[n] \in Wants[s]
        BY <2>1, <3>2, <1>c
      <4>2. MineAt(s, 1) /\ commands[1].number = m /\ 1 \in 1 .. Len(commands)
        BY <4>1, <1>1, <1>9, <1>11
      <4> QED BY <4>2 DEF Somewhere
    <3> QED BY <3>1, <3>2, <1>8
  <2>2. ASSUME NEW i \in 1 .. Len(commands), MineAt(s, i), commands[i].number = m
        PROVE  Somewhere(s, m)'
    <3>1. CASE i = 1
      <4>1. arrived[n] \in Wants[s] /\ m = n
        BY <2>2, <3>1, <1>1, <1>11
      <4>2. Fate(s, n, new)
        BY <1>1
      <4>3. CASE \E j \in 1 .. Len(new) : new[j].who = s
        <5>1. PICK j \in 1 .. Len(new) : new[j].who = s
          BY <4>3
        <5>2. L + j \in 1 .. Len(commands') /\ L + j > L /\ (L + j) - L = j
          BY <1>7
        <5>3. PICK k : k = L + j
          OBVIOUS
        <5>4. k \in 1 .. Len(commands') /\ k > L /\ new[k - L].who = s
          BY <5>1, <5>2, <5>3
        <5>5. MineAt(s, k)'
          BY <5>4, <1>11
        <5>6. commands'[k].number = m
          BY <4>1, <5>4, <1>b
        <5> QED BY <5>4, <5>5, <5>6 DEF Somewhere
      <4>4. CASE ~\E j \in 1 .. Len(new) : new[j].who = s
        <5>1. m \in declined'[s]
          BY <4>1, <4>2, <4>4 DEF Fate
        <5> QED BY <5>1 DEF Somewhere
      <4> QED BY <4>3, <4>4
    <3>2. CASE i # 1
      <4>1. PICK j \in 1 .. L : i = j + 1
        <5>1. i - 1 \in 1 .. L /\ i = (i - 1) + 1
          BY <3>2, <1>5
        <5> QED BY <5>1
      <4>2. MineAt(s, j)'
        BY <2>2, <4>1, <1>11
      <4>3. commands'[j].number = m /\ j \in 1 .. Len(commands')
        BY <2>2, <4>1, <1>7
      <4> QED BY <4>2, <4>3 DEF Somewhere
    <3> QED BY <3>1, <3>2
  <2>3. ASSUME m \in declined'[s] PROVE Somewhere(s, m)
    <3>1. CASE m \in declined[s]
      BY <3>1 DEF Somewhere
    <3>2. CASE m \notin declined[s]
      <4>1. arrived[n] \in Wants[s] /\ m = n
        BY <2>3, <3>2, <1>1 DEF Fate
      <4>2. MineAt(s, 1) /\ commands[1].number = m /\ 1 \in 1 .. Len(commands)
        BY <4>1, <1>1, <1>9, <1>11
      <4> QED BY <4>2 DEF Somewhere
    <3> QED BY <3>1, <3>2
  <2>4. m \in declined[s] => m \in declined'[s]
    BY <1>1 DEF Fate
  <2> QED BY <2>1, <2>2, <2>3, <2>4, <1>3 DEF Somewhere
<1>22. Apart'
  <2> SUFFICES ASSUME NEW s \in Subs, NEW m \in declined'[s]
      PROVE /\ \A i \in 1 .. Len(commands') : MineAt(s, i)' => commands'[i].number # m
            /\ \A h \in 1 .. Len(heard[s]) : heard[s][h] # m
    BY <1>3 DEF Apart
  <2>1. CASE m \in declined[s]
    <3>1. ASSUME NEW i \in 1 .. Len(commands'), MineAt(s, i)' PROVE commands'[i].number # m
      <4>1. CASE i \in 1 .. L
        <5>1. /\ i + 1 \in 1 .. Len(commands) /\ commands'[i] = commands[i + 1]
              /\ MineAt(s, i + 1)
          BY <3>1, <4>1, <1>7, <1>9, <1>11
        <5> QED BY <2>1, <5>1, <1>3, <1>4 DEF Apart
      <4>2. CASE i > L
        <5>1. commands'[i].number = n /\ arrived[n] \in Wants[s]
          BY <3>1, <4>2, <1>c
        <5>2. MineAt(s, 1) /\ 1 \in 1 .. Len(commands)
          BY <5>1, <1>9, <1>11
        <5> QED BY <2>1, <5>1, <5>2, <1>1, <1>3, <1>4 DEF Apart
      <4> QED BY <4>1, <4>2, <1>8
    <3> QED BY <2>1, <3>1, <1>3, <1>4 DEF Apart
  <2>2. CASE m \notin declined[s]
    <3>1. /\ arrived[n] \in Wants[s] /\ m = n
          /\ \A k \in 1 .. Len(new) : new[k].who # s
      BY <2>2, <1>1 DEF Fate
    <3>2. ASSUME NEW i \in 1 .. Len(commands'), MineAt(s, i)' PROVE commands'[i].number # m
      <4>1. i \in 1 .. L
        BY <3>1, <3>2, <1>8, <1>c
      <4>2. /\ commands'[i] = commands[i + 1] /\ i + 1 \in 1 .. Len(commands)
            /\ MineAt(s, i + 1)
        BY <3>2, <4>1, <1>7, <1>9, <1>11
      <4>3. commands[i + 1].kind \in {"receive", "parsed"}
        BY <4>2 DEF MineAt, Mine
      <4>4. commands[i + 1].number < n \/ n < commands[i + 1].number
        BY <4>1, <4>3, <1>12, <1>13
      <4>5. n \in Nat /\ commands[i + 1].number \in 1 .. Len(arrived)
        BY <4>2, <4>3, <1>4, <1>10 DEF Known
      <4> QED BY <3>1, <4>2, <4>4, <4>5
    <3>3. ASSUME NEW h \in 1 .. Len(heard[s]) PROVE heard[s][h] # m
      <4>1. MineAt(s, 1)
        BY <3>1, <1>11
      <4>2. heard[s][h] < n
        BY <4>1, <1>1, <1>4, <1>9 DEF HeardFirst
      <4> QED BY <3>1, <4>2, <1>10
    <3> QED BY <3>2, <3>3
  <2> QED BY <2>1, <2>2
<1>21. Queues' /\ OnlyReceived'
  BY <1>1, <1>2, <1>3, <1>7 DEF Queues, OnlyReceived
<1> QED
  BY <1>14, <1>15, <1>16, <1>17, <1>18, <1>19, <1>20, <1>21, <1>22 DEF QueueInv, Ordered

\* A command that leaves the queue leaves the others in their order.
LEMMA TailStep ==
  ASSUME QueueInv, commands # <<>>, commands' = Tail(commands), arrived' = arrived,
         Up
  PROVE  /\ commands' \in Seq(Command)
         /\ \A i \in 1 .. Len(commands') :
              /\ i + 1 \in 1 .. Len(commands) /\ commands'[i] = commands[i + 1]
              /\ 1 < i + 1
              /\ \A s : MineAt(s, i)' <=> MineAt(s, i + 1)
         /\ \A j \in 1 .. Len(commands) : j # 1 =>
              \E i \in 1 .. Len(commands') : j = i + 1
         /\ 1 \in 1 .. Len(commands)
         /\ Known' /\ ReceivedInOrder' /\ ParsedFirst' /\ ParsedInOrder'
<1>1. /\ commands \in Seq(Command) /\ Known /\ ReceivedInOrder /\ ParsedFirst
      /\ ParsedInOrder
  BY DEF QueueInv, Queues, Ordered
<1>2. /\ commands' \in Seq(Command) /\ Len(commands') = Len(commands) - 1
      /\ Len(commands) \in Nat /\ Len(commands) > 0
  BY <1>1
<1>3. ASSUME NEW i \in 1 .. Len(commands')
      PROVE  /\ i + 1 \in 1 .. Len(commands) /\ 1 < i + 1
             /\ commands'[i] = commands[i + 1]
  <2>1. i \in 1 .. Len(Tail(commands))
    BY <1>3
  <2>2. Tail(commands)[i] = commands[i + 1]
    BY <2>1, <1>1, <1>2
  <2> QED BY <2>2, <1>2
<1>4. ASSUME NEW i \in 1 .. Len(commands'), NEW s
      PROVE  MineAt(s, i)' <=> MineAt(s, i + 1)
  BY <1>3 DEF MineAt, Mine
<1>5. ASSUME NEW j \in 1 .. Len(commands), j # 1
      PROVE  \E i \in 1 .. Len(commands') : j = i + 1
  <2>1. j - 1 \in 1 .. Len(commands') /\ j = (j - 1) + 1
    BY <1>2, <1>5
  <2> QED BY <2>1
<1>6. 1 \in 1 .. Len(commands)
  BY <1>2
<1>7. Known'
  BY <1>1, <1>3 DEF Known
<1>8. ReceivedInOrder'
  <2> SUFFICES ASSUME NEW i \in 1 .. Len(commands'), NEW j \in 1 .. Len(commands'),
                      commands'[i].kind = "receive", commands'[j].kind = "receive", i < j
               PROVE  commands'[i].number < commands'[j].number
    BY DEF ReceivedInOrder
  <2>1. i + 1 < j + 1
    OBVIOUS
  <2> QED BY <2>1, <1>1, <1>3 DEF ReceivedInOrder
<1>9. ParsedFirst'
  BY <1>1, <1>3 DEF ParsedFirst
<1>10. ParsedInOrder'
  <2> SUFFICES ASSUME NEW i \in 1 .. Len(commands'), NEW j \in 1 .. Len(commands'),
                      commands'[i].kind = "parsed", commands'[j].kind = "parsed", i < j,
                      commands'[i].who = commands'[j].who
               PROVE  commands'[i].number < commands'[j].number
    BY DEF ParsedInOrder
  <2>1. i + 1 < j + 1
    OBVIOUS
  <2> QED BY <2>1, <1>1, <1>3 DEF ParsedInOrder
<1> QED BY <1>2, <1>3, <1>4, <1>5, <1>6, <1>7, <1>8, <1>9, <1>10

\* A delivery that was reported is no message.
LEMMA DeliveryQueueStep ==
  ASSUME QueueInv, ExecuteDelivery
  PROVE  QueueInv'
<1>1. /\ phase = "running" /\ phase' = phase /\ Up /\ Up'
      /\ commands # <<>> /\ commands' = Tail(commands) /\ arrived' = arrived
      /\ heard' = heard /\ declined' = declined /\ Head(commands).kind = "delivery"
  BY DEF ExecuteDelivery, Executes, Up, taken
<1>2. /\ commands' \in Seq(Command)
      /\ \A i \in 1 .. Len(commands') :
           /\ i + 1 \in 1 .. Len(commands) /\ commands'[i] = commands[i + 1]
           /\ \A s : MineAt(s, i)' <=> MineAt(s, i + 1)
      /\ \A j \in 1 .. Len(commands) : j # 1 =>
           \E i \in 1 .. Len(commands') : j = i + 1
      /\ 1 \in 1 .. Len(commands)
      /\ Known' /\ ReceivedInOrder' /\ ParsedFirst' /\ ParsedInOrder'
  BY <1>1, TailStep
<1>3. Queues' /\ OnlyReceived'
  BY <1>1, <1>2 DEF QueueInv, Queues, OnlyReceived
<1>4. HeardFirst /\ HeardInOrder /\ Apart /\ Whole /\ commands \in Seq(Command)
  BY <1>1 DEF QueueInv, Ordered, Queues
<1>5. \A s : ~MineAt(s, 1)
  <2>1. commands[1].kind = "delivery"
    BY <1>1, <1>4
  <2> QED BY <2>1 DEF MineAt, Mine
<1>6. HeardInOrder'
  BY <1>1, <1>4 DEF HeardInOrder
<1>7. HeardFirst'
  BY <1>1, <1>2, <1>4 DEF HeardFirst
<1>8. Whole'
  <2> SUFFICES ASSUME NEW s \in Subs, NEW m PROVE Somewhere(s, m)' <=> Somewhere(s, m)
    BY <1>1, <1>4 DEF Whole
  <2>1. ASSUME NEW i \in 1 .. Len(commands'), MineAt(s, i)', commands'[i].number = m
        PROVE  Somewhere(s, m)
    BY <2>1, <1>2 DEF Somewhere
  <2>2. ASSUME NEW j \in 1 .. Len(commands), MineAt(s, j), commands[j].number = m
        PROVE  Somewhere(s, m)'
    <3>1. PICK i \in 1 .. Len(commands') : j = i + 1
      BY <2>2, <1>2, <1>5
    <3> QED BY <2>2, <3>1, <1>2 DEF Somewhere
  <2> QED BY <2>1, <2>2, <1>1 DEF Somewhere
<1>9. Apart'
  BY <1>1, <1>2, <1>4 DEF Apart
<1> QED BY <1>2, <1>3, <1>6, <1>7, <1>8, <1>9 DEF QueueInv, Ordered

\* A subscriber hears the first message of the queue: it is the last it heard.
LEMMA ParsedStep ==
  ASSUME QueueInv, ExecuteParsed
  PROVE  QueueInv'
<1>0. PICK who, n : who = commands[1].who /\ n = commands[1].number
  OBVIOUS
<1>1. /\ phase = "running" /\ phase' = phase /\ Up /\ Up'
      /\ commands # <<>> /\ commands' = Tail(commands) /\ arrived' = arrived
      /\ Head(commands).kind = "parsed" /\ declined' = declined
      /\ heard' = [heard EXCEPT ![Head(commands).who] = Append(@, Head(commands).number)]
  BY DEF ExecuteParsed, Executes, Up
<1>2. /\ commands' \in Seq(Command)
      /\ \A i \in 1 .. Len(commands') :
           /\ i + 1 \in 1 .. Len(commands) /\ commands'[i] = commands[i + 1]
           /\ 1 < i + 1
           /\ \A s : MineAt(s, i)' <=> MineAt(s, i + 1)
      /\ \A j \in 1 .. Len(commands) : j # 1 =>
           \E i \in 1 .. Len(commands') : j = i + 1
      /\ 1 \in 1 .. Len(commands)
      /\ Known' /\ ReceivedInOrder' /\ ParsedFirst' /\ ParsedInOrder'
  BY <1>1, TailStep
<1>3. /\ HeardFirst /\ HeardInOrder /\ Apart /\ Whole /\ commands \in Seq(Command)
      /\ declined \in [Subs -> SUBSET Numbers]
      /\ ParsedFirst /\ ParsedInOrder
      /\ heard \in [Subs -> Seq(Numbers)]
      /\ arrived \in Seq(Topics) /\ Len(arrived) <= MaxArrivals
  BY <1>1 DEF QueueInv, Ordered, Queues
<1>4. /\ Head(commands) = commands[1] /\ commands[1].kind = "parsed"
      /\ who \in Subs /\ n \in Numbers
  <2>1. Head(commands) = commands[1] /\ commands[1] \in Command
    BY <1>1, <1>3
  <2> QED BY <2>1, <1>0, <1>1, CommandFields
<1>5. heard' = [heard EXCEPT ![who] = Append(heard[who], n)]
  BY <1>0, <1>1, <1>4
<1>6. /\ \A s \in Subs : s # who => heard'[s] = heard[s]
      /\ heard'[who] = Append(heard[who], n)
      /\ heard' \in [Subs -> Seq(Numbers)]
  BY <1>3, <1>4, <1>5
<1>7. PICK K \in Nat : K = Len(heard[who])
  BY <1>3, <1>4
<1>8. /\ Len(heard'[who]) = K + 1 /\ heard'[who][K + 1] = n
      /\ \A h \in 1 .. K : heard'[who][h] = heard[who][h]
  BY <1>3, <1>4, <1>6, <1>7
<1> HIDE DEF Numbers
<1>9. MineAt(who, 1) /\ \A s : MineAt(s, 1) => s = who
  BY <1>0, <1>4 DEF MineAt, Mine
<1>10. \A s \in Subs : \A h \in 1 .. Len(heard'[s]) :
         \/ h \in 1 .. Len(heard[s]) /\ heard'[s][h] = heard[s][h]
         \/ s = who /\ h = K + 1 /\ heard'[s][h] = n
  <2> SUFFICES ASSUME NEW s \in Subs, NEW h \in 1 .. Len(heard'[s])
               PROVE  \/ h \in 1 .. Len(heard[s]) /\ heard'[s][h] = heard[s][h]
                      \/ s = who /\ h = K + 1 /\ heard'[s][h] = n
    OBVIOUS
  <2>1. CASE s = who
    <3>1. h \in 1 .. K \/ h = K + 1
      BY <2>1, <1>8
    <3> QED BY <2>1, <3>1, <1>7, <1>8
  <2>2. CASE s # who
    BY <2>2, <1>6
  <2> QED BY <2>1, <2>2
<1>11. /\ \A s \in Subs : \A h \in 1 .. Len(heard[s]) :
            h \in 1 .. Len(heard'[s]) /\ heard'[s][h] = heard[s][h]
       /\ K + 1 \in 1 .. Len(heard'[who])
  <2>1. K + 1 \in 1 .. Len(heard'[who])
    BY <1>8
  <2> SUFFICES ASSUME NEW s \in Subs, NEW h \in 1 .. Len(heard[s])
               PROVE  h \in 1 .. Len(heard'[s]) /\ heard'[s][h] = heard[s][h]
    BY <2>1
  <2>2. CASE s = who
    BY <2>2, <1>7, <1>8
  <2>3. CASE s # who
    BY <2>3, <1>6
  <2> QED BY <2>2, <2>3
<1>12. Queues' /\ OnlyReceived'
  BY <1>1, <1>2, <1>3, <1>6 DEF Queues, OnlyReceived
<1>13. HeardInOrder'
  <2> SUFFICES ASSUME NEW s \in Subs, NEW h \in 1 .. Len(heard'[s]),
                      NEW k \in 1 .. Len(heard'[s]), h < k
               PROVE  heard'[s][h] < heard'[s][k]
    BY DEF HeardInOrder
  <2>1. CASE k \in 1 .. Len(heard[s]) /\ heard'[s][k] = heard[s][k]
    <3>1. h \in 1 .. Len(heard[s]) /\ heard'[s][h] = heard[s][h]
      <4>1. ~(s = who /\ h = K + 1)
        BY <2>1, <1>7
      <4> QED BY <4>1, <1>10
    <3> QED BY <2>1, <3>1, <1>3 DEF HeardInOrder
  <2>2. CASE s = who /\ k = K + 1 /\ heard'[s][k] = n
    <3>1. h \in 1 .. Len(heard[s]) /\ heard'[s][h] = heard[s][h]
      BY <2>2, <1>10
    <3>2. heard[s][h] < commands[1].number
      BY <2>2, <3>1, <1>2, <1>3, <1>9 DEF HeardFirst
    <3> QED BY <2>2, <3>1, <3>2, <1>0
  <2> QED BY <2>1, <2>2, <1>10
<1>14. HeardFirst'
  <2> SUFFICES ASSUME NEW s \in Subs, NEW h \in 1 .. Len(heard'[s]),
                      NEW i \in 1 .. Len(commands'), MineAt(s, i)'
               PROVE  heard'[s][h] < commands'[i].number
    BY DEF HeardFirst
  <2>1. /\ i + 1 \in 1 .. Len(commands) /\ commands'[i] = commands[i + 1]
        /\ 1 < i + 1 /\ MineAt(s, i + 1)
    BY <1>2
  <2>2. CASE h \in 1 .. Len(heard[s]) /\ heard'[s][h] = heard[s][h]
    BY <2>1, <2>2, <1>3 DEF HeardFirst
  <2>3. CASE s = who /\ h = K + 1 /\ heard'[s][h] = n
    <3>1. CASE commands[i + 1].kind = "receive"
      BY <2>1, <2>3, <3>1, <1>0, <1>2, <1>3, <1>4 DEF ParsedFirst
    <3>2. CASE commands[i + 1].kind = "parsed" /\ commands[i + 1].who = who
      BY <2>1, <2>3, <3>2, <1>0, <1>2, <1>3, <1>4 DEF ParsedInOrder
    <3> QED BY <2>1, <2>3, <3>1, <3>2 DEF MineAt, Mine
  <2> QED BY <2>2, <2>3, <1>10
<1>15. Whole'
  <2> SUFFICES ASSUME NEW s \in Subs, NEW m PROVE Somewhere(s, m)' <=> Somewhere(s, m)
    BY <1>1, <1>3 DEF Whole
  <2>1. ASSUME NEW i \in 1 .. Len(commands'), MineAt(s, i)', commands'[i].number = m
        PROVE  Somewhere(s, m)
    BY <2>1, <1>2 DEF Somewhere
  <2>2. ASSUME NEW h \in 1 .. Len(heard'[s]), heard'[s][h] = m
        PROVE  Somewhere(s, m)
    <3>1. CASE h \in 1 .. Len(heard[s]) /\ heard'[s][h] = heard[s][h]
      BY <2>2, <3>1 DEF Somewhere
    <3>2. CASE s = who /\ h = K + 1 /\ heard'[s][h] = n
      BY <2>2, <3>2, <1>0, <1>2, <1>9 DEF Somewhere
    <3> QED BY <3>1, <3>2, <1>10
  <2>3. ASSUME NEW h \in 1 .. Len(heard[s]), heard[s][h] = m
        PROVE  Somewhere(s, m)'
    BY <2>3, <1>11 DEF Somewhere
  <2>4. ASSUME NEW j \in 1 .. Len(commands), MineAt(s, j), commands[j].number = m
        PROVE  Somewhere(s, m)'
    <3>1. CASE j = 1
      <4>1. s = who /\ m = n
        BY <2>4, <3>1, <1>0, <1>9
      <4>2. PICK h : h = K + 1
        OBVIOUS
      <4>3. h \in 1 .. Len(heard'[s]) /\ heard'[s][h] = m
        BY <4>1, <4>2, <1>8, <1>11
      <4> QED BY <4>3 DEF Somewhere
    <3>2. CASE j # 1
      <4>1. PICK i \in 1 .. Len(commands') : j = i + 1
        BY <3>2, <1>2
      <4> QED BY <2>4, <4>1, <1>2 DEF Somewhere
    <3> QED BY <3>1, <3>2
  <2>5. m \in declined'[s] <=> m \in declined[s]
    BY <1>1
  <2> QED BY <2>1, <2>2, <2>3, <2>4, <2>5 DEF Somewhere
<1>16. Apart'
  <2> SUFFICES ASSUME NEW s \in Subs, NEW m \in declined[s]
      PROVE /\ \A i \in 1 .. Len(commands') : MineAt(s, i)' => commands'[i].number # m
            /\ \A h \in 1 .. Len(heard'[s]) : heard'[s][h] # m
    BY <1>1 DEF Apart
  <2>1. ASSUME NEW i \in 1 .. Len(commands'), MineAt(s, i)' PROVE commands'[i].number # m
    <3>1. /\ i + 1 \in 1 .. Len(commands) /\ commands'[i] = commands[i + 1]
          /\ MineAt(s, i + 1)
      BY <2>1, <1>2
    <3> QED BY <3>1, <1>1, <1>3 DEF Apart
  <2>2. ASSUME NEW h \in 1 .. Len(heard'[s]) PROVE heard'[s][h] # m
    <3>1. CASE h \in 1 .. Len(heard[s]) /\ heard'[s][h] = heard[s][h]
      BY <3>1, <1>1, <1>3 DEF Apart
    <3>2. CASE s = who /\ h = K + 1 /\ heard'[s][h] = n
      BY <3>2, <1>0, <1>1, <1>2, <1>3, <1>9 DEF Apart
    <3> QED BY <2>2, <3>1, <3>2, <1>10
  <2> QED BY <2>1, <2>2
<1> QED BY <1>2, <1>12, <1>13, <1>14, <1>15, <1>16 DEF QueueInv, Ordered

\* A report of a delivery is put behind the messages.
LEMMA ReportStep ==
  ASSUME QueueInv, NEW token \in Tokens, DeliveryComplete(token)
  PROVE  QueueInv'
<1>1. /\ commands' = Append(commands, Delivery(token)) /\ arrived' = arrived
      /\ heard' = heard /\ declined' = declined /\ phase' = phase
  BY DEF DeliveryComplete, taken
<1>2. /\ commands \in Seq(Command) /\ Delivery(token) \in Command
      /\ Delivery(token).kind = "delivery"
  <2>1. Delivery(token).kind = "delivery"
    BY DEF Delivery
  <2> QED BY <2>1, CommandTypes DEF QueueInv, Queues
<1>3. /\ commands' \in Seq(Command)
      /\ \A i \in 1 .. Len(commands) :
           i \in 1 .. Len(commands') /\ commands'[i] = commands[i]
      /\ \A i \in 1 .. Len(commands') :
           \/ i \in 1 .. Len(commands) /\ commands'[i] = commands[i]
           \/ commands'[i].kind = "delivery"
  BY <1>1, <1>2
<1>4. /\ \A s : \A i \in 1 .. Len(commands) : MineAt(s, i)' <=> MineAt(s, i)
      /\ \A s : \A i \in 1 .. Len(commands') : MineAt(s, i)' =>
           i \in 1 .. Len(commands) /\ commands'[i] = commands[i] /\ MineAt(s, i)
  BY <1>1, <1>3 DEF MineAt, Mine
<1>5. Queues' /\ OnlyReceived'
  BY <1>1, <1>3 DEF QueueInv, Queues, OnlyReceived
<1> SUFFICES ASSUME Up PROVE Ordered' /\ Apart' /\ Whole'
  BY <1>1, <1>5 DEF QueueInv, Up, Ordered, Apart, Whole
<1>6. /\ Known /\ ReceivedInOrder /\ ParsedFirst /\ ParsedInOrder
      /\ HeardFirst /\ HeardInOrder /\ Apart /\ Whole
  BY DEF QueueInv, Ordered
<1>7. Known'
  BY <1>1, <1>3, <1>6 DEF Known
<1>8. ReceivedInOrder' /\ ParsedFirst' /\ ParsedInOrder'
  <2>1. ReceivedInOrder'
    BY <1>3, <1>6 DEF ReceivedInOrder
  <2>2. ParsedFirst'
    BY <1>3, <1>6 DEF ParsedFirst
  <2>3. ParsedInOrder'
    BY <1>3, <1>6 DEF ParsedInOrder
  <2> QED BY <2>1, <2>2, <2>3
<1>9. HeardFirst' /\ HeardInOrder'
  BY <1>1, <1>4, <1>6 DEF HeardFirst, HeardInOrder
<1>10. Whole'
  <2>1. \A s \in Subs : \A m : Somewhere(s, m)' <=> Somewhere(s, m)
    BY <1>1, <1>3, <1>4 DEF Somewhere
  <2> QED BY <2>1, <1>1, <1>6 DEF Whole
<1>11. Apart'
  BY <1>1, <1>4, <1>6 DEF Apart
<1> QED BY <1>7, <1>8, <1>9, <1>10, <1>11 DEF Ordered

\* The other actions leave the messages alone.
LEMMA OtherQueueStep ==
  ASSUME QueueInv, UNCHANGED <<commands, arrived, taken>>, Up' => Up,
         phase' \in {"new", "starting"} => phase \in {"new", "starting"}
  PROVE  QueueInv'
<1>1. /\ commands' = commands /\ arrived' = arrived
      /\ heard' = heard /\ declined' = declined
  BY DEF taken
<1>2. Queues' /\ OnlyReceived'
  BY <1>1 DEF QueueInv, Queues, OnlyReceived
<1>3. \A s, i : MineAt(s, i)' <=> MineAt(s, i)
  BY <1>1 DEF MineAt, Mine
<1>4. Ordered'
  BY <1>1, <1>3 DEF QueueInv, Ordered, Known, ReceivedInOrder, ParsedFirst, ParsedInOrder,
                    HeardFirst, HeardInOrder
<1>5. \A s, m : Somewhere(s, m)' <=> Somewhere(s, m)
  BY <1>1, <1>3 DEF Somewhere
<1>6. Whole'
  BY <1>1, <1>5 DEF QueueInv, Whole
<1>7. Apart'
  BY <1>1, <1>3 DEF QueueInv, Apart
<1> QED BY <1>2, <1>4, <1>6, <1>7 DEF QueueInv

LEMMA ExitStep ==
  ASSUME QueueInv, Exit
  PROVE  QueueInv'
<1>1. /\ phase' = "ended" /\ commands' = <<>> /\ arrived' = arrived
      /\ heard' = heard /\ declined' = declined
  BY DEF Exit, taken
<1>2. Queues'
  BY <1>1 DEF QueueInv, Queues
<1> QED BY <1>1, <1>2 DEF QueueInv, OnlyReceived, Ordered, Apart, Whole, Up

LEMMA QueueStep == QueueInv /\ TableInv /\ [Next]_vars => QueueInv'
<1> SUFFICES ASSUME QueueInv, TableInv, [Next]_vars PROVE QueueInv'
  OBVIOUS
<1> USE DEF Up
<1>1. CASE Connect \/ ConnectFails \/ SubscribeFails \/ Run
  BY <1>1, OtherQueueStep DEF Connect, ConnectFails, SubscribeFails, Run
<1>2. CASE \E s \in Subs, t \in Topics : Subscribe(s, t) \/ Unsubscribe(s, t)
  BY <1>2, OtherQueueStep DEF Subscribe, Unsubscribe
<1>3. CASE \E t \in Topics : Arrive(t)
  BY <1>3, ArriveStep
<1>4. CASE \E token \in Tokens : DeliveryComplete(token)
  BY <1>4, ReportStep
<1>5. CASE ExecuteReceive \/ ExecuteParsed \/ ExecuteDelivery
  BY <1>5, ReceiveStep, ParsedStep, DeliveryQueueStep
<1>6. CASE \E q \in Packets : Publish(q) \/ PublishFails(q)
  BY <1>6, OtherQueueStep DEF Publish, PublishFails
<1>7. CASE Exit
  BY <1>7, ExitStep
<1>8. CASE ServiceReleased \/ Release
  BY <1>8, OtherQueueStep DEF ServiceReleased, Release
<1>9. CASE UNCHANGED vars
  BY <1>9, OtherQueueStep DEF vars
<1> QED BY <1>1, <1>2, <1>3, <1>4, <1>5, <1>6, <1>7, <1>8, <1>9 DEF Next

LEMMA QueueInvariant == Spec => []QueueInv
BY QueueInit, QueueStep, TableInvariant, PTL DEF Spec

\* While the loop runs, every message of a subscriber's topics is executed by
\* it, once and in order, waits in the queue, or was turned down by the
\* subscriber itself when it was called with it: none is lost or doubled
\* between the library's thread, the tables and the queue.
THEOREM EveryMessageOfferedCorrect == Spec => []EveryMessageOffered
<1>1. QueueInv => EveryMessageOffered
  <2> SUFFICES ASSUME QueueInv, phase = "running", NEW s \in Subs
      PROVE  /\ Range(heard[s]) \cup QueuedFor(s) \cup declined[s] = SentTo(s)
             /\ Range(heard[s]) \cap QueuedFor(s) = {}
             /\ declined[s] \cap (Range(heard[s]) \cup QueuedFor(s)) = {}
             /\ \A i, j \in 1 .. Len(heard[s]) : i < j => heard[s][i] < heard[s][j]
    BY DEF EveryMessageOffered
  <2>1. /\ Apart /\ Up /\ HeardFirst /\ HeardInOrder /\ heard[s] \in Seq(Numbers)
    BY DEF QueueInv, Ordered, Queues, Up
  <2>2. \A m : m \in Range(heard[s]) <=> \E h \in 1 .. Len(heard[s]) : heard[s][h] = m
    BY <2>1 DEF Range
  <2>3. \A m : m \in QueuedFor(s) <=>
          \E i \in 1 .. Len(commands) : MineAt(s, i) /\ commands[i].number = m
    BY DEF QueuedFor, MineAt
  <2>4. \A m : m \in SentTo(s) <=> m \in 1 .. Len(arrived) /\ arrived[m] \in Wants[s]
    BY DEF SentTo
  <2>5. \A m : Somewhere(s, m) <=> m \in 1 .. Len(arrived) /\ arrived[m] \in Wants[s]
    BY <2>1 DEF QueueInv, Whole, Up
  <2>6. Range(heard[s]) \cup QueuedFor(s) \cup declined[s] = SentTo(s)
    BY <2>2, <2>3, <2>4, <2>5 DEF Somewhere
  <2>7. ASSUME NEW m \in Range(heard[s]), m \in QueuedFor(s) PROVE FALSE
    <3>1. m \in Int
      BY <2>1, <2>2, ChannelAssumption DEF Numbers
    <3>2. PICK h \in 1 .. Len(heard[s]) : heard[s][h] = m
      BY <2>2, <2>7
    <3>3. PICK i \in 1 .. Len(commands) : MineAt(s, i) /\ commands[i].number = m
      BY <2>3, <2>7
    <3>4. m < m
      BY <3>2, <3>3, <2>1 DEF HeardFirst
    <3> QED BY <3>1, <3>4
  <2>8. ASSUME NEW m \in declined[s] PROVE m \notin Range(heard[s]) /\ m \notin QueuedFor(s)
    BY <2>1, <2>2, <2>3 DEF Apart
  <2> QED BY <2>1, <2>6, <2>7, <2>8 DEF HeardInOrder
<1> QED BY QueueInvariant, <1>1, PTL

\* Every variable keeps the type Channel gives it: the tables hold tokens of
\* this service's subscribers, the queue commands, _packets packets.
THEOREM TypeCorrect == Spec => []TypeOK
<1>1. PacketInv /\ TableInv /\ QueueInv => TypeOK
  BY DEF PacketInv, Packaged, TableInv, Tables, QueueInv, Queues, Phases, TypeOK
<1> QED BY PacketInvariant, TableInvariant, QueueInvariant, <1>1, PTL
=============================================================================
