------------------------------ MODULE Channel ------------------------------
(***************************************************************************)
(* A service on the MQTT bus: net::Application brings up the channel (its  *)
(* Paho implementation) and the service, whose Subscribers are entered in  *)
(* the channel's topic tables; the MQTT library's thread turns arriving    *)
(* messages and completed deliveries into commands for the main thread;    *)
(* published packets are kept until their delivery is reported; release    *)
(* takes everything down.                                                  *)
(*                                                                         *)
(* The queue of commands is the FIFO that CommandQueue specifies and       *)
(* EventLoop implements.  The library is external: it delivers what the    *)
(* broker sends for subscribed topics, in order.  Messages are published   *)
(* with QOS 0, for which it need not set the delivery token the code       *)
(* reads; any token may come back, from publish and in a report.           *)
(***************************************************************************)
EXTENDS Integers, Sequences, SequencesExt

CONSTANTS
  Subs,         \* Subscriber objects of the service
  Wants,        \* the topics each subscribes to when the service initializes
  Topics,
  Tokens,       \* MQTTClient_deliveryToken
  Packets,      \* the packets publish allocates
  MaxArrivals   \* bound: messages the broker sends

ASSUME ChannelAssumption ==
  /\ IsFiniteSet(Subs)
  /\ Wants \in [Subs -> SUBSET Topics]
  /\ MaxArrivals \in Nat

VARIABLES
  phase,     \* "new", "starting", "running", "ended", "closing", "released"
  broker,    \* the topics this client subscribed to at the broker
  topics,    \* Channel::Private::_topics: for each topic the next token and
             \* the subscribers by token
  held,      \* Subscriber::Private::_topics: for each topic the token given
  commands,  \* the executor's queue
  arrived,   \* the topics of the messages the library handed over, in order
  heard,     \* which of them each subscriber has executed
  declined,  \* which of them a subscriber was called with and made no command of
  packets,   \* _packets: the packet kept under each delivery token
  heap,      \* whether each packet is allocated
  lost       \* packets whose entry another one took over

net    == <<broker, topics, held>>
taken  == <<heard, declined>>
memory == <<packets, heap, lost>>
vars   == <<phase, net, commands, arrived, taken, memory>>

None == <<>>
Receive(n)   == [kind |-> "receive", number |-> n]
Parsed(s, n) == [kind |-> "parsed", who |-> s, number |-> n]
Delivery(t)  == [kind |-> "delivery", token |-> t]

Put(f, x, y) == [z \in DOMAIN f \cup {x} |-> IF z = x THEN y ELSE f[z]]
Drop(f, x)   == [z \in DOMAIN f \ {x} |-> f[z]]

Init ==
  /\ phase = "new"
  /\ broker = {} /\ topics = None
  /\ held = [s \in Subs |-> None]
  /\ commands = <<>> /\ arrived = <<>>
  /\ heard = [s \in Subs |-> <<>>]
  /\ declined = [s \in Subs |-> {}]
  /\ packets = None
  /\ heap = [p \in Packets |-> "none"] /\ lost = {}

----------------------------------------------------------------------------
(***************************************************************************)
(* net::Application::initialize                                            *)
(***************************************************************************)
\* The channel connects with a clean session.  When the settings, create or
\* connect fail nothing is left and initialize returns the error.
Connect ==
  /\ phase = "new"
  /\ phase' = "starting"
  /\ UNCHANGED <<net, commands, arrived, taken, memory>>

ConnectFails ==
  /\ phase = "new"
  /\ phase' = "released"
  /\ UNCHANGED <<net, commands, arrived, taken, memory>>

NoTopic == [token |-> 0, subs |-> None]

EnteredSame(topic, s) ==   \* mutant: the token is not advanced
  [token |-> topic.token, subs |-> Put(topic.subs, topic.token, s)]
\* Topic::subscribe enters the subscriber under one token and returns the
\* next.
Entered(topic, s) ==
  [token |-> topic.token + 1, subs |-> Put(topic.subs, topic.token, s)]

SubscribeLocally(s, t) ==   \* mutant: only the first topic goes to the broker
  /\ phase = "starting"
  /\ t \in Wants[s] /\ t \notin DOMAIN held[s]
  /\ broker' = IF topics = None THEN {t} ELSE broker
  /\ LET topic == Entered(IF t \in DOMAIN topics THEN topics[t] ELSE NoTopic, s)
     IN  /\ topics' = Put(topics, t, topic)
         /\ held' = [held EXCEPT ![s] = Put(@, t, topic.token)]
  /\ UNCHANGED <<phase, commands, arrived, taken, memory>>
\* Subscriber::subscribe: once for each topic; the first subscriber of a
\* topic subscribes at the broker, before it is in the table.
Subscribe(s, t) ==
  /\ phase = "starting"
  /\ t \in Wants[s] /\ t \notin DOMAIN held[s]
  /\ broker' = broker \cup (IF t \in DOMAIN topics THEN {} ELSE {t})
  /\ LET topic == Entered(IF t \in DOMAIN topics THEN topics[t] ELSE NoTopic, s)
     IN  /\ topics' = Put(topics, t, topic)
         /\ held' = [held EXCEPT ![s] = Put(@, t, topic.token)]
  /\ UNCHANGED <<phase, commands, arrived, taken, memory>>

\* A subscription the broker refuses makes the service's initialize fail: the
\* channel is released, the loop never runs.
SubscribeFails ==
  /\ phase = "starting"
  /\ \E s \in Subs : \E t \in Wants[s] \ DOMAIN held[s] : t \notin DOMAIN topics
  /\ phase' = "closing"
  /\ UNCHANGED <<net, commands, arrived, taken, memory>>

Run ==
  /\ phase = "starting"
  /\ \A s \in Subs : DOMAIN held[s] = Wants[s]
  /\ phase' = "running"
  /\ UNCHANGED <<net, commands, arrived, taken, memory>>

----------------------------------------------------------------------------
(***************************************************************************)
(* The library's thread, from the connection to MQTTClient_destroy.        *)
(***************************************************************************)
Connected == phase \in {"starting", "running", "ended", "closing"}

Arrive(t) ==
  /\ Connected /\ t \in broker /\ Len(arrived) < MaxArrivals
  /\ arrived' = Append(arrived, t)
  /\ commands' = Append(commands, Receive(Len(arrived) + 1))
  /\ UNCHANGED <<phase, net, taken, memory>>

DeliveryComplete(token) ==
  /\ Connected /\ \E p \in Packets : heap[p] # "none"
  /\ ~Contains(commands, Delivery(token))   \* bound: one report at a time
  /\ commands' = Append(commands, Delivery(token))
  /\ UNCHANGED <<phase, net, arrived, taken, memory>>

----------------------------------------------------------------------------
(***************************************************************************)
(* Commands on the main thread.                                            *)
(***************************************************************************)
Executes(kind) ==
  /\ phase = "running"
  /\ commands # <<>> /\ Head(commands).kind = kind

\* Some of a table's tokens, in the order of the map.
InOrder(keys) ==
  {q \in UNION {[1 .. n -> keys] : n \in 0 .. Cardinality(keys)} :
     \A i, j \in DOMAIN q : i < j => q[i] < q[j]}

\* The subscribers of the head message's topic, by their tokens.
Called == LET t == arrived[Head(commands).number]
          IN  IF t \in DOMAIN topics THEN topics[t].subs ELSE None

\* The subscribers under the tokens `made` make a command of the head message,
\* those under the tokens `passed` do not.
Take(made, passed) ==
  LET n == Head(commands).number IN
  /\ commands' = Tail(commands) \o [i \in 1 .. Len(made) |-> Parsed(Called[made[i]], n)]
  /\ declined' = [s \in Subs |->
       declined[s] \cup {m \in {n} : \E k \in passed : Called[k] = s}]

ReceiveStops ==   \* mutant: the first subscriber that makes none ends the loop
  /\ Executes("receive")
  /\ \E made \in InOrder(DOMAIN Called) : \E passed \in SUBSET (DOMAIN Called \ Range(made)) :
       /\ passed = {} => Range(made) = DOMAIN Called
       /\ \A k \in passed : \A l \in DOMAIN Called : l < k <=> l \in Range(made)
       /\ Take(made, passed)
  /\ UNCHANGED <<phase, net, arrived, heard, memory>>
\* Channel::Private::received calls every subscriber of the topic in the order
\* of their tokens.  Each makes a command of its own of the message, or none:
\* the packet is too short, the service's parse returns NULL, or the command
\* cannot be scheduled.
ExecuteReceive ==
  /\ Executes("receive")
  /\ \E made \in InOrder(DOMAIN Called) : Take(made, DOMAIN Called \ Range(made))
  /\ UNCHANGED <<phase, net, arrived, heard, memory>>

\* The service's own command.
ExecuteParsed ==
  /\ Executes("parsed")
  /\ commands' = Tail(commands)
  /\ heard' = [heard EXCEPT ![Head(commands).who] = Append(@, Head(commands).number)]
  /\ UNCHANGED <<phase, net, arrived, declined, memory>>

DeliveryKeepsEntry ==   \* mutant: the entry is not erased
  /\ Executes("delivery")
  /\ commands' = Tail(commands)
  /\ LET token == Head(commands).token IN
       heap' = [p \in Packets |->
         IF token \in DOMAIN packets /\ packets[token] = p THEN "freed" ELSE heap[p]]
  /\ UNCHANGED <<phase, net, arrived, taken, packets, lost>>
\* The packet kept under that token is deleted.
ExecuteDelivery ==
  /\ Executes("delivery")
  /\ commands' = Tail(commands)
  /\ LET token == Head(commands).token IN
       IF token \in DOMAIN packets
       THEN /\ heap' = [heap EXCEPT ![packets[token]] = "freed"]
            /\ packets' = Drop(packets, token)
       ELSE UNCHANGED <<heap, packets>>
  /\ UNCHANGED <<phase, net, arrived, taken, lost>>

\* A command or a callback publishes.  What was kept under the same token is
\* overwritten, and never deleted.
Publish(p) ==
  /\ phase = "running" /\ heap[p] = "none"
  /\ \E token \in Tokens :
       /\ packets' = Put(packets, token, p)
       /\ lost' = lost \cup (IF token \in DOMAIN packets THEN {packets[token]} ELSE {})
  /\ heap' = [heap EXCEPT ![p] = "allocated"]
  /\ UNCHANGED <<phase, net, commands, arrived, taken>>

PublishFails(p) ==
  /\ phase = "running" /\ heap[p] = "none"
  /\ heap' = [heap EXCEPT ![p] = "freed"]
  /\ UNCHANGED <<phase, net, commands, arrived, taken, packets, lost>>

----------------------------------------------------------------------------
\* The loop ends, on a signal or because the connection was lost, and drops
\* what is queued.
Exit ==
  /\ phase = "running"
  /\ phase' = "ended"
  /\ commands' = <<>>
  /\ UNCHANGED <<net, arrived, taken, memory>>

\* The service's release: each subscriber gives back the token it holds.  A
\* topic without subscribers leaves the table; the broker is not told.
Unsubscribed(topic, token) ==
  [token |-> topic.token, subs |-> Drop(topic.subs, token)]

Unsubscribe(s, t) ==
  /\ phase = "ended" /\ t \in DOMAIN held[s]
  /\ held' = [held EXCEPT ![s] = Drop(@, t)]
  /\ IF t \notin DOMAIN topics THEN UNCHANGED topics
     ELSE LET topic == Unsubscribed(topics[t], held[s][t])
          IN  topics' = IF topic.subs = None THEN Drop(topics, t)
                                             ELSE Put(topics, t, topic)
  /\ UNCHANGED <<phase, broker, commands, arrived, taken, memory>>

ServiceReleased ==
  /\ phase = "ended" /\ \A s \in Subs : held[s] = None
  /\ phase' = "closing"
  /\ UNCHANGED <<net, commands, arrived, taken, memory>>

\* paho::Channel::release: the client is destroyed, and with it its thread;
\* the packets still kept are deleted.
Release ==
  /\ phase = "closing"
  /\ phase' = "released"
  /\ heap' = [p \in Packets |-> IF p \in Range(packets) THEN "freed" ELSE heap[p]]
  /\ packets' = None
  /\ UNCHANGED <<net, commands, arrived, taken, lost>>

----------------------------------------------------------------------------
Next ==
  \/ Connect \/ ConnectFails \/ SubscribeFails \/ Run
  \/ \E s \in Subs, t \in Topics : Subscribe(s, t) \/ Unsubscribe(s, t)
  \/ \E t \in Topics : Arrive(t)
  \/ \E token \in Tokens : DeliveryComplete(token)
  \/ ExecuteReceive \/ ExecuteParsed \/ ExecuteDelivery
  \/ \E p \in Packets : Publish(p) \/ PublishFails(p)
  \/ Exit \/ ServiceReleased \/ Release

Spec == Init /\ [][Next]_vars
----------------------------------------------------------------------------
Numbers == 1 .. MaxArrivals
Command ==
  [kind : {"receive"}, number : Numbers] \cup
  [kind : {"parsed"}, who : Subs, number : Numbers] \cup
  [kind : {"delivery"}, token : Tokens]

TypeOK ==
  /\ phase \in {"new", "starting", "running", "ended", "closing", "released"}
  /\ broker \subseteq Topics
  /\ DOMAIN topics \subseteq Topics
  /\ \A t \in DOMAIN topics :
       /\ topics[t].token \in 1 .. Cardinality(Subs)
       /\ DOMAIN topics[t].subs \subseteq 0 .. topics[t].token - 1
       /\ Range(topics[t].subs) \subseteq Subs
  /\ \A s \in Subs : DOMAIN held[s] \subseteq Wants[s]
  /\ commands \in Seq(Command)
  /\ arrived \in Seq(Topics) /\ Len(arrived) <= MaxArrivals
  /\ heard \in [Subs -> Seq(Numbers)]
  /\ declined \in [Subs -> SUBSET Numbers]
  /\ DOMAIN packets \subseteq Tokens /\ Range(packets) \subseteq Packets
  /\ heap \in [Packets -> {"none", "allocated", "freed"}]
  /\ lost \subseteq Packets

\* While the loop runs, the messages of a subscriber's topics, all of them from
\* the first subscription at the broker on, are each in one place: executed, in
\* the order the library handed them over, queued, or turned down by the
\* subscriber itself.  What other subscribers of the topic do with a message,
\* and messages that came before the table had an entry for them, change
\* nothing.
Mine(s, c) == \/ c.kind = "receive" /\ arrived[c.number] \in Wants[s]
              \/ c.kind = "parsed" /\ c.who = s
QueuedFor(s) ==
  {commands[i].number : i \in {j \in 1 .. Len(commands) : Mine(s, commands[j])}}
SentTo(s) == {n \in 1 .. Len(arrived) : arrived[n] \in Wants[s]}

EveryMessageOffered ==
  phase = "running" =>
    \A s \in Subs :
      /\ Range(heard[s]) \cup QueuedFor(s) \cup declined[s] = SentTo(s)
      /\ Range(heard[s]) \cap QueuedFor(s) = {}
      /\ declined[s] \cap (Range(heard[s]) \cup QueuedFor(s)) = {}
      /\ \A i, j \in 1 .. Len(heard[s]) : i < j => heard[s][i] < heard[s][j]

\* The broker sends every topic the table has subscribers for.
TablesMatchBroker == Connected => DOMAIN topics \subseteq broker

\* Whatever tokens the library returns and reports: no entry points to a
\* packet that was deleted or to one another entry holds, and after release
\* the only packets left are those that lost their entry to another one.
PacketsAccounted ==
  /\ \A token \in DOMAIN packets :
       /\ heap[packets[token]] = "allocated"
       /\ packets[token] \notin lost
       /\ \A other \in DOMAIN packets \ {token} : packets[other] # packets[token]
  /\ phase = "released" => {p \in Packets : heap[p] = "allocated"} \subseteq lost
=============================================================================
