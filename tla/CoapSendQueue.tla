--------------------------- MODULE CoapSendQueue ---------------------------
(***************************************************************************)
(* libcoap's message layer as the gateway links it: the queue of           *)
(* outstanding confirmable messages (coap_context_t.sendqueue), the loop   *)
(* that retransmits what is due, and what an arriving ACK, RST or separate *)
(* response does to the queue.                                             *)
(*                                                                         *)
(* The queue is a linked list in which the first element's t is relative   *)
(* to sendqueue_basetime and every other's to the element before it.  One  *)
(* thread runs the library; the network loses, repeats and delays what it  *)
(* likes, so an answer to a message may arrive any time after its first    *)
(* transmission, and any number of times.                                  *)
(***************************************************************************)
EXTENDS Integers, Sequences, Functions, FiniteSets

CONSTANTS
  Msgs,             \* confirmable messages; each is handed over once
  Exchange,         \* the peer and token of each
  Notifications,    \* those that notify an observer
  Resources,        \* the context's resources (none in a client)
  TicksPerSecond,   \* COAP_TICKS_PER_SECOND
  Randoms,          \* the bytes prng() returns
  MaxRetransmit,    \* COAP_DEFAULT_MAX_RETRANSMIT
  MaxLag,           \* bound: how late the loop looks at what is due
  MaxSendErrors     \* bound: failing network_send calls

ASSUME TimingAssumption ==
  /\ TicksPerSecond \in Nat \ {0}
  /\ Notifications \subseteq Msgs
  /\ Randoms \subseteq 0 .. 255
  /\ MaxRetransmit \in Nat /\ MaxLag \in Nat /\ MaxSendErrors \in Nat

VARIABLES
  elapsed,     \* coap_ticks since sendqueue_basetime: only this is ever used
  queue,       \* sendqueue
  retrying,    \* inside the loop that retransmits what is due
  outcome,     \* what became of each message
  waited,      \* ticks since the last transmission of each message, counted
               \* up to two seconds
  errors       \* how many network_send calls failed

vars == <<elapsed, queue, retrying, outcome, waited, errors>>

Invalid == "invalid"   \* COAP_INVALID_TID
\* "Valid transaction ids are greater or equal zero", and this one is -1.
ASSUME IdAssumption == Invalid \notin Msgs

Settled  == {"refused", "answered", "gaveup"}
Outcomes == {"new", "waiting"} \cup Settled

(***************************************************************************)
(* calc_timeout: 2 seconds times 1 to 1.5, in fixed point with 6 fraction  *)
(* bits, rounded at each step.                                             *)
(***************************************************************************)
Rounded(val, unit) == (val + unit \div 2) \div unit

CalcTimeout(r) ==
  LET factor == Rounded((96 - 64) * r, 256) + 64
      timeout == Rounded(factor * 128, 64)
  IN  Rounded(TicksPerSecond * timeout, 64)

Timeouts == {CalcTimeout(r) : r \in Randoms}
AckTimeout == 2 * TicksPerSecond   \* COAP_DEFAULT_ACK_TIMEOUT seconds

(***************************************************************************)
(* The list and its relative times.                                        *)
(***************************************************************************)
\* When element i of q is due, relative to the base time.
Offset(q, i) ==
  LET upTo[k \in 0 .. i] == IF k = 0 THEN 0 ELSE upTo[k - 1] + q[k].t
  IN  upTo[i]

Delayed(q, t) == IF q = <<>> THEN q ELSE <<[q[1] EXCEPT !.t = @ + t]>> \o Tail(q)

CoapInsertAbsolute(q, node) ==   \* mutant: what follows keeps its time
  LET before == Cardinality({i \in 1 .. Len(q) : Offset(q, i) <= node.t})
  IN  SubSeq(q, 1, before)
        \o <<[node EXCEPT !.t = @ - Offset(q, before)]>>
        \o SubSeq(q, before + 1, Len(q))
\* A node's t is relative to the base time when it is inserted.
CoapInsertNode(q, node) ==
  LET before == Cardinality({i \in 1 .. Len(q) : Offset(q, i) <= node.t})
      t      == node.t - Offset(q, before)
  IN  SubSeq(q, 1, before)
        \o <<[node EXCEPT !.t = t]>>
        \o Delayed(SubSeq(q, before + 1, Len(q)), -t)

CoapPopNext(q) == Delayed(Tail(q), Head(q).t)

\* coap_remove_from_queue takes out the first element with that id, if any.
Found(q, id) == \E i \in 1 .. Len(q) : q[i].id = id
FirstWith(q, id) ==
  CHOOSE i \in 1 .. Len(q) : q[i].id = id /\ \A j \in 1 .. i - 1 : q[j].id # id
CoapRemoveFromQueue(q, id) ==
  LET i == FirstWith(q, id)
  IN  SubSeq(q, 1, i - 1) \o Delayed(SubSeq(q, i + 1, Len(q)), q[i].t)

\* coap_cancel_all_messages: those that follow a cancelled one keep their t,
\* and so move forward in time.
CoapCancelAll(q, x) ==
  LET kept[k \in 0 .. Len(q)] ==
        IF k = 0 THEN <<>>
        ELSE IF Exchange[q[k].msg] = x THEN kept[k - 1]
        ELSE Append(kept[k - 1], q[k])
  IN  kept[Len(q)]
Cancelled(q, x) == {q[i].msg : i \in {j \in 1 .. Len(q) : Exchange[q[j].msg] = x}}

Queued == {queue[i].msg : i \in 1 .. Len(queue)}
HeadDue(q) == q # <<>> /\ q[1].t <= elapsed

Settle(ms, how) == outcome' = [m \in Msgs |-> IF m \in ms THEN how ELSE outcome[m]]
----------------------------------------------------------------------------
Init ==
  /\ elapsed = 0
  /\ queue = <<>> /\ retrying = FALSE
  /\ outcome = [m \in Msgs |-> "new"]
  /\ waited = [m \in Msgs |-> 0]
  /\ errors = 0

\* Time passes while the loop waits; between messages it does not matter.
Tick ==
  /\ ~retrying
  /\ queue # <<>> /\ elapsed < queue[1].t + MaxLag
  /\ elapsed' = elapsed + 1
  /\ waited' = [m \in Msgs |->
       IF m \notin Queued THEN 0
       ELSE IF waited[m] < AckTimeout THEN waited[m] + 1 ELSE waited[m]]
  /\ UNCHANGED <<queue, retrying, outcome, errors>>

----------------------------------------------------------------------------
(***************************************************************************)
(* coap_send_confirmed                                                     *)
(***************************************************************************)
SendConfirmed(m) ==
  /\ ~retrying /\ outcome[m] = "new"
  /\ \E timeout \in Timeouts :
       queue' = CoapInsertNode(queue,
         [msg |-> m, id |-> m, timeout |-> timeout, cnt |-> 0,
          t |-> timeout + IF queue = <<>> THEN 0 ELSE elapsed])
  /\ elapsed' = IF queue = <<>> THEN 0 ELSE elapsed
  /\ Settle({m}, "waiting")
  /\ UNCHANGED <<retrying, waited, errors>>

\* network_send failed: the node is freed and the caller told.
SendRefused(m) ==
  /\ ~retrying /\ outcome[m] = "new" /\ errors < MaxSendErrors
  /\ errors' = errors + 1
  /\ Settle({m}, "refused")
  /\ UNCHANGED <<elapsed, queue, retrying, waited>>

----------------------------------------------------------------------------
\* 1 << n
PowerOfTwo[n \in Nat] == IF n = 0 THEN 1 ELSE 2 * PowerOfTwo[n - 1]

(***************************************************************************)
(* The loop of the server, the client and net::CoAP::Endpoint: while the   *)
(* first message is due, pop it and coap_retransmit it.  No packet is read *)
(* in between.                                                             *)
(***************************************************************************)
RetransmitOnceMore ==   \* mutant: <= for <
  /\ HeadDue(queue) /\ Head(queue).cnt <= MaxRetransmit
  /\ LET node == Head(queue) IN
       queue' = CoapInsertNode(CoapPopNext(queue),
         [node EXCEPT !.cnt = @ + 1, !.t = node.timeout * PowerOfTwo[node.cnt + 1]])
  /\ retrying' = HeadDue(queue')
  /\ waited' = [waited EXCEPT ![Head(queue).msg] = 0]
  /\ UNCHANGED <<elapsed, outcome, errors>>
RetransmitUncounted ==   \* mutant: retransmit_cnt is not incremented
  /\ HeadDue(queue) /\ Head(queue).cnt < MaxRetransmit
  /\ LET node == Head(queue) IN
       queue' = CoapInsertNode(CoapPopNext(queue), [node EXCEPT !.t = node.timeout])
  /\ retrying' = HeadDue(queue')
  /\ waited' = [waited EXCEPT ![Head(queue).msg] = 0]
  /\ UNCHANGED <<elapsed, outcome, errors>>
\* The doubled timeout becomes the node's t as it is: relative to a base
\* time that was set when the queue was last empty, and not to now.
Retransmit ==
  /\ HeadDue(queue) /\ Head(queue).cnt < MaxRetransmit
  /\ \E ok \in BOOLEAN :
       /\ ok \/ errors < MaxSendErrors
       /\ errors' = IF ok THEN errors ELSE errors + 1
       /\ LET node == Head(queue) IN
            queue' = CoapInsertNode(CoapPopNext(queue),
              [node EXCEPT !.cnt = @ + 1,
                           !.t = node.timeout * PowerOfTwo[node.cnt + 1],
                           !.id = IF ok THEN node.msg ELSE Invalid])
  /\ retrying' = HeadDue(queue')
  /\ waited' = [waited EXCEPT ![Head(queue).msg] = 0]
  /\ UNCHANGED <<elapsed, outcome>>

\* After the last retransmission the node is deleted.  When it was the last
\* notification an observer may miss (see CoapObserve), what else is on its
\* way to that observer is cancelled.
GiveUp ==
  /\ HeadDue(queue) /\ Head(queue).cnt = MaxRetransmit
  /\ LET m    == Head(queue).msg
         rest == CoapPopNext(queue)
     IN  \/ /\ queue' = rest
            /\ Settle({m}, "gaveup")
         \/ /\ m \in Notifications
            /\ queue' = CoapCancelAll(rest, Exchange[m])
            /\ Settle({m} \cup Cancelled(rest, Exchange[m]), "gaveup")
  /\ retrying' = HeadDue(queue')
  /\ UNCHANGED <<elapsed, waited, errors>>

----------------------------------------------------------------------------
(***************************************************************************)
(* coap_dispatch of what the peer answers.  An id that is not in the queue *)
(* changes nothing: the message was settled before, or its last            *)
(* retransmission failed and left it without an id.                        *)
(***************************************************************************)
Transmitted(m) == outcome[m] \notin {"new", "refused"}

AckedByAnyone(m) ==   \* mutant: the head is taken whatever the id
  /\ ~retrying /\ Transmitted(m) /\ queue # <<>>
  /\ queue' = CoapPopNext(queue)
  /\ Settle({m}, "answered")
  /\ UNCHANGED <<elapsed, retrying, waited, errors>>
\* An empty ACK.
Acked(m) ==
  /\ ~retrying /\ Transmitted(m) /\ Found(queue, m)
  /\ queue' = CoapRemoveFromQueue(queue, m)
  /\ Settle({m}, "answered")
  /\ UNCHANGED <<elapsed, retrying, waited, errors>>

\* A response cancels all messages with its token and peer; one that comes
\* in an ACK first removes the message it acknowledges.
Responded(m) ==
  /\ ~retrying /\ Transmitted(m)
  /\ \E piggybacked \in BOOLEAN :
       LET acks == piggybacked /\ Found(queue, m)
           rest == IF acks THEN CoapRemoveFromQueue(queue, m) ELSE queue
       IN  /\ queue' = CoapCancelAll(rest, Exchange[m])
           /\ Settle(Cancelled(rest, Exchange[m]) \cup IF acks THEN {m} ELSE {},
                     "answered")
  /\ UNCHANGED <<elapsed, retrying, waited, errors>>

\* A RST removes the message it rejects and, once for each resource, cancels
\* what else goes to that peer with that token.
Reset(m) ==
  /\ ~retrying /\ Transmitted(m) /\ Found(queue, m)
  /\ LET rest == CoapRemoveFromQueue(queue, m) IN
       IF Resources = {}
       THEN /\ queue' = rest
            /\ Settle({m}, "answered")
       ELSE /\ queue' = CoapCancelAll(rest, Exchange[m])
            /\ Settle({m} \cup Cancelled(rest, Exchange[m]), "answered")
  /\ UNCHANGED <<elapsed, retrying, waited, errors>>

----------------------------------------------------------------------------
Next ==
  \/ Tick \/ Retransmit \/ GiveUp
  \/ \E m \in Msgs :
       SendConfirmed(m) \/ SendRefused(m) \/ Acked(m) \/ Responded(m) \/ Reset(m)

Spec == Init /\ [][Next]_vars

\* The network loses every answer.
SilentNext ==
  \/ Tick \/ Retransmit \/ GiveUp
  \/ \E m \in Msgs : SendConfirmed(m)
SilentSpec == Init /\ [][SilentNext]_vars

\* Time goes on and the loop looks at the queue again and again; no answer
\* from the network is taken for granted.
FairSpec == Spec /\ WF_vars(Tick) /\ WF_vars(Retransmit) /\ WF_vars(GiveUp)
----------------------------------------------------------------------------
Node == [msg : Msgs, id : Msgs \cup {Invalid}, timeout : Nat \ {0},
         cnt : 0 .. MaxRetransmit, t : Nat]

\* The relative times are unsigned: none may ever be negative.
TypeOK ==
  /\ elapsed \in Nat
  /\ queue \in Seq(Node)
  /\ retrying \in BOOLEAN
  /\ outcome \in [Msgs -> Outcomes]
  /\ waited \in [Msgs -> 0 .. AckTimeout]
  /\ errors \in 0 .. MaxSendErrors

\* coap_remove_from_queue and coap_cancel_all_messages take out what the peer
\* answered and nothing else: the messages in the queue are those nobody
\* answered, rejected or gave up, each once.
QueueIsUnanswered ==
  /\ Queued = {m \in Msgs : outcome[m] = "waiting"}
  /\ Cardinality(Queued) = Len(queue)

\* The queue is a set of timers served in the order they are due; no message
\* waits longer than its doubled timeout whatever is inserted, removed or
\* cancelled before it.
TimersOf == [m \in Queued |->
  LET i == CHOOSE j \in 1 .. Len(queue) : queue[j].msg = m
  IN  [left |-> Offset(queue, i) - elapsed, timeout |-> queue[i].timeout,
       cnt |-> queue[i].cnt]]
Timers == INSTANCE RetransmitTimers WITH timers <- TimersOf
ImplementsTimers == Timers!Spec

\* Without any answer every message is settled in the end.
EveryMessageSettles ==
  \A m \in Msgs : outcome[m] = "waiting" ~> outcome[m] \in Settled

\* A message in the queue is sent once more.
Again(m) ==
  \E i \in 1 .. Len(queue), j \in 1 .. Len(queue') :
    /\ queue[i].msg = m /\ queue'[j].msg = m
    /\ queue'[j].cnt > queue[i].cnt

\* "Number of seconds when to expect an ACK or a response to an outstanding
\* CON message": the sender waits at least that long before it sends again.
PatientSender ==
  [][\A m \in Msgs : Again(m) => waited[m] >= AckTimeout]_vars
=============================================================================
