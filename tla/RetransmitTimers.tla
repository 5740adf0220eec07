-------------------------- MODULE RetransmitTimers --------------------------
(***************************************************************************)
(* What libcoap's queue of outstanding confirmable messages promises,      *)
(* without its linked list and its relative times: each message has a time *)
(* left until it is due, the one that is due first is served first, and    *)
(* none has more left than its timeout, doubled with each retransmission.  *)
(* That it has not LESS left is not promised (see PatientSender in         *)
(* CoapSendQueue).                                                         *)
(***************************************************************************)
EXTENDS Integers

CONSTANTS Msgs, MaxRetransmit

VARIABLE
  timers    \* for each outstanding message: the time left until it is due
            \* (negative when it is overdue), its timeout, and how often it
            \* was retransmitted

Outstanding == DOMAIN timers

Init == timers = <<>>

Others(m) == \A n \in Outstanding \ {m} : timers'[n] = timers[n]

Tick ==
  /\ DOMAIN timers' = Outstanding
  /\ \A n \in Outstanding : timers'[n] = [timers[n] EXCEPT !.left = @ - 1]

\* A confirmable message was sent.
Start(m) ==
  /\ m \in Msgs \ Outstanding
  /\ DOMAIN timers' = Outstanding \cup {m}
  /\ Others(m)
  /\ timers'[m].cnt = 0
  /\ timers'[m].left = timers'[m].timeout

PowerOfTwo[n \in Nat] == IF n = 0 THEN 1 ELSE 2 * PowerOfTwo[n - 1]

Earliest(m) ==
  /\ m \in Outstanding /\ timers[m].left <= 0
  /\ \A n \in Outstanding : timers[m].left <= timers[n].left

\* The earliest message is due and is sent again,
Fire(m) ==
  /\ Earliest(m) /\ timers[m].cnt < MaxRetransmit
  /\ DOMAIN timers' = Outstanding
  /\ Others(m)
  /\ timers'[m].timeout = timers[m].timeout
  /\ timers'[m].cnt = timers[m].cnt + 1
  /\ timers'[m].left <= timers[m].timeout * PowerOfTwo[timers'[m].cnt]

\* ... or given up after its last retransmission.
Expire(m) ==
  /\ Earliest(m) /\ timers[m].cnt = MaxRetransmit
  /\ DOMAIN timers' = Outstanding \ {m}
  /\ Others(m)

\* Some messages are answered or cancelled; the others are not delayed.
Stop ==
  /\ DOMAIN timers' \in (SUBSET Outstanding) \ {Outstanding}
  /\ \A n \in DOMAIN timers' :
       /\ timers'[n].timeout = timers[n].timeout
       /\ timers'[n].cnt = timers[n].cnt
       /\ timers'[n].left <= timers[n].left

Next ==
  \/ Tick
  \/ \E m \in Msgs : Start(m) \/ Fire(m) \/ Expire(m)
  \/ Stop

Spec == Init /\ [][Next]_timers
=============================================================================
