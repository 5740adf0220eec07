---------------------------- MODULE CoapObserve ----------------------------
(***************************************************************************)
(* The observers of a CoAP resource (libcoap's resource.c): who is         *)
(* registered, which changes of the resource each was told, and how a      *)
(* confirmable notification that nobody acknowledges ends a registration.  *)
(*                                                                         *)
(* Confirmable notifications travel through CoapSendQueue.  Here the queue *)
(* is what RetransmitTimers promises of it, without the time: a            *)
(* notification stays outstanding until it is answered, cancelled or given *)
(* up, in any order.  Datagrams get lost; a lost non-confirmable one is    *)
(* lost for good, which is the protocol's choice and not the library's.    *)
(***************************************************************************)
EXTENDS Integers, Sequences, SequencesExt

CONSTANTS
  Observers,       \* pairs of a peer and a token
  NotifyCon,       \* COAP_RESOURCE_FLAGS_NOTIFY_CON is set
  MaxNon,          \* COAP_OBS_MAX_NON
  MaxFail,         \* COAP_OBS_MAX_FAIL
  MaxVersion,      \* bound: how often the resource changes
  MaxOutstanding,  \* bound: confirmable notifications on their way to one peer
  MaxErrors        \* bound: notifications that cannot be built or sent

ASSUME ObserveAssumption ==
  /\ IsFiniteSet(Observers)
  /\ NotifyCon \in BOOLEAN
  /\ MaxNon \in 0 .. 15 /\ MaxFail \in 0 .. 3    \* bit fields of 4 and 2 bits
  /\ MaxVersion \in Nat /\ MaxOutstanding \in Nat /\ MaxErrors \in Nat

VARIABLES
  subscribers,     \* the resource's list, newest first
  dirty,           \* the resource changed
  partiallydirty,  \* some subscriber was not told
  outstanding,     \* how many confirmable notifications each peer owes an ACK
  version,         \* how often the resource has changed
  told,            \* the version each observer was last sent
  since,           \* the version at which each observer's entry was made
  missed,          \* notifications given up since the observer was touched
  errors           \* notifications that could not be built or sent

vars == <<subscribers, dirty, partiallydirty, outstanding, version, told, since,
          missed, errors>>

Registered == {subscribers[i].who : i \in 1 .. Len(subscribers)}

\* coap_find_observer and coap_delete_observer: the one with that peer and
\* token.
Position(o) == CHOOSE i \in 1 .. Len(subscribers) : subscribers[i].who = o
Without(o)  == IF o \in Registered THEN RemoveAt(subscribers, Position(o))
                                   ELSE subscribers

\* coap_touch_observer
Touched(subs, o) ==
  [i \in 1 .. Len(subs) |->
     IF subs[i].who = o THEN [subs[i] EXCEPT !.fail = 0] ELSE subs[i]]

Init ==
  /\ subscribers = <<>> /\ dirty = FALSE /\ partiallydirty = FALSE
  /\ outstanding = [o \in Observers |-> 0]
  /\ version = 0
  /\ told = [o \in Observers |-> 0]
  /\ since = [o \in Observers |-> 0]
  /\ missed = [o \in Observers |-> 0]
  /\ errors = 0

----------------------------------------------------------------------------
(***************************************************************************)
(* handle_request: a GET with the Observe option.  The observer is entered *)
(* before the response is made.  The response carries the resource as it   *)
(* is now; it is not sent when the request has a No-Response option, when  *)
(* a non-confirmable request came by multicast or its response has no      *)
(* code, and when coap_send fails.  The entry stays all the same, and      *)
(* nothing is marked.                                                      *)
(***************************************************************************)
Fresh(o) == [who |-> o, non |-> 0, fail |-> 0, dirty |-> FALSE]

Responded(o) ==
  \E sent \in BOOLEAN : told' = [told EXCEPT ![o] = IF sent THEN version ELSE @]

Entered(o) ==
  since' = [since EXCEPT ![o] = IF o \in Registered THEN @ ELSE version]

RegisterUntouched(o) ==   \* mutant: an observer that is known is not touched
  /\ subscribers' = IF o \in Registered THEN subscribers ELSE <<Fresh(o)>> \o subscribers
  /\ Entered(o) /\ Responded(o)
  /\ missed' = [missed EXCEPT ![o] = 0]
  /\ UNCHANGED <<dirty, partiallydirty, outstanding, version, errors>>
\* coap_add_observer, coap_touch_observer, the handler and coap_send.
Register(o) ==
  /\ subscribers' =
       Touched(IF o \in Registered THEN subscribers ELSE <<Fresh(o)>> \o subscribers, o)
  /\ Entered(o) /\ Responded(o)
  /\ missed' = [missed EXCEPT ![o] = 0]
  /\ UNCHANGED <<dirty, partiallydirty, outstanding, version, errors>>

\* The client cancels the observation, or the handler answers with an error.
\* What is on its way to the observer stays there.
Deregister(o) ==
  /\ o \in Registered
  /\ subscribers' = Without(o)
  /\ UNCHANGED <<dirty, partiallydirty, outstanding, version, told, since, missed, errors>>

----------------------------------------------------------------------------
\* The application changes the resource and marks it.
Change ==
  /\ version < MaxVersion
  /\ version' = version + 1
  /\ dirty' = TRUE
  /\ UNCHANGED <<subscribers, partiallydirty, outstanding, told, since, missed, errors>>

(***************************************************************************)
(* coap_notify_observers.  For the subscribers in unbuilt no pdu could be  *)
(* made, for those in unsent network_send failed.                          *)
(***************************************************************************)
Notified(s) == dirty \/ s.dirty
ConfirmableLate(s) == NotifyCon \/ s.non > MaxNon   \* mutant: > for >=
Confirmable(s) == NotifyCon \/ s.non >= MaxNon

AfterwardsClean(s, unbuilt, unsent) ==   \* mutant: the entry is not marked
  IF ~Notified(s) THEN s
  ELSE [s EXCEPT !.dirty = FALSE, !.non = IF Confirmable(s) THEN 0 ELSE @ + 1]
\* The subscriber's entry afterwards; the non-confirmable count starts again
\* with every attempt to send a confirmable notification.
Afterwards(s, unbuilt, unsent) ==
  CASE ~Notified(s) -> s
    [] Notified(s) /\ s.who \in unbuilt -> [s EXCEPT !.dirty = TRUE]
    [] OTHER -> [s EXCEPT !.dirty = s.who \in unsent,
                          !.non = IF Confirmable(s) THEN 0 ELSE @ + 1]

SomeLeftClear(failed) == FALSE   \* mutant: the flag is cleared at the end
SomeLeft(failed) == failed # {}

CheckNotify ==
  /\ dirty \/ partiallydirty
  /\ LET affected == {s \in Range(subscribers) : Notified(s)}
         names    == {s.who : s \in affected}
     IN  \E unbuilt \in SUBSET names : \E unsent \in SUBSET (names \ unbuilt) :
           LET failed  == unbuilt \cup unsent
               queued  == {s.who : s \in {c \in affected : Confirmable(c)}} \ failed
           IN  /\ errors + Cardinality(failed) <= MaxErrors
               /\ errors' = errors + Cardinality(failed)
               /\ \A o \in queued : outstanding[o] < MaxOutstanding
               /\ outstanding' = [o \in Observers |->
                    outstanding[o] + IF o \in queued THEN 1 ELSE 0]
               /\ subscribers' = [i \in 1 .. Len(subscribers) |->
                    Afterwards(subscribers[i], unbuilt, unsent)]
               /\ told' = [o \in Observers |->
                    IF o \in names \ failed THEN version ELSE told[o]]
               /\ partiallydirty' = SomeLeft(failed)
  /\ dirty' = FALSE
  /\ UNCHANGED <<version, since, missed>>

----------------------------------------------------------------------------
(***************************************************************************)
(* What becomes of a confirmable notification.                             *)
(***************************************************************************)
\* An empty ACK: coap_dispatch stops before it touches the observer.
Acked(o) ==
  /\ outstanding[o] > 0
  /\ outstanding' = [outstanding EXCEPT ![o] = @ - 1]
  /\ UNCHANGED <<subscribers, dirty, partiallydirty, version, told, since, missed, errors>>

\* An ACK with a response code touches the observer; as any response it
\* cancels what else goes to that peer with that token.
AckedWithCode(o) ==
  /\ outstanding[o] > 0
  /\ outstanding' = [outstanding EXCEPT ![o] = 0]
  /\ subscribers' = Touched(subscribers, o)
  /\ missed' = [missed EXCEPT ![o] = 0]
  /\ UNCHANGED <<dirty, partiallydirty, version, told, since, errors>>

\* A RST ends the registration.
Reset(o) ==
  /\ outstanding[o] > 0
  /\ outstanding' = [outstanding EXCEPT ![o] = 0]
  /\ subscribers' = Without(o)
  /\ UNCHANGED <<dirty, partiallydirty, version, told, since, missed, errors>>

\* coap_retransmit gives up.  coap_remove_failed_observers then looks at the
\* first subscriber of the list and at no other: the others' failures are
\* not counted.
First(o) == subscribers # <<>> /\ Head(subscribers).who = o

CountsFailure(o) ==
  /\ First(o) /\ Head(subscribers).fail < MaxFail
  /\ subscribers' = [subscribers EXCEPT ![1].fail = @ + 1]
  /\ outstanding' = [outstanding EXCEPT ![o] = @ - 1]

DropsObserver(o) ==
  /\ First(o) /\ Head(subscribers).fail = MaxFail
  /\ subscribers' = Tail(subscribers)
  /\ outstanding' = [outstanding EXCEPT ![o] = 0]

IgnoresFailure(o) ==
  /\ ~First(o)
  /\ outstanding' = [outstanding EXCEPT ![o] = @ - 1]
  /\ UNCHANGED subscribers

GiveUp(o) ==
  /\ outstanding[o] > 0
  /\ CountsFailure(o) \/ DropsObserver(o) \/ IgnoresFailure(o)
  /\ missed' = [missed EXCEPT ![o] = IF @ <= MaxFail THEN @ + 1 ELSE @]
  /\ UNCHANGED <<dirty, partiallydirty, version, told, since, errors>>

----------------------------------------------------------------------------
Next ==
  \/ Change \/ CheckNotify
  \/ \E o \in Observers :
       \/ Register(o) \/ Deregister(o)
       \/ Acked(o) \/ AckedWithCode(o) \/ Reset(o) \/ GiveUp(o)

Spec == Init /\ [][Next]_vars

\* The server's loop calls coap_check_notify in every round, and every
\* outstanding message is settled in the end (CoapSendQueue's
\* EveryMessageSettles).
FairSpec == Spec /\ WF_vars(CheckNotify) /\ \A o \in Observers : WF_vars(GiveUp(o))
----------------------------------------------------------------------------
Subscription ==
  [who : Observers, non : 0 .. MaxNon, fail : 0 .. MaxFail, dirty : BOOLEAN]

\* The counters stay within their bit fields, and coap_add_observer keeps
\* one subscription for a peer and token.
TypeOK ==
  /\ subscribers \in Seq(Subscription)
  /\ \A i, j \in 1 .. Len(subscribers) :
       subscribers[i].who = subscribers[j].who => i = j
  /\ dirty \in BOOLEAN /\ partiallydirty \in BOOLEAN
  /\ outstanding \in [Observers -> 0 .. MaxOutstanding]
  /\ version \in 0 .. MaxVersion
  /\ told \in [Observers -> 0 .. version]
  /\ since \in [Observers -> 0 .. version]
  /\ missed \in [Observers -> 0 .. MaxFail + 1]
  /\ errors \in 0 .. MaxErrors

\* A change made while an observer was registered, which it was not sent, is
\* still marked for it: in the resource, or in its own entry with the resource
\* partially dirty.  Failures to build or to send a notification, changes that
\* come together and registrations in between, answered or not, lose none.
NoChangeForgotten ==
  \A i \in 1 .. Len(subscribers) :
    LET s == subscribers[i] IN
      told[s.who] < version /\ since[s.who] < version
        => dirty \/ (partiallydirty /\ s.dirty)

\* An observer is dropped for its silence only after it missed more than
\* MaxFail confirmable notifications since it registered (again) or last
\* answered with a response code.  They are counted in total: notifications it
\* acknowledged in between with an empty ACK take none of them back.
DroppedForSilence ==
  [][\A o \in Observers : DropsObserver(o) /\ outstanding[o] > 0
       => missed[o] >= MaxFail]_vars

\* An observer that was registered when the resource changed for the last time
\* and stays registered is sent the last state, whatever notifications failed
\* before.  One that registers later has only the response to its request.
LastChangeArrives ==
  \A o \in Observers :
    (o \in Registered /\ since[o] < MaxVersion /\ version = MaxVersion)
      ~> (o \notin Registered \/ told[o] = MaxVersion)

\* "Number of confirmable notifications that may fail (i.e. time out without
\* being ACKed) before an observer is removed."
SilentObserversLeave ==
  \A o \in Registered : missed[o] <= MaxFail
=============================================================================
