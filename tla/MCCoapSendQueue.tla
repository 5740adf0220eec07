-------------------------- MODULE MCCoapSendQueue --------------------------
(***************************************************************************)
(* Instance of CoapSendQueue: three messages, two of which share a peer    *)
(* and token; one tick per second and the two extreme random bytes, which  *)
(* make timeouts of two and three ticks.                                   *)
(***************************************************************************)
EXTENDS CoapSendQueue, TLC

CONSTANTS m1, m2, m3, x, y

MCMsgs     == {m1, m2, m3}
MCExchange == m1 :> x @@ m2 :> x @@ m3 :> y
MCNotifications == {m1, m2}
MCRandoms  == {0, 255}
=============================================================================
