----------------------------- MODULE MCChannel -----------------------------
(***************************************************************************)
(* Instance of Channel: two subscribers with one topic in common, three    *)
(* arriving messages, two published packets and two delivery tokens.       *)
(***************************************************************************)
EXTENDS Channel, TLC

CONSTANTS s1, s2, a, b, p1, p2

MCSubs    == {s1, s2}
MCTopics  == {a, b}
MCWants   == s1 :> {a, b} @@ s2 :> {a}
MCPackets == {p1, p2}
=============================================================================
