---------------------------- MODULE MCEventLoop ----------------------------
(***************************************************************************)
(* Instances of EventLoop.  MCCommands: threads t1 and t2 deliver m1 and   *)
(* n1, executing m1 schedules a parsed command p1 (as net::Subscriber      *)
(* does), and a descriptor's callback schedules d1 (as the mosquitto       *)
(* channel does).                                                          *)
(***************************************************************************)
EXTENDS EventLoop, TLC

CONSTANTS t1, t2, m1, n1, p1, d1

MCThreads  == {t1, t2}
MCCommands == {m1, n1, p1, d1}
MCSource   == m1 :> t1 @@ n1 :> t2 @@ p1 :> m1 @@ d1 :> Main

\* The smaller instance of the liveness runs: one thread, and no descriptor
\* callback that schedules.
MCLiveThreads  == {t1}
MCLiveCommands == {m1, n1, p1}
MCLiveSource   == m1 :> t1 @@ n1 :> t1 @@ p1 :> m1
============================================================================
