---------------------------- MODULE MCGapPacket ----------------------------
(***************************************************************************)
(* Instance of GapPacket: packets of nine bytes with up to three fields,   *)
(* every payload made of the bytes 0, 1, 2 or of 0, 2, 4, and the two      *)
(* sizes the services give: the packet's, and the sensor's -6 as a byte.   *)
(***************************************************************************)
EXTENDS GapPacket

MCReceived == [0 .. Size - 1 -> {0, 1, 2}] \cup [0 .. Size - 1 -> {0, 2, 4}]
MCValues   == {<<>>, <<0>>, <<2>>, <<1, 0>>, <<0, 3, 1>>}
=============================================================================
