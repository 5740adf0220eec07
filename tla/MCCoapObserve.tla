--------------------------- MODULE MCCoapObserve ---------------------------
(***************************************************************************)
(* Instance of CoapObserve: two observers, one notification of each that   *)
(* may be non-confirmable in a row, and one that may fail.                 *)
(***************************************************************************)
EXTENDS CoapObserve

CONSTANTS o1, o2

MCObservers == {o1, o2}
=============================================================================
