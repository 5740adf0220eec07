--------------------------- MODULE MCSerialDevice ---------------------------
(***************************************************************************)
(* Instance of SerialDevice: three frames of one, two and three bytes, and *)
(* a modulus that is larger than a frame, as 2^32 is.                      *)
(***************************************************************************)
EXTENDS SerialDevice, TLC

CONSTANTS f1, f2, f3

MCFrames == {f1, f2, f3}
MCSize   == f1 :> 2 @@ f2 :> 3 @@ f3 :> 1
=============================================================================
