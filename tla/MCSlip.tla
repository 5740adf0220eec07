------------------------------- MODULE MCSlip -------------------------------
(***************************************************************************)
(* Slip with the checksum of Crc16, and with payloads that meet every      *)
(* escape: END, ESC and XOFF as data, and two whose checksum holds XON     *)
(* (0x8011) and END (0x03C0).                                              *)
(***************************************************************************)
EXTENDS Slip

Sum == INSTANCE Crc16
MCCalculate(payload) == Sum!Calculate(payload)

MCPayloads == {<<\hC0, \hDB, \h13>>, <<\h07>>, <<\h00, \h90>>}
MCNoise == {\h81, \hC0, \hDB}
=============================================================================
