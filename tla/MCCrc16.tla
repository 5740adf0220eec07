------------------------------ MODULE MCCrc16 ------------------------------
(***************************************************************************)
(* Every payload of at most MaxLength bytes from Alphabet, built one byte  *)
(* at a time: the inputs over which Crc16!Calculate is compared with the   *)
(* polynomial division it stands for.                                      *)
(***************************************************************************)
EXTENDS Crc16

CONSTANTS Alphabet, MaxLength

VARIABLE payload

Init == payload = <<>>

Extend(byte) ==
  /\ Len(payload) < MaxLength
  /\ payload' = Append(payload, byte)

Next == \E byte \in Alphabet : Extend(byte)

Spec == Init /\ [][Next]_payload

-----------------------------------------------------------------------------
\* CRC16::calculate is the remainder of the payload by 0x8005: no entry of the
\* 256 is wrong (a payload of one byte reads each of them), and the table is
\* indexed and the register shifted as a division most significant bit first.
MatchesPolynomial == Calculate(payload) = Remainder(payload)

\* Two payloads of one length that differ in at most 16 consecutive bits have
\* different checksums.  The checksum is linear, so this is that no payload of
\* one or two bytes but zeros has the checksum zero, and that bytes of zero
\* behind it do not bring it back to zero.
BurstsDetected ==
  (Len(payload) <= 2 /\ \E i \in DOMAIN payload : payload[i] # 0)
    => /\ Calculate(payload) # 0
       /\ Calculate(payload \o <<0, 0>>) # 0
=============================================================================
