------------------------------- MODULE Crc16 -------------------------------
(***************************************************************************)
(* utils::CRC16 (utils/utilscrc16.cpp): the checksum both serial protocols *)
(* put behind a payload.  Calculate is the code's, one table look-up for   *)
(* each byte; Remainder is what such a table is meant to compute, the      *)
(* remainder of the message by the polynomial x^16 + x^15 + x^2 + 1, one   *)
(* bit at a time, and is no part of the code.                              *)
(***************************************************************************)
EXTENDS Naturals, Sequences, Bitwise
LOCAL INSTANCE SequencesExt

Byte == 0 .. 255

\* table[256]
Table == <<
  \h0000, \h8005, \h800F, \h000A, \h801B, \h001E, \h0014, \h8011,
  \h8033, \h0036, \h003C, \h8039, \h0028, \h802D, \h8027, \h0022,
  \h8063, \h0066, \h006C, \h8069, \h0078, \h807D, \h8077, \h0072,
  \h0050, \h8055, \h805F, \h005A, \h804B, \h004E, \h0044, \h8041,
  \h80C3, \h00C6, \h00CC, \h80C9, \h00D8, \h80DD, \h80D7, \h00D2,
  \h00F0, \h80F5, \h80FF, \h00FA, \h80EB, \h00EE, \h00E4, \h80E1,
  \h00A0, \h80A5, \h80AF, \h00AA, \h80BB, \h00BE, \h00B4, \h80B1,
  \h8093, \h0096, \h009C, \h8099, \h0088, \h808D, \h8087, \h0082,
  \h8183, \h0186, \h018C, \h8189, \h0198, \h819D, \h8197, \h0192,
  \h01B0, \h81B5, \h81BF, \h01BA, \h81AB, \h01AE, \h01A4, \h81A1,
  \h01E0, \h81E5, \h81EF, \h01EA, \h81FB, \h01FE, \h01F4, \h81F1,
  \h81D3, \h01D6, \h01DC, \h81D9, \h01C8, \h81CD, \h81C7, \h01C2,
  \h0140, \h8145, \h814F, \h014A, \h815B, \h015E, \h0154, \h8151,
  \h8173, \h0176, \h017C, \h8179, \h0168, \h816D, \h8167, \h0162,
  \h8123, \h0126, \h012C, \h8129, \h0138, \h813D, \h8137, \h0132,
  \h0110, \h8115, \h811F, \h011A, \h810B, \h010E, \h0104, \h8101,
  \h8303, \h0306, \h030C, \h8309, \h0318, \h831D, \h8317, \h0312,
  \h0330, \h8335, \h833F, \h033A, \h832B, \h032E, \h0324, \h8321,
  \h0360, \h8365, \h836F, \h036A, \h837B, \h037E, \h0374, \h8371,
  \h8353, \h0356, \h035C, \h8359, \h0348, \h834D, \h8347, \h0342,
  \h03C0, \h83C5, \h83CF, \h03CA, \h83DB, \h03DE, \h03D4, \h83D1,
  \h83F3, \h03F6, \h03FC, \h83F9, \h03E8, \h83ED, \h83E7, \h03E2,
  \h83A3, \h03A6, \h03AC, \h83A9, \h03B8, \h83BD, \h83B7, \h03B2,
  \h0390, \h8395, \h839F, \h039A, \h838B, \h038E, \h0384, \h8381,
  \h0280, \h8285, \h828F, \h028A, \h829B, \h029E, \h0294, \h8291,
  \h82B3, \h02B6, \h02BC, \h82B9, \h02A8, \h82AD, \h82A7, \h02A2,
  \h82E3, \h02E6, \h02EC, \h82E9, \h02F8, \h82FD, \h82F7, \h02F2,
  \h02D0, \h82D5, \h82DF, \h02DA, \h82CB, \h02CE, \h02C4, \h82C1,
  \h8243, \h0246, \h024C, \h8249, \h0258, \h825D, \h8257, \h0252,
  \h0270, \h8275, \h827F, \h027A, \h826B, \h026E, \h0264, \h8261,
  \h0220, \h8225, \h822F, \h022A, \h823B, \h023E, \h0234, \h8231,
  \h8213, \h0216, \h021C, \h8219, \h0208, \h820D, \h8207, \h0202 >>

\* A round of the reflected form of the algorithm, which needs another table.
RoundReflected(crc, byte) ==
  LET value == Table[((crc ^^ byte) % 256) + 1]
  IN  (crc \div 256) ^^ value

\* One round of the loop in calculate().  CRC is uint16_t: the shift drops
\* the high byte.
Round(crc, byte) ==
  LET value == Table[(((crc \div 256) ^^ byte) % 256) + 1]
  IN  ((crc * 256) ^^ value) % 65536

\* CRC16::calculate
Calculate(payload) ==
  LET crc[i \in 0 .. Len(payload)] == IF i = 0 THEN 0 ELSE Round(crc[i - 1], payload[i])
  IN  crc[Len(payload)]

-----------------------------------------------------------------------------
Polynomial == \h8005

\* One bit of a long division: shift it in, subtract the polynomial when the
\* bit that falls out is set.
Divide(crc, bit) ==
  IF (crc \div 32768) # bit THEN ((crc * 2) % 65536) ^^ Polynomial
                            ELSE (crc * 2) % 65536

\* The bits of a byte, the most significant first.
Bits(byte) == [i \in 1 .. 8 |-> (byte \div 2 ^ (8 - i)) % 2]

Remainder(payload) ==
  FoldLeft(LAMBDA crc, byte : FoldLeft(Divide, crc, Bits(byte)), 0, payload)
=============================================================================
