-------------------------------- MODULE Slip --------------------------------
(***************************************************************************)
(* slip::Protocol (devices/devicesprotocol.cpp): the framing the serial    *)
(* devices of the gateway use.  encode() puts a CRC behind a payload,      *)
(* escapes both and closes the frame with END; decode() is fed whatever    *)
(* Private::read() got from the port, any number of bytes at a time, and   *)
(* calls back with each payload whose CRC is right.                        *)
(*                                                                         *)
(* One encoder feeds one decoder over a line that may lose, change or      *)
(* invent a byte, MaxDamage times.  Nothing in the gateway calls           *)
(* Protocol::reset(), so the decoder has to find its way back alone.       *)
(***************************************************************************)
EXTENDS Integers, FiniteSets, SequencesExt

CONSTANTS
  CRC16(_),     \* CRC16::calculate; Crc16!Calculate where TLC runs
  Payloads,     \* what the gateway sends: sequences of bytes
  Noise,        \* bytes the line may put in
  MaxFrames,    \* bound: frames sent
  MaxDamage     \* bound: bytes lost, changed or invented on the line

Byte == 0 .. 255

ASSUME PayloadsAssumption == Payloads \subseteq Seq(Byte)
ASSUME NoiseAssumption == Noise \subseteq Byte
ASSUME BoundsAssumption == MaxFrames \in Nat /\ MaxDamage \in Nat

\* CRC is a uint16_t.
ASSUME CrcAssumption == \A payload \in Payloads : CRC16(payload) \in Nat /\ CRC16(payload) < 65536

VARIABLES
  sent,         \* payloads encoded so far
  wire,         \* bytes on the line, read by nobody yet
  escaping,     \* Private::_escaping
  decoded,      \* Private::_decoded
  delivered,    \* payloads handed to the Decoded callback
  damage,       \* bytes damaged so far
  reframed      \* damage was more than one data byte changed into another

vars == <<sent, wire, escaping, decoded, delivered, damage, reframed>>

-----------------------------------------------------------------------------
END_ == 192
ESC == 219
XON == 17
XOFF == 19

\* The bytes that must not be sent bare, and what stands for each behind ESC.
Special == {END_, ESC, XON, XOFF}
Code == [b \in Special |-> CASE b = END_ -> 220 [] b = ESC -> 221
                             [] b = XON -> 222 [] b = XOFF -> 223]

\* An escape that forgets XOFF.
StuffedNoXoff(byte) == IF byte \in Special \ {XOFF} THEN <<ESC, Code[byte]>> ELSE <<byte>>

\* What a round of the loop in the inner encode() writes.
Stuffed(byte) == IF byte \in Special THEN <<ESC, Code[byte]>> ELSE <<byte>>

\* The inner encode() of a payload or of a checksum.
Escape(bytes) ==
  LET upTo[i \in 0 .. Len(bytes)] == IF i = 0 THEN <<>> ELSE upTo[i - 1] \o Stuffed(bytes[i])
  IN  upTo[Len(bytes)]

\* A size that forgets XON.
RoomNoXon(byte) == IF byte \in Special \ {XON} THEN 2 ELSE 1

\* What a round of the loop in encodedSize() counts.
Room(byte) == IF byte \in Special THEN 2 ELSE 1

\* encodedSize(): the room the outer encode() makes for those bytes.
EncodedSize(bytes) ==
  LET upTo[i \in 0 .. Len(bytes)] == IF i = 0 THEN 0 ELSE upTo[i - 1] + Room(bytes[i])
  IN  upTo[Len(bytes)]

\* A checksum that is not cut to 16 bits.
ChecksumWide(payload) ==
  LET crc == CRC16(payload) IN <<crc % 256, crc>>

\* The checksum as it lies in the memory of the (little endian) host.
Checksum(payload) ==
  LET crc == CRC16(payload) IN <<crc % 256, crc \div 256>>

\* Protocol::encode
Frame(payload) == Escape(payload) \o Escape(Checksum(payload)) \o <<END_>>

-----------------------------------------------------------------------------
\* A decoder that does not know the escape of XON.
UnescapeNoXon(value) ==
  IF value # Code[XON] /\ \E b \in Special : Code[b] = value
    THEN CHOOSE b \in Special : Code[b] = value
    ELSE value

\* The byte an escaped one stands for; one no encoder sends is kept as it is.
Unescape(value) ==
  IF \E b \in Special : Code[b] = value
    THEN CHOOSE b \in Special : Code[b] = value
    ELSE value

\* A decoder that does not compare the checksum.
FinishUnchecked(r) ==
  LET size == Len(r.decoded)
  IN  IF size < 2 THEN r
      ELSE [r EXCEPT !.decoded = <<>>, !.delivered = Append(@, SubSeq(r.decoded, 1, size - 2))]

\* A decoder that empties its buffer only after a good frame.
FinishKeepsBad(r) ==
  LET size == Len(r.decoded)
      main == SubSeq(r.decoded, 1, size - 2)
  IN  IF size < 2 \/ SubSeq(r.decoded, size - 1, size) # Checksum(main) THEN r
      ELSE [r EXCEPT !.decoded = <<>>, !.delivered = Append(@, main)]

\* finish(): less than a checksum is left where it is, anything longer is
\* dropped after its CRC was compared.
Finish(r) ==
  LET size == Len(r.decoded)
      main == SubSeq(r.decoded, 1, size - 2)
  IN  IF size < 2 THEN r
      ELSE [r EXCEPT !.decoded = <<>>,
                     !.delivered = IF SubSeq(r.decoded, size - 1, size) = Checksum(main)
                                     THEN Append(@, main) ELSE @]

\* One round of the loop in decode().
Accept(r, value) ==
  CASE r.escaping     -> [r EXCEPT !.decoded = Append(@, Unescape(value)), !.escaping = FALSE]
    [] ~r.escaping /\ value = END_  -> Finish(r)
    [] ~r.escaping /\ value = ESC   -> [r EXCEPT !.escaping = TRUE]
    [] ~r.escaping /\ value \notin {END_, ESC} -> [r EXCEPT !.decoded = Append(@, value)]

\* The loop in decode() over bytes, from decoder r.
Feed(r, bytes) ==
  LET after[i \in 0 .. Len(bytes)] == IF i = 0 THEN r ELSE Accept(after[i - 1], bytes[i])
  IN  after[Len(bytes)]

Decoder == [escaping |-> escaping, decoded |-> decoded, delivered |-> delivered]

-----------------------------------------------------------------------------
Init ==
  /\ sent = <<>> /\ wire = <<>>
  /\ escaping = FALSE /\ decoded = <<>>
  /\ delivered = <<>>
  /\ damage = 0 /\ reframed = FALSE

\* Protocol::encode, and the frame goes out as a whole (SerialDevice).
Encode(payload) ==
  /\ Len(sent) < MaxFrames
  /\ sent' = Append(sent, payload)
  /\ wire' = wire \o Frame(payload)
  /\ UNCHANGED <<escaping, decoded, delivered, damage, reframed>>

\* Protocol::decode of the n bytes one read() of the port returned.
Decode(n) ==
  LET r == Feed(Decoder, SubSeq(wire, 1, n))
  IN  /\ wire' = SubSeq(wire, n + 1, Len(wire))
      /\ escaping' = r.escaping
      /\ decoded' = r.decoded
      /\ delivered' = r.delivered
      /\ UNCHANGED <<sent, damage, reframed>>

Damaged(bytes) ==
  /\ damage < MaxDamage
  /\ damage' = damage + 1
  /\ wire' = bytes
  /\ UNCHANGED <<sent, escaping, decoded, delivered>>

Lose(i) == Damaged(RemoveAt(wire, i)) /\ reframed' = TRUE

Change(i, byte) ==
  /\ wire[i] # byte
  /\ Damaged(ReplaceAt(wire, i, byte))
  /\ reframed' = (reframed \/ wire[i] \in {END_, ESC} \/ byte \in {END_, ESC})

Invent(i, byte) == Damaged(InsertAt(wire, i, byte)) /\ reframed' = TRUE

Next ==
  \/ \E payload \in Payloads : Encode(payload)
  \/ \E n \in DOMAIN wire : Decode(n)
  \/ \E i \in DOMAIN wire : Lose(i)
  \/ \E i \in DOMAIN wire, byte \in Noise : Change(i, byte)
  \/ \E i \in 1 .. Len(wire) + 1, byte \in Noise : Invent(i, byte)

Spec == Init /\ [][Next]_vars

-----------------------------------------------------------------------------
\* Every byte on the line and in the decoder is a byte, which is what makes
\* the checksum's two bytes in decode() the two that encode() wrote.
TypeOK ==
  /\ sent \in Seq(Payloads)
  /\ wire \in Seq(Byte)
  /\ escaping \in BOOLEAN
  /\ decoded \in Seq(Byte)
  /\ delivered \in Seq(Seq(Byte))
  /\ damage \in 0 .. MaxDamage
  /\ reframed \in BOOLEAN

\* However the reads of the port cut the stream, an undamaged line hands over
\* exactly the payloads sent, in order, none missing once it is quiet.
RoundTrip ==
  damage = 0 => /\ IsPrefix(delivered, sent)
                /\ (wire = <<>> => delivered = sent /\ decoded = <<>> /\ ~escaping)

\* The encoder never lets a flow-control byte onto the line, and an END only to
\* close a frame: each END still on the line closes one payload nobody has got.
LineIsClean ==
  damage = 0 => /\ \A i \in DOMAIN wire : wire[i] \notin {XON, XOFF}
                /\ Cardinality({i \in DOMAIN wire : wire[i] = END_}) = Len(sent) - Len(delivered)

\* encodedSize() and encode() agree: encode() fills the buffer that
\* encodedSize() sized, and neither runs over it nor leaves a gap before the
\* END that is written at its last place.
BufferFilled ==
  \A i \in DOMAIN sent :
    /\ EncodedSize(sent[i]) = Len(Escape(sent[i]))
    /\ EncodedSize(Checksum(sent[i])) = Len(Escape(Checksum(sent[i])))

\* The decoder resynchronises: a damaged byte costs the frame it hits and at
\* most the one after it, though nobody ever calls reset().
LossBounded == wire = <<>> => Len(delivered) + 2 * damage >= Len(sent)

\* A byte changed inside a frame, whose END and escapes stay where they are,
\* never gets past the CRC: the payload it was in is dropped (or handed over as
\* it was, when an escaped byte now stands for itself), and only that one.
\* Nothing of the kind holds of damage that moves bytes or makes an END: what
\* is then taken for a frame has a wrong checksum only most of the time.
ChangeDetected ==
  damage = 1 /\ ~reframed =>
    \E rest \in {sent} \cup {RemoveAt(sent, i) : i \in DOMAIN sent} :
      IsPrefix(delivered, rest) /\ (wire = <<>> => delivered = rest)
=============================================================================
