----------------------------- MODULE GapPacket -----------------------------
(***************************************************************************)
(* ble::gap::Packet: an advertisement of Size bytes, a row of fields each  *)
(* with a length byte (of type and data), a type byte and its data, and    *)
(* zeros behind them.  The access and light services build packets with    *)
(* setFiled and parse received ones with setPayload and field.             *)
(***************************************************************************)
EXTENDS Integers, Sequences, SequencesExt

CONSTANTS
  Size,       \* BLE_PAYLOAD_SIZE
  Types,      \* the types of fields
  Values,     \* the data of fields
  Received,   \* the payloads somebody may send
  Sizes       \* the sizes setPayload is given with them

ASSUME PacketAssumption ==
  /\ Size \in 3 .. 255   \* positions and lengths are bytes
  /\ Types \subseteq 1 .. 255
  /\ Values \subseteq Seq(0 .. 255)
  /\ Received \subseteq [0 .. Size - 1 -> 0 .. 255]
  /\ Sizes \subseteq 0 .. 255

VARIABLES
  payload,   \* _payload
  length,    \* _length
  fields,    \* what was set, or sent to the packet, in order (history)
  intact,    \* the packet was given its own size and no field was set twice
             \* (history)
  overrun    \* memory behind the payload was used: anything may follow

vars == <<payload, length, fields, intact, overrun>>

Blank    == [i \in 0 .. Size - 1 |-> 0]
NotFound == Size   \* NULL

Init ==
  /\ payload = Blank /\ length = 0
  /\ fields = <<>> /\ intact = TRUE /\ overrun = FALSE

----------------------------------------------------------------------------
\* field(): the position of the first field of a type.  Its position is a byte,
\* which a length byte could wrap only after a field was set twice; that search
\* is not followed.
FieldStartsAgain(p, type) ==   \* mutant: the header is counted once less
  LET from[pos \in 0 .. Size + 255] ==
        IF pos >= Size - 2 \/ p[pos + 1] = 0 THEN NotFound
        ELSE IF p[pos + 1] = type THEN pos
        ELSE from[pos + p[pos]]
  IN  from[0]
Field(p, type) ==
  LET from[pos \in 0 .. Size + 255] ==
        IF pos >= Size - 2 \/ p[pos + 1] = 0 THEN NotFound
        ELSE IF p[pos + 1] = type THEN pos
        ELSE from[pos + p[pos] + 1]
  IN  from[0]

\* The data of the field at a position, as its length byte has it.
DataAt(p, pos) == [i \in 1 .. p[pos] - 1 |-> p[pos + 1 + i]]

\* setPayload's loop: where it stops in a source, and whether it returns 0.
ParseUnbounded(source, size) ==   \* mutant: a field may reach behind the end
  LET from[pos \in 0 .. Size + 255] ==
        IF pos >= size - 2 \/ pos >= Size - 2 \/ source[pos + 1] = 0
        THEN [ok |-> TRUE, length |-> pos]
        ELSE IF source[pos] < 1 THEN [ok |-> FALSE, length |-> pos]
        ELSE from[pos + source[pos] + 1]
  IN  from[0]
Parse(source, size) ==
  LET from[pos \in 0 .. Size + 255] ==
        IF pos >= size - 2 \/ pos >= Size - 2 \/ source[pos + 1] = 0
        THEN [ok |-> TRUE, length |-> pos]
        ELSE IF source[pos] < 1 \/ pos + source[pos] + 1 > size
        THEN [ok |-> FALSE, length |-> pos]
        ELSE from[pos + source[pos] + 1]
  IN  from[0]

FieldAt(p, pos) == [type |-> p[pos + 1], data |-> DataAt(p, pos)]

\* The fields it has copied when it stops after len bytes.
Decode(p, len) ==
  LET from[pos \in 0 .. Size + 255] ==
        IF pos >= len THEN <<>> ELSE <<FieldAt(p, pos)>> \o from[pos + p[pos] + 1]
  IN  from[0]

\* The fields the sender of a payload put into it: every one whose header and
\* data are inside the payload, up to the zeros or to one that is not.
Sent(source) ==
  LET from[pos \in 0 .. Size + 255] ==
        IF \/ pos + 2 > Size \/ source[pos + 1] = 0
           \/ source[pos] < 1 \/ pos + source[pos] + 1 > Size
        THEN <<>>
        ELSE <<FieldAt(source, pos)>> \o from[pos + source[pos] + 1]
  IN  from[0]

----------------------------------------------------------------------------
\* The services parse into a new packet.  What was copied before an error
\* stays there.
SetPayload(source, size) ==
  /\ payload = Blank /\ length = 0
  /\ LET end == Parse(source, size).length IN
       /\ length' = end
       /\ overrun' = (end > Size)
       /\ payload' = IF end > Size THEN payload
                     ELSE [i \in 0 .. Size - 1 |-> IF i < end THEN source[i] ELSE 0]
  /\ intact' = (size = Size)
  /\ fields' = Sent(source)

Stored(p, pos, type, data) ==
  [i \in 0 .. Size - 1 |->
     CASE i = pos -> Len(data) + 1
       [] i = pos + 1 -> type
       [] i \in pos + 2 .. pos + 1 + Len(data) -> data[i - pos - 1]
       [] OTHER -> p[i]]

\* setField of a type that is not there yet; without room it returns -1.
SetNew(type, data) ==
  /\ ~overrun /\ Field(payload, type) = NotFound
  /\ length + Len(data) + 2 <= Size
  /\ payload' = Stored(payload, length, type, data)
  /\ length' = length + Len(data) + 2
  /\ fields' = Append(fields, [type |-> type, data |-> data])
  /\ UNCHANGED <<intact, overrun>>

(***************************************************************************)
(* setField of a type that is there: remove() and then the new field at    *)
(* _length, which remove() leaves as it was.  remove() moves what follows  *)
(* by the field's length byte - of the old field for the first byte, which *)
(* takes that byte's place, and so of the new one from then on - and       *)
(* clears a byte counted from the field's start and not the payload's.     *)
(***************************************************************************)
RemoveCount(p, pos) == (length - pos - p[pos]) % 256   \* a byte

Removed(p, pos) ==
  LET count == RemoveCount(p, pos)
      first == p[pos + p[pos]]
      moved == [i \in 0 .. Size - 1 |->
                 IF i \notin pos .. pos + count - 1 THEN p[i]
                 ELSE IF i = pos THEN first
                 ELSE p[i + first]]
  IN  [moved EXCEPT ![pos + pos + count] = 0]

RemoveInside(p, pos) ==
  LET count == RemoveCount(p, pos) IN
    /\ count > 0 => pos + p[pos] < Size
    /\ count > 1 => pos + count - 1 + p[pos + p[pos]] < Size
    /\ pos + pos + count < Size

SetAgain(type, data) ==
  /\ ~overrun /\ Field(payload, type) # NotFound
  /\ LET pos  == Field(payload, type)
         fits == length + Len(data) + 2 <= Size
     IN  /\ Len(data) + 2 + length - (payload[pos] + 1) <= Size
         /\ overrun' = ~(fits /\ RemoveInside(payload, pos))
         /\ IF overrun' THEN UNCHANGED <<payload, length>>
            ELSE /\ payload' = Stored(Removed(payload, pos), length, type, data)
                 /\ length' = length + Len(data) + 2
  /\ intact' = FALSE
  /\ UNCHANGED fields

Next ==
  \/ \E source \in Received, size \in Sizes : SetPayload(source, size)
  \/ \E type \in Types, data \in Values : SetNew(type, data) \/ SetAgain(type, data)

Spec == Init /\ [][Next]_vars
----------------------------------------------------------------------------
\* A payload of the packet's size, parsed with that size, and fields that are set
\* once never use memory behind the packet.
TypeOK ==
  /\ payload \in [0 .. Size - 1 -> 0 .. 255]
  /\ length \in Nat
  /\ intact \in BOOLEAN /\ overrun \in BOOLEAN
  /\ overrun => ~intact
  /\ ~overrun => length <= Size

\* Building, searching and parsing, three loops with bounds of their own, agree
\* on where each field is: what was set, or put into a received payload, is
\* parsed out of the packet in that order and found under its type - but for
\* empty fields the packet ends with, in the last two bytes, which can be set
\* and sent and are neither found nor parsed.
SentIsReceived ==
  intact /\ ~overrun =>
    LET end  == Parse(payload, Size).length
        seen == Decode(payload, end)
    IN  /\ Parse(payload, Size).ok
        /\ IsPrefix(seen, fields)
        /\ seen = fields => length = end
        /\ seen # fields =>
             /\ end = Size - 2
             /\ \A i \in Len(seen) + 1 .. Len(fields) : fields[i].data = <<>>
        /\ \A i \in 1 .. Len(seen) :
             LET pos == Field(payload, seen[i].type) IN
               /\ pos # NotFound
               /\ \E j \in 1 .. i : seen[j] = [type |-> seen[i].type,
                                               data |-> DataAt(payload, pos)]
=============================================================================
