------------------------------- MODULE Codec --------------------------------
(***************************************************************************)
(* The frames of the tunnel (protocol/protocol.go): a header with the type *)
(* and the three lengths, in fields of fixed width, and the three parts one*)
(* after the other.  A message is encoded, its bytes may be cut short on   *)
(* the way, and they are decoded.  (One cut within its header is refused.) *)
(*                                                                         *)
(* The widths are constants: 255 bytes of connection ID, 2^16 of metadata  *)
(* and 2^32 of payload in the code.  The sum in DecodeMessage is made in 64*)
(* bits, where it cannot overflow.                                         *)
(***************************************************************************)
EXTENDS Integers, Sequences

CONSTANTS
    Bytes,          \* values of a byte
    MaxID,          \* 255: longer connection IDs are cut
    MetaMod,        \* 2^16
    PayloadMod,     \* 2^32
    MaxPart         \* bound: length of a part

ASSUME CodecAssumption ==
    {MaxID, MetaMod, PayloadMod, MaxPart} \subseteq Nat \ {0}

VARIABLES
    msg,            \* the message given to EncodeMessage
    wire,           \* the frame: its header, and the bytes after it
    cut,            \* history: the frame was cut short
    result          \* "none", "sent", and what DecodeMessage makes of it

codecVars == <<msg, wire, cut, result>>

Parts == UNION {[1..k -> Bytes] : k \in 0..MaxPart}
Messages == [id : Parts, meta : Parts, payload : Parts]

CodecTypeOK ==
    /\ msg \in [id : Seq(Bytes), meta : Seq(Bytes), payload : Seq(Bytes)]
    /\ wire.idLen \in 0..MaxID /\ wire.metaLen \in 0..MetaMod - 1
    /\ wire.payloadLen \in 0..PayloadMod - 1 /\ wire.body \in Seq(Bytes)
    /\ cut \in BOOLEAN
    /\ result \in {"none", "sent", "decoded", "refused"}

NoFrame == [idLen |-> 0, metaLen |-> 0, payloadLen |-> 0, body |-> <<>>]

CodecInit ==
    /\ msg \in Messages
    /\ wire = NoFrame /\ cut = FALSE /\ result = "none"

CutID(id) == IF Len(id) > MaxID THEN SubSeq(id, 1, MaxID) ELSE id

\* The lengths are truncated to their fields; the bytes are not.
EncodeMessage(m) ==
    [idLen |-> Len(CutID(m.id)),
     metaLen |-> Len(m.meta) % MetaMod,
     payloadLen |-> Len(m.payload) % PayloadMod,
     body |-> CutID(m.id) \o m.meta \o m.payload]

\* The lengths of the header split the bytes; what follows them is ignored.
DecodeMessage(f) ==
    [id |-> SubSeq(f.body, 1, f.idLen),
     meta |-> SubSeq(f.body, f.idLen + 1, f.idLen + f.metaLen),
     payload |-> SubSeq(f.body, f.idLen + f.metaLen + 1,
                        f.idLen + f.metaLen + f.payloadLen)]

\* Faulty form: the payload is not counted.
LengthValidShort(f) == f.idLen + f.metaLen <= Len(f.body)

LengthValid(f) == f.idLen + f.metaLen + f.payloadLen <= Len(f.body)

Encode ==
    /\ result = "none"
    /\ wire' = EncodeMessage(msg)
    /\ result' = "sent"
    /\ UNCHANGED <<msg, cut>>

CutShort ==
    /\ result = "sent" /\ wire.body # <<>>
    /\ wire' = [wire EXCEPT !.body = SubSeq(@, 1, Len(@) - 1)]
    /\ cut' = TRUE
    /\ UNCHANGED <<msg, result>>

Decode ==
    /\ result = "sent"
    /\ result' = IF LengthValid(wire) THEN "decoded" ELSE "refused"
    /\ UNCHANGED <<msg, wire, cut>>

CodecNext == Encode \/ CutShort \/ Decode

CodecSpec == CodecInit /\ [][CodecNext]_codecVars

-----------------------------------------------------------------------------
Fits == Len(msg.meta) < MetaMod /\ Len(msg.payload) < PayloadMod

\* A frame is decoded to the message that was encoded, with its ID cut to the width
\* of its length, if the other lengths fit theirs; and a frame that lost bytes is
\* refused and never taken for another message.
RoundTrip ==
    Fits => /\ result = "decoded" => /\ ~cut
                                     /\ DecodeMessage(wire) = [msg EXCEPT !.id = CutID(@)]
            /\ result = "refused" => cut

\* Not kept: the same for every length.  EncodeMessage does not look at the length of
\* the metadata or of the payload; longer ones are split wrongly, without an error.
RoundTripAlways ==
    result = "decoded" => DecodeMessage(wire) = [msg EXCEPT !.id = CutID(@)]

=============================================================================
