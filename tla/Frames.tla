------------------------------- MODULE Frames -------------------------------
(***************************************************************************)
(* Framing on given messages, varints and frames.                          *)
(***************************************************************************)
EXTENDS Framing, Inputs

CONSTANTS
    Pushes,         \* messages of the push connection
    Following,      \* what may follow one on it
    Varints,        \* bytes that are read as a varint
    GRPCFrames,     \* bytes that are read as a frame
    Payloads        \* what is sent in a frame

ASSUME FramesAssumption ==
    /\ MCSVersion \in Int
    /\ \A m \in Pushes : /\ m = [tag |-> m.tag, payload |-> m.payload]
                         /\ IsSeq(m.payload) /\ Len(m.payload) < Word
    /\ \A more \in Following : IsSeq(more)
    /\ Varints \subseteq Seq(0..(2 * Group - 1))
    /\ GRPCFrames \subseteq Seq(0..255) /\ \A s \in GRPCFrames : Below4GiB(Len(s))
    /\ \A payload \in Payloads : /\ IsSeq(payload)
                                /\ \A more \in Following :
                                      Below4GiB(5 + Len(payload) + Len(more))

PickMessage ==
    /\ Picks("message")
    /\ input' \in [isFirst : BOOLEAN, m : Pushes, more : Following]

PickVarint == Picks("varint") /\ input' \in Varints

PickFrame == Picks("frame") /\ input' \in GRPCFrames

PickPayload == Picks("payload") /\ input' \in [payload : Payloads, more : Following]

PickFramed == PickMessage \/ PickVarint \/ PickFrame \/ PickPayload

FramesSpec == NothingPicked /\ [][PickFramed]_<<subject, input>>

-----------------------------------------------------------------------------
(* Properties *)

\* Everything that is framed is read back as it was, within the limits of size,
\* and nothing else is taken (sendMsg and readMsg, encodeVarint32 and
\* decodeVarint32, Wrap, Unwrap and ReadFrame).
FramesExact ==
    /\ subject = "message" => ReadsBack(input.isFirst, input.m, input.more)
    /\ subject = "varint" => VarintExact(input)
    /\ subject = "frame" => FramesAgree(input)
    /\ subject = "payload" => Unwraps(input.payload, input.more)

=============================================================================
