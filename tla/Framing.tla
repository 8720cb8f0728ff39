------------------------------- MODULE Framing -------------------------------
(* The frames of the plugin socket (packages/plugin-runtime/src/protocol.ts):*)
(* four bytes with the length of the payload, the most significant first,    *)
(* and the payload.                                                          *)
EXTENDS Naturals, Sequences

Byte == 0..255
HeaderSize == 4

(* setUint32 and getUint32, not little-endian.                               *)
Header(n) ==
    <<(n \div 16777216) % 256, (n \div 65536) % 256, (n \div 256) % 256, n % 256>>

Length(h) == h[1] * 16777216 + h[2] * 65536 + h[3] * 256 + h[4]

(* The lengths for which four bytes are enough: less than 2^32.              *)
FitsHeader(n) == n \div 16777216 < 256

EncodeFrame(payload) == Header(Len(payload)) \o payload

(* The offset after the frame that starts after byte o of buffer.            *)
FrameEnd(buffer, o) ==
    o + HeaderSize + Length(SubSeq(buffer, o + 1, o + HeaderSize))


HasFrame(buffer, o) ==
    o + HeaderSize <= Len(buffer) /\ FrameEnd(buffer, o) <= Len(buffer)

(* The payloads of the whole frames in buffer, and what is left of it.       *)
TryDecodeFrames(buffer) ==
    LET from[o \in 0..Len(buffer)] ==
          IF HasFrame(buffer, o)
          THEN LET rest == from[FrameEnd(buffer, o)]
                   payload == SubSeq(buffer, o + HeaderSize + 1, FrameEnd(buffer, o))
               IN  [frames |-> <<payload>> \o rest.frames, end |-> rest.end]
          ELSE [frames |-> <<>>, end |-> o]
    IN  [frames |-> from[0].frames,
         remainder |-> SubSeq(buffer, from[0].end + 1, Len(buffer))]
=============================================================================
