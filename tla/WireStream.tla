----------------------------- MODULE WireStream -----------------------------
(***************************************************************************)
(* The framing protocol of src/src/wire.cpp: a WireEncoder, the byte       *)
(* stream its caller drains it into, and the WireDecoder at the other end, *)
(* fed in chunks that ignore frame boundaries.                             *)
(*                                                                         *)
(* A stream is a sequence of cells.  A frame is a magic cell, a head cell  *)
(* (sequence number, EOS flag, payload length), its payload cells and a    *)
(* checksum cell, which holds the cells it covers: a checksum that matches *)
(* other cells (a CRC-32 collision) is not modelled.                       *)
(*                                                                         *)
(* An operator <name>_slip_<what> is <name> with a slip of the programmer  *)
(* in it; no specification uses it (see README.md).                        *)
(***************************************************************************)
EXTENDS Integers, Sequences

CONSTANTS
    MaxPayload,    \* kWireMaxPayload
    SeqModulus,    \* 2^32: next_seq_ is a uint32_t
    MaxFrames,     \* bound: frames encoded
    MaxFaults,     \* bound: cells corrupted in transit
    MaxResets      \* bound: calls of WireDecoder::reset()

ASSUME WireAssumption ==
    /\ MaxPayload \in Nat /\ MaxFrames \in Nat
    /\ SeqModulus \in Nat \ {0}
    /\ MaxFaults \in Nat /\ MaxResets \in Nat

VARIABLES
    tx,         \* WireEncoder::buf_
    next_seq,   \* WireEncoder::next_seq_
    net,        \* cells between take() and feed()
    buf, pos,   \* WireDecoder::buf_, pos_
    code,       \* what next_frame() returned last
    sent,       \* history: frames encoded
    received,   \* history: frames next_frame() returned
    faults,     \* history: cells corrupted
    resets      \* history: resets

vars == << tx, next_seq, net, buf, pos, code, sent, received, faults, resets >>

Magic == << "magic" >>
Noise == << "noise" >>
FrameHead(seq, eos, len) == << "head", seq, eos, len >>
Covers(cells) == << "crc", cells >>

kWireHeaderSize == 2
kWireCrcSize == 1
kWireMinFrameSize == kWireHeaderSize + kWireCrcSize

Frame(seq, eos, payload) == [seq |-> seq, eos |-> eos, payload |-> payload]

Encoded(frame) ==
    LET covered == << Magic, FrameHead(frame.seq, frame.eos, Len(frame.payload)) >>
                        \o frame.payload
    IN  Append(covered, Covers(covered))

Init ==
    /\ tx = << >> /\ next_seq = 0
    /\ net = << >>
    /\ buf = << >> /\ pos = 0 /\ code = "Ok"
    /\ sent = << >> /\ received = << >>
    /\ faults = 0 /\ resets = 0

-----------------------------------------------------------------------------
(* Encoder and transport *)

\* encode_container, or encode_eos with an empty payload.  A payload past
\* kWireMaxPayload throws before anything is written.
EncodeFrame(len, eos) ==
    LET frame == Frame(next_seq, eos, [j \in 1..len |-> << "data", Len(sent), j >>])
    IN  /\ Len(sent) < MaxFrames
        /\ len <= MaxPayload
        /\ eos => len = 0
        /\ tx' = tx \o Encoded(frame)
        /\ next_seq' = (next_seq + 1) % SeqModulus
        /\ sent' = Append(sent, frame)
        /\ UNCHANGED << net, buf, pos, code, received, faults, resets >>

\* take() swaps the buffer out; its caller writes the bytes to the stream.
Take ==
    /\ tx # << >>
    /\ net' = net \o tx
    /\ tx' = << >>
    /\ UNCHANGED << next_seq, buf, pos, code, sent, received, faults, resets >>

\* A corrupted head claims another length; any other cell becomes noise.
Corrupt(i) ==
    /\ faults < MaxFaults
    /\ i \in DOMAIN net
    /\ \/ /\ net[i][1] = "head"
          /\ \E len \in (0 .. MaxPayload + 1) \ {net[i][4]} :
                net' = [net EXCEPT ![i][4] = len]
       \/ net[i][1] # "head" /\ net' = [net EXCEPT ![i] = Noise]
    /\ faults' = faults + 1
    /\ UNCHANGED << tx, next_seq, buf, pos, code, sent, received, resets >>

feed(n) ==
    /\ n \in DOMAIN net
    /\ buf' = buf \o SubSeq(net, 1, n)
    /\ net' = SubSeq(net, n + 1, Len(net))
    /\ UNCHANGED << tx, next_seq, pos, code, sent, received, faults, resets >>

-----------------------------------------------------------------------------
(* Decoder *)

Pending == SubSeq(buf, pos + 1, Len(buf))
pending_bytes == Len(Pending)

\* read_le32(p + 12).  A cell that is no head reads as some length: zero.
payload_len(cells) == IF cells[2][1] = "head" THEN cells[2][4] ELSE 0
total_slip_no_crc(cells) == kWireHeaderSize + payload_len(cells)
total(cells) == kWireHeaderSize + payload_len(cells) + kWireCrcSize

has_frame_slip_header_only == pending_bytes >= kWireMinFrameSize
has_frame ==
    /\ pending_bytes >= kWireMinFrameSize
    /\ pending_bytes >= total(Pending)

\* The checks of next_frame(), in its order.
Outcome(cells) ==
    IF Len(cells) < kWireMinFrameSize THEN "Truncated"
    ELSE IF cells[1] # Magic THEN "BadMagic"
    ELSE IF payload_len(cells) > MaxPayload THEN "LimitExceeded"
    ELSE IF Len(cells) < total(cells) THEN "Truncated"
    ELSE IF cells[total(cells)] # Covers(SubSeq(cells, 1, total(cells) - 1))
         THEN "BadChecksum"
    ELSE "Ok"

Compacts_slip_never == FALSE
\* maybe_compact() erases the consumed prefix once it is half the buffer.
Compacts == pos > 0 /\ pos >= Len(buf) \div 2

\* How far the cursor moves: only a frame that passes every check is consumed,
\* after an error it stays where it is.
Consumed_slip_skips_damaged(outcome) ==
    IF outcome \in {"Ok", "BadChecksum"} THEN total(Pending) ELSE 0
Consumed(outcome) == IF outcome = "Ok" THEN total(Pending) ELSE 0

next_frame ==
    /\ code' = Outcome(Pending)
    /\ LET start == IF Compacts THEN 0 ELSE pos
       IN  /\ buf' = IF Compacts THEN Pending ELSE buf
           /\ pos' = start + Consumed(Outcome(Pending))
           /\ \/ /\ code' = "Ok"
                 /\ received' = Append(received,
                        Frame(Pending[2][2], Pending[2][3],
                              SubSeq(Pending, 3, total(Pending) - 1)))
              \/ /\ code' # "Ok"
                 /\ UNCHANGED received
    /\ UNCHANGED << tx, next_seq, net, sent, faults, resets >>

reset ==
    /\ resets < MaxResets
    /\ buf' = << >>
    /\ pos' = 0
    /\ resets' = resets + 1
    /\ UNCHANGED << tx, next_seq, net, code, sent, received, faults >>

Next ==
    \/ \E len \in 0..MaxPayload, eos \in BOOLEAN : EncodeFrame(len, eos)
    \/ Take
    \/ \E i \in DOMAIN net : Corrupt(i)
    \/ \E n \in DOMAIN net : feed(n)
    \/ next_frame
    \/ reset

Spec == Init /\ [][Next]_vars

\* The documented caller (wire.hpp, "Usage"): it drains the encoder, feeds what
\* arrives and calls next_frame() as long as has_frame() says so.
Poll == has_frame /\ next_frame
FairSpec ==
    /\ Spec
    /\ WF_vars(Take)
    /\ WF_vars(\E n \in DOMAIN net : feed(n))
    /\ WF_vars(Poll)

-----------------------------------------------------------------------------
Channel == INSTANCE FrameChannel
            WITH damaged <- faults + resets > 0, restarted <- resets > 0

\* has_frame() is right about next_frame(), on damaged input too: it promises
\* that the call will not ask for more bytes, and it does not miss a frame.
HasFrameExact ==
    /\ has_frame => Outcome(Pending) # "Truncated"
    /\ Outcome(Pending) = "Ok" => has_frame

\* The consumed prefix kept in the buffer is never more than the unread bytes
\* and two frames (maybe_compact's promise that the buffer "does not grow
\* indefinitely"), and the cursor never passes the end of the buffer.
PrefixBounded ==
    /\ pos <= Len(buf)
    /\ pos <= pending_bytes + 2 * (kWireHeaderSize + MaxPayload + kWireCrcSize)

\* The cells on their way, those the decoder has not consumed first, and the
\* encoding of all frames but the first k.
Stream == Pending \o net \o tx
EncodingFrom[k \in 0 .. MaxFrames] ==
    IF k >= Len(sent) THEN << >> ELSE Encoded(sent[k + 1]) \o EncodingFrom[k + 1]

\* Nothing is lost between the ends: without a fault or a reset, the stream
\* still in the buffers is exactly the encoding of the frames not yet returned.
NoBytesLost ==
    faults = 0 /\ resets = 0 =>
        /\ Stream = EncodingFrom[Len(received)]
        /\ Outcome(Pending) \in {"Ok", "Truncated"}

\* The protocol implements the channel of frames.  Whatever is corrupted, cut
\* into chunks or thrown away by reset(), every frame the decoder returns was
\* encoded, unaltered, in the order of encoding and at most once (the checks of
\* next_frame() and the single cursor); only a reset can leave frames out, never
\* an error; and as long as nothing was corrupted or reset all of them come,
\* under the documented polling loop.
ChannelSpec == Channel!Spec

\* Its safety part, without the promise of delivery.
ChannelSafety == Channel!Init /\ [][Channel!Next]_(Channel!vars)
=============================================================================
