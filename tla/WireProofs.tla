----------------------------- MODULE WireProofs -----------------------------
(***************************************************************************)
(* Theorems about the framing protocol: for payloads, streams and chunks   *)
(* of any size and whatever cells are corrupted, the decoder returns the   *)
(* encoded frames only, each once and in order.                            *)
(***************************************************************************)
EXTENDS WireStream, SetInduction, SequenceTheorems

-----------------------------------------------------------------------------
(* Cells and frames *)

DataCells == {"data"} \X Nat \X Nat
HeadCells == {FrameHead(h[1], h[2], h[3]) : h \in Nat \X BOOLEAN \X Nat}
PlainCells == {Magic, Noise} \cup HeadCells \cup DataCells
Cells == PlainCells \cup {Covers(cells) : cells \in Seq(PlainCells)}

Payloads == {p \in Seq(DataCells) : Len(p) <= MaxPayload}
Frames == [seq : Nat, eos : BOOLEAN, payload : Payloads]

\* Cells joined to cells are joined in whatever order.
LEMMA CellsAssociate ==
    ASSUME NEW a \in Seq(Cells), NEW b \in Seq(Cells), NEW c \in Seq(Cells)
    PROVE  (a \o b) \o c = a \o (b \o c)
BY ConcatAssociative, SMTT(60)

\* The first element of a cell tells what it is.
LEMMA CellKinds ==
    /\ \A c \in PlainCells : c[1] # "crc"
    /\ \A c \in Cells : c[1] = "head" =>
            \E s, l \in Nat, e \in BOOLEAN : c = FrameHead(s, e, l)
    /\ \A cells : Covers(cells)[1] = "crc" /\ Covers(cells)[2] = cells
<1>1. ASSUME NEW c \in PlainCells PROVE c[1] # "crc"
    <2>1. CASE c \in {Magic, Noise}
        BY <2>1 DEF Magic, Noise
    <2>2. CASE c \in HeadCells
        BY <2>2 DEF HeadCells, FrameHead
    <2>3. CASE c \in DataCells
        BY <2>3 DEF DataCells
    <2> QED
        BY <2>1, <2>2, <2>3 DEF PlainCells
<1>2. ASSUME NEW c \in Cells, c[1] = "head"
      PROVE  \E s, l \in Nat, e \in BOOLEAN : c = FrameHead(s, e, l)
    <2>1. CASE c \in {Magic, Noise}
        BY <1>2, <2>1 DEF Magic, Noise
    <2>2. CASE c \in HeadCells
        BY <2>2 DEF HeadCells
    <2>3. CASE c \in DataCells
        BY <1>2, <2>3 DEF DataCells
    <2>4. CASE c \in {Covers(cells) : cells \in Seq(PlainCells)}
        BY <1>2, <2>4 DEF Covers
    <2> QED
        BY <2>1, <2>2, <2>3, <2>4 DEF Cells, PlainCells
<1>3. \A cells : Covers(cells)[1] = "crc" /\ Covers(cells)[2] = cells
    BY DEF Covers
<1> QED
    BY <1>1, <1>2, <1>3

\* The part of a frame its checksum covers.
Covered(frame) ==
    << Magic, FrameHead(frame.seq, frame.eos, Len(frame.payload)) >> \o frame.payload

LEMMA CoveredCells ==
    ASSUME NEW frame \in Frames
    PROVE  /\ Covered(frame) \in Seq(PlainCells)
           /\ Len(frame.payload) \in 0 .. MaxPayload
           /\ Len(Covered(frame)) = Len(frame.payload) + 2
           /\ Covered(frame)[1] = Magic
           /\ Covered(frame)[2] = FrameHead(frame.seq, frame.eos, Len(frame.payload))
           /\ \A i \in 1 .. Len(frame.payload) : Covered(frame)[i + 2] = frame.payload[i]
<1> DEFINE len == Len(frame.payload)
           front == << Magic, FrameHead(frame.seq, frame.eos, len) >>
<1>1. /\ frame.seq \in Nat /\ frame.eos \in BOOLEAN
      /\ frame.payload \in Seq(DataCells) /\ len <= MaxPayload
    BY DEF Frames, Payloads
<1>2. frame.payload \in Seq(PlainCells)
    BY <1>1, SeqMonotonic DEF PlainCells
<1>3. len \in 0 .. MaxPayload
    BY <1>1, LenProperties, WireAssumption
<1>4. FrameHead(frame.seq, frame.eos, len) \in PlainCells
    <2>1. << frame.seq, frame.eos, len >> \in Nat \X BOOLEAN \X Nat
        BY <1>1, <1>3
    <2> QED
        BY <2>1 DEF PlainCells, HeadCells
<1>5. front \in Seq(PlainCells) /\ Len(front) = 2
      /\ front[1] = Magic /\ front[2] = FrameHead(frame.seq, frame.eos, len)
    BY <1>4 DEF PlainCells
<1> HIDE DEF front
<1> DEFINE payload == frame.payload
           all == front \o payload
<1>6. /\ all \in Seq(PlainCells)
      /\ Len(all) = 2 + len
      /\ \A i \in 1 .. 2 + len : all[i] = IF i <= 2 THEN front[i] ELSE payload[i - 2]
    <2> HIDE DEF payload, all
    <2>1. payload \in Seq(PlainCells) /\ len = Len(payload)
        BY <1>2 DEF payload
    <2>2. /\ all \in Seq(PlainCells)
          /\ Len(all) = Len(front) + Len(payload)
          /\ \A i \in 1 .. Len(front) + Len(payload) :
                all[i] = IF i <= Len(front) THEN front[i] ELSE payload[i - Len(front)]
        BY <1>5, <2>1, ConcatProperties DEF all
    <2> QED
        BY <1>5, <2>1, <2>2
<1>7. Covered(frame) = all
    BY DEF Covered, front
<1> QED
    BY <1>3, <1>5, <1>6, <1>7

\* A frame is what it covers and the checksum of that.
LEMMA EncodedCells ==
    ASSUME NEW frame \in Frames
    PROVE  /\ Encoded(frame) = Append(Covered(frame), Covers(Covered(frame)))
           /\ Encoded(frame) \in Seq(Cells)
           /\ Len(Encoded(frame)) = Len(frame.payload) + 3
           /\ \A i \in 1 .. Len(frame.payload) + 2 :
                /\ Encoded(frame)[i] = Covered(frame)[i]
                /\ Encoded(frame)[i][1] # "crc"
           /\ Encoded(frame)[Len(frame.payload) + 3] = Covers(Covered(frame))
<1>1. /\ Covered(frame) \in Seq(PlainCells)
      /\ Len(Covered(frame)) = Len(frame.payload) + 2
      /\ Len(frame.payload) \in Nat
    BY CoveredCells
<1>2. Covered(frame) \in Seq(Cells) /\ Covers(Covered(frame)) \in Cells
    BY <1>1, SeqMonotonic DEF Cells
<1>3. Encoded(frame) = Append(Covered(frame), Covers(Covered(frame)))
    BY DEF Encoded, Covered
<1>4. /\ Encoded(frame) \in Seq(Cells)
      /\ Len(Encoded(frame)) = Len(frame.payload) + 3
      /\ \A i \in 1 .. Len(frame.payload) + 2 : Encoded(frame)[i] = Covered(frame)[i]
      /\ Encoded(frame)[Len(frame.payload) + 3] = Covers(Covered(frame))
    BY <1>1, <1>2, <1>3, AppendProperties
<1>5. ASSUME NEW i \in 1 .. Len(frame.payload) + 2 PROVE Covered(frame)[i] \in PlainCells
    BY <1>1, ElementOfSeq
<1> QED
    BY <1>3, <1>4, <1>5, CellKinds

\* What is left of a sequence after its first p elements.
LEMMA Suffix ==
    ASSUME NEW S, NEW s \in Seq(S), NEW p \in 0 .. Len(s)
    PROVE  /\ SubSeq(s, p + 1, Len(s)) \in Seq(S)
           /\ Len(SubSeq(s, p + 1, Len(s))) = Len(s) - p
           /\ \A i \in 1 .. Len(s) - p : SubSeq(s, p + 1, Len(s))[i] = s[p + i]
<1>1. Len(s) \in Nat /\ \A i \in p + 1 .. Len(s) : s[i] \in S
    BY LenProperties, ElementOfSeq
<1>2. /\ SubSeq(s, p + 1, Len(s)) \in Seq(S)
      /\ Len(SubSeq(s, p + 1, Len(s))) = IF p + 1 <= Len(s) THEN Len(s) - (p + 1) + 1 ELSE 0
      /\ \A i \in 1 .. Len(s) - (p + 1) + 1 : SubSeq(s, p + 1, Len(s))[i] = s[p + 1 + i - 1]
    BY <1>1, SubSeqProperties
<1>3. Len(SubSeq(s, p + 1, Len(s))) = Len(s) - p
    BY <1>1, <1>2
<1>4. ASSUME NEW i \in 1 .. Len(s) - p PROVE SubSeq(s, p + 1, Len(s))[i] = s[p + i]
    <2>1. i \in 1 .. Len(s) - (p + 1) + 1 /\ p + 1 + i - 1 = p + i
        BY <1>1
    <2> QED
        BY <1>2, <2>1
<1> QED
    BY <1>2, <1>3, <1>4

LEMMA Prefix ==
    ASSUME NEW S, NEW s \in Seq(S), NEW n \in 0 .. Len(s)
    PROVE  /\ SubSeq(s, 1, n) \in Seq(S)
           /\ Len(SubSeq(s, 1, n)) = n
           /\ \A i \in 1 .. n : SubSeq(s, 1, n)[i] = s[i]
<1>1. Len(s) \in Nat /\ \A i \in 1 .. n : s[i] \in S
    BY LenProperties, ElementOfSeq
<1>2. /\ SubSeq(s, 1, n) \in Seq(S)
      /\ Len(SubSeq(s, 1, n)) = IF 1 <= n THEN n - 1 + 1 ELSE 0
      /\ \A i \in 1 .. n - 1 + 1 : SubSeq(s, 1, n)[i] = s[1 + i - 1]
    BY <1>1, SubSeqProperties
<1>3. n - 1 + 1 = n
    BY <1>1
<1> QED
    BY <1>1, <1>2, <1>3

-----------------------------------------------------------------------------
(* Types *)

\* The buffers hold cells, and the frames encoded are frames.
Typed ==
    /\ tx \in Seq(Cells) /\ net \in Seq(Cells) /\ buf \in Seq(Cells)
    /\ pos \in 0 .. Len(buf)
    /\ next_seq \in Nat
    /\ sent \in Seq(Frames) /\ Len(sent) <= MaxFrames
    /\ faults \in Nat /\ resets \in Nat

LEMMA TypedInit == Init => Typed
<1>1. ASSUME NEW S PROVE << >> \in Seq(S) /\ Len(<< >>) = 0
    BY EmptySeq
<1> QED
    BY <1>1, WireAssumption DEF Init, Typed

\* What the decoder has not consumed.
LEMMA PendingCells ==
    Typed => /\ Pending \in Seq(Cells)
             /\ pending_bytes \in Nat /\ pending_bytes = Len(buf) - pos
             /\ \A i \in 1 .. pending_bytes : Pending[i] = buf[pos + i]
<1> SUFFICES ASSUME Typed
             PROVE  /\ Pending \in Seq(Cells)
                    /\ pending_bytes \in Nat /\ pending_bytes = Len(buf) - pos
                    /\ \A i \in 1 .. pending_bytes : Pending[i] = buf[pos + i]
    OBVIOUS
<1>1. buf \in Seq(Cells) /\ pos \in 0 .. Len(buf) /\ Len(buf) \in Nat
    BY LenProperties DEF Typed
<1> QED
    BY <1>1, Suffix DEF Pending, pending_bytes

\* The frame next_frame() takes: it is all there, and no longer than a frame.
LEMMA Claims ==
    ASSUME NEW cells \in Seq(Cells), Len(cells) >= kWireMinFrameSize
    PROVE  payload_len(cells) \in Nat /\ total(cells) = payload_len(cells) + 3
<1>1. cells[2] \in Cells
    BY ElementOfSeq, LenProperties
       DEF kWireMinFrameSize, kWireHeaderSize, kWireCrcSize
<1>2. cells[2][1] = "head" => cells[2][4] \in Nat
    BY <1>1, CellKinds DEF FrameHead
<1>3. payload_len(cells) \in Nat
    BY <1>2 DEF payload_len
<1> QED
    BY <1>3 DEF total, kWireHeaderSize, kWireCrcSize

LEMMA OkClaims ==
    ASSUME NEW cells \in Seq(Cells), Outcome(cells) = "Ok"
    PROVE  /\ total(cells) \in 3 .. Len(cells) /\ total(cells) <= MaxPayload + 3
           /\ cells[total(cells)] = Covers(SubSeq(cells, 1, total(cells) - 1))
<1>1. /\ ~ (Len(cells) < kWireMinFrameSize)
      /\ ~ (payload_len(cells) > MaxPayload)
      /\ ~ (Len(cells) < total(cells))
      /\ cells[total(cells)] = Covers(SubSeq(cells, 1, total(cells) - 1))
    BY DEF Outcome
<1>2. Len(cells) \in Nat /\ Len(cells) >= kWireMinFrameSize
    BY <1>1, LenProperties DEF kWireMinFrameSize, kWireHeaderSize, kWireCrcSize
<1>3. payload_len(cells) \in Nat /\ total(cells) = payload_len(cells) + 3
    BY <1>2, Claims
<1> QED
    BY <1>1, <1>2, <1>3, WireAssumption

\* Corruption leaves cells: a head claims another length, anything else is noise.
LEMMA CorruptCell ==
    ASSUME Typed, NEW i, Corrupt(i)
    PROVE  /\ i \in 1 .. Len(net) /\ net' \in Seq(Cells) /\ Len(net') = Len(net)
           /\ \A j \in 1 .. Len(net) : net'[j] = net[j] \/ net'[j][1] # "crc"
           /\ faults' = faults + 1
           /\ UNCHANGED << tx, next_seq, buf, pos, code, sent, received, resets >>
<1>1. net \in Seq(Cells) /\ i \in 1 .. Len(net) /\ net[i] \in Cells
    BY LenProperties, ElementOfSeq, SMTT(60) DEF Typed, Corrupt
<1>2. PICK c \in Cells : net' = [net EXCEPT ![i] = c] /\ c[1] # "crc"
    <2>1. CASE net[i][1] = "head"
        <3>1. PICK len \in 0 .. MaxPayload + 1 : net' = [net EXCEPT ![i][4] = len]
            BY <2>1 DEF Corrupt
        <3>2. PICK s, l \in Nat, e \in BOOLEAN : net[i] = FrameHead(s, e, l)
            BY <1>1, <2>1, CellKinds
        <3>3. len \in Nat
            BY <3>1, WireAssumption
        <3>4. net' = [net EXCEPT ![i] = FrameHead(s, e, len)]
            <4>1. net' = [net EXCEPT ![i] = [net[i] EXCEPT ![4] = len]]
                BY <3>1
            <4>2. [FrameHead(s, e, l) EXCEPT ![4] = len] = FrameHead(s, e, len)
                BY DEF FrameHead
            <4> QED
                BY <3>2, <4>1, <4>2
        <3>5. FrameHead(s, e, len) \in Cells
            <4>1. << s, e, len >> \in Nat \X BOOLEAN \X Nat
                BY <3>2, <3>3
            <4> QED
                BY <4>1 DEF Cells, PlainCells, HeadCells
        <3>6. FrameHead(s, e, len)[1] # "crc"
            BY DEF FrameHead
        <3> QED
            BY <3>4, <3>5, <3>6
    <2>2. CASE net[i][1] # "head"
        BY <2>2 DEF Corrupt, Noise, Cells, PlainCells
    <2> QED
        BY <2>1, <2>2
<1>3. /\ [net EXCEPT ![i] = c] \in Seq(Cells)
      /\ Len([net EXCEPT ![i] = c]) = Len(net)
      /\ \A j \in 1 .. Len(net) : [net EXCEPT ![i] = c][j] = IF j = i THEN c ELSE net[j]
    BY <1>1, ExceptSeq
<1> QED
    BY <1>1, <1>2, <1>3 DEF Corrupt

\* encode_container and encode_eos write one frame behind what is buffered.
LEMMA FrameWritten ==
    ASSUME Typed, NEW len \in 0 .. MaxPayload, NEW eos \in BOOLEAN, EncodeFrame(len, eos)
    PROVE  \E frame \in Frames :
              /\ tx' = tx \o Encoded(frame) /\ sent' = Append(sent, frame)
              /\ Len(sent) < MaxFrames /\ next_seq' \in Nat
              /\ UNCHANGED << net, buf, pos, code, received, faults, resets >>
<1> DEFINE payload == [j \in 1 .. len |-> << "data", Len(sent), j >>]
           frame == Frame(next_seq, eos, payload)
<1>1. len \in Nat /\ len <= MaxPayload /\ Len(sent) \in Nat /\ next_seq \in Nat
    BY LenProperties, WireAssumption DEF Typed
<1>2. payload \in Payloads
    <2>1. \A j \in 1 .. len : << "data", Len(sent), j >> \in DataCells
        BY <1>1 DEF DataCells
    <2>2. payload \in [1 .. len -> DataCells]
        BY <2>1
    <2> HIDE DEF payload
    <2>3. payload \in Seq(DataCells) /\ Len(payload) = len
        BY <1>1, <2>2
    <2> QED
        BY <1>1, <2>3 DEF Payloads
<1> HIDE DEF payload
<1>3. frame \in Frames
    BY <1>1, <1>2 DEF Frame, Frames
<1>4. (next_seq + 1) % SeqModulus \in Nat
    BY <1>1, WireAssumption
<1>5. /\ tx' = tx \o Encoded(frame) /\ sent' = Append(sent, frame)
      /\ Len(sent) < MaxFrames /\ next_seq' \in Nat
      /\ UNCHANGED << net, buf, pos, code, received, faults, resets >>
    BY <1>4 DEF EncodeFrame, payload
<1> HIDE DEF frame
<1> QED
    BY <1>3, <1>5

\* What next_frame() leaves: the cursor moves by what was consumed, whether or
\* not the buffer is compacted under it.
LEMMA CursorMoves ==
    ASSUME Typed, next_frame
    PROVE  LET moved == Consumed(Outcome(Pending))
           IN  /\ moved \in 0 .. Len(Pending) /\ moved <= MaxPayload + 3
               /\ buf' \in Seq(Cells)
               /\ IF Compacts THEN buf' = Pending /\ pos' = moved
                  ELSE buf' = buf /\ pos' = pos + moved
               /\ pos' \in 0 .. Len(buf')
               /\ Pending' = SubSeq(Pending, moved + 1, Len(Pending))
               /\ UNCHANGED << tx, next_seq, net, sent, faults, resets >>
<1> DEFINE moved == Consumed(Outcome(Pending))
           rest == SubSeq(Pending, moved + 1, Len(Pending))
<1>1. /\ buf \in Seq(Cells) /\ pos \in Nat /\ Len(buf) \in Nat /\ pos <= Len(buf)
      /\ Pending \in Seq(Cells) /\ Len(Pending) = Len(buf) - pos
      /\ \A i \in 1 .. Len(Pending) : Pending[i] = buf[pos + i]
    BY PendingCells, LenProperties DEF Typed, pending_bytes
<1>2. moved \in 0 .. Len(Pending) /\ moved <= MaxPayload + 3
    <2>1. CASE Outcome(Pending) = "Ok"
        <3>1. total(Pending) \in 3 .. Len(Pending) /\ total(Pending) <= MaxPayload + 3
            BY <1>1, <2>1, OkClaims
        <3> QED
            BY <1>1, <2>1, <3>1 DEF Consumed
    <2>2. CASE Outcome(Pending) # "Ok"
        BY <1>1, <2>2, WireAssumption DEF Consumed
    <2> QED
        BY <2>1, <2>2
<1>3. /\ IF Compacts THEN buf' = Pending /\ pos' = 0 + moved
         ELSE buf' = buf /\ pos' = pos + moved
      /\ UNCHANGED << tx, next_seq, net, sent, faults, resets >>
    BY DEF next_frame
<1> HIDE DEF moved
<1>4. /\ rest \in Seq(Cells) /\ Len(rest) = Len(Pending) - moved
      /\ \A i \in 1 .. Len(Pending) - moved : rest[i] = Pending[moved + i]
    BY <1>1, <1>2, Suffix
<1>5. CASE Compacts
    <2>1. buf' = Pending /\ pos' = moved
        BY <1>2, <1>3, <1>5
    <2>2. Pending' = rest
        BY <2>1 DEF Pending
    <2> QED
        BY <1>1, <1>2, <1>3, <1>5, <2>1, <2>2 DEF moved
<1>6. CASE ~ Compacts
    <2>1. buf' = buf /\ pos' = pos + moved
        BY <1>3, <1>6
    <2>2. pos + moved \in 0 .. Len(buf)
        BY <1>1, <1>2
    <2> DEFINE after == SubSeq(buf, pos + moved + 1, Len(buf))
    <2>3. Pending' = after
        BY <2>1 DEF Pending
    <2>4. /\ after \in Seq(Cells) /\ Len(after) = Len(buf) - (pos + moved)
          /\ \A i \in 1 .. Len(buf) - (pos + moved) : after[i] = buf[pos + moved + i]
        BY <1>1, <2>2, Suffix
    <2> HIDE DEF rest, after
    <2>5. Len(after) = Len(rest)
        BY <1>1, <1>2, <1>4, <2>4
    <2>6. ASSUME NEW i \in 1 .. Len(after) PROVE after[i] = rest[i]
        <3>1. i \in 1 .. Len(buf) - (pos + moved) /\ i \in 1 .. Len(Pending) - moved
              /\ moved + i \in 1 .. Len(Pending) /\ pos + (moved + i) = pos + moved + i
            BY <1>1, <1>2, <2>4, SMTT(60)
        <3> QED
            BY <1>1, <1>4, <2>4, <3>1
    <2>7. after = rest
        BY <1>4, <2>4, <2>5, <2>6, SeqEqual
    <2> QED
        BY <1>1, <1>2, <1>3, <1>6, <2>1, <2>2, <2>3, <2>7 DEF moved, rest
<1> QED
    BY <1>5, <1>6

\* feed(n) moves the first n cells of the stream into the buffer.
LEMMA FedCells ==
    ASSUME Typed, NEW n \in DOMAIN net, feed(n)
    PROVE  LET chunk == SubSeq(net, 1, n)
           IN  /\ chunk \in Seq(Cells) /\ net' \in Seq(Cells) /\ net = chunk \o net'
               /\ buf' = buf \o chunk /\ buf' \in Seq(Cells)
               /\ Len(buf') = Len(buf) + n
               /\ Pending' = Pending \o chunk
               /\ UNCHANGED << tx, next_seq, pos, code, sent, received, faults, resets >>
<1> DEFINE chunk == SubSeq(net, 1, n)
           rest == SubSeq(net, n + 1, Len(net))
<1>1. /\ net \in Seq(Cells) /\ n \in 1 .. Len(net) /\ Len(net) \in Nat
      /\ buf \in Seq(Cells) /\ Len(buf) \in Nat /\ pos \in 0 .. Len(buf)
    BY LenProperties DEF Typed
<1>2. chunk \in Seq(Cells) /\ Len(chunk) = n
    BY <1>1, Prefix
<1>3. rest \in Seq(Cells)
    BY <1>1, Suffix
<1>4. net = chunk \o rest
    <2>1. chunk \o rest = SubSeq(net, 1, Len(net))
        <3>1. 1 \in 1 .. Len(net) + 1 /\ n \in 1 - 1 .. Len(net) /\ Len(net) \in n .. Len(net)
            BY <1>1
        <3> QED
            BY <1>1, <3>1, ConcatAdjacentSubSeq
    <2> QED
        BY <1>1, <2>1, SubSeqFull
<1>5. /\ buf' = buf \o chunk /\ net' = rest
      /\ UNCHANGED << tx, next_seq, pos, code, sent, received, faults, resets >>
    BY DEF feed
<1> HIDE DEF chunk, rest
<1>6. /\ buf \o chunk \in Seq(Cells) /\ Len(buf \o chunk) = Len(buf) + n
      /\ \A i \in 1 .. Len(buf) + n :
            (buf \o chunk)[i] = IF i <= Len(buf) THEN buf[i] ELSE chunk[i - Len(buf)]
    BY <1>1, <1>2, ConcatProperties
<1>7. Pending' = Pending \o chunk
    <2> DEFINE whole == buf \o chunk
               now == SubSeq(whole, pos + 1, Len(whole))
               then == Pending \o chunk
    <2>1. Pending' = now
        BY <1>5 DEF Pending
    <2>2. /\ Pending \in Seq(Cells) /\ Len(Pending) = Len(buf) - pos
          /\ \A i \in 1 .. Len(Pending) : Pending[i] = buf[pos + i]
        BY PendingCells DEF pending_bytes
    <2>3. /\ then \in Seq(Cells) /\ Len(then) = Len(Pending) + n
          /\ \A i \in 1 .. Len(Pending) + n :
                then[i] = IF i <= Len(Pending) THEN Pending[i] ELSE chunk[i - Len(Pending)]
        BY <1>2, <2>2, ConcatProperties
    <2>4. /\ whole \in Seq(Cells) /\ Len(whole) = Len(buf) + n /\ pos \in 0 .. Len(whole)
        BY <1>1, <1>6
    <2>5. \A i \in 1 .. Len(buf) + n :
              whole[i] = IF i <= Len(buf) THEN buf[i] ELSE chunk[i - Len(buf)]
        BY <1>6
    <2> HIDE DEF whole, then
    <2>6. /\ now \in Seq(Cells) /\ Len(now) = Len(whole) - pos
          /\ \A i \in 1 .. Len(whole) - pos : now[i] = whole[pos + i]
        BY <2>4, Suffix, SMTT(60)
    <2> HIDE DEF now
    <2>7. Len(now) = Len(then)
        BY <1>1, <2>2, <2>3, <2>4, <2>6, SMTT(60)
    <2>8. ASSUME NEW i \in 1 .. Len(now) PROVE now[i] = then[i]
        <3>1. now[i] = whole[pos + i] /\ pos + i \in 1 .. Len(buf) + n
            BY <1>1, <2>4, <2>6, SMTT(60)
        <3>2. CASE i <= Len(Pending)
            <4>1. pos + i <= Len(buf) /\ i \in 1 .. Len(Pending) /\ i \in 1 .. Len(Pending) + n
                BY <1>1, <2>2, <3>2, SMTT(60)
            <4> QED
                BY <2>2, <2>3, <2>5, <3>1, <3>2, <4>1
        <3>3. CASE ~ (i <= Len(Pending))
            <4>1. ~ (pos + i <= Len(buf)) /\ i \in 1 .. Len(Pending) + n
                  /\ (pos + i) - Len(buf) = i - Len(Pending)
                BY <1>1, <2>2, <2>4, <2>6, <3>3, SMTT(60)
            <4> QED
                BY <2>3, <2>5, <3>1, <3>3, <4>1
        <3> QED
            BY <3>2, <3>3
    <2>9. now = then
        BY <2>3, <2>6, <2>7, <2>8, SeqEqual
    <2> QED
        BY <2>1, <2>9 DEF then
<1> QED
    BY <1>2, <1>3, <1>4, <1>5, <1>6, <1>7 DEF chunk

LEMMA TypedStep == Typed /\ [Next]_vars => Typed'
<1> SUFFICES ASSUME Typed, [Next]_vars PROVE Typed'
    OBVIOUS
<1>1. ASSUME NEW len \in 0 .. MaxPayload, NEW eos \in BOOLEAN, EncodeFrame(len, eos)
      PROVE  Typed'
    <2>1. PICK frame \in Frames :
              /\ tx' = tx \o Encoded(frame) /\ sent' = Append(sent, frame)
              /\ Len(sent) < MaxFrames /\ next_seq' \in Nat
              /\ UNCHANGED << net, buf, pos, code, received, faults, resets >>
        BY <1>1, FrameWritten
    <2>2. tx' \in Seq(Cells)
        BY <2>1, EncodedCells, ConcatProperties DEF Typed
    <2>3. sent' \in Seq(Frames) /\ Len(sent') = Len(sent) + 1
        BY <2>1, AppendProperties DEF Typed
    <2>4. Len(sent) \in Nat
        BY LenProperties DEF Typed
    <2> QED
        BY <2>1, <2>2, <2>3, <2>4, WireAssumption DEF Typed
<1>2. CASE Take
    <2>1. net \o tx \in Seq(Cells)
        BY ConcatProperties DEF Typed
    <2>2. << >> \in Seq(Cells)
        BY EmptySeq
    <2> QED
        BY <1>2, <2>1, <2>2 DEF Take, Typed
<1>3. ASSUME NEW i \in DOMAIN net, Corrupt(i) PROVE Typed'
    BY <1>3, CorruptCell, SMTT(60) DEF Typed
<1>4. ASSUME NEW n \in DOMAIN net, feed(n) PROVE Typed'
    <2>1. n \in Nat /\ Len(buf) \in Nat
        BY LenProperties DEF Typed
    <2>2. /\ net' \in Seq(Cells) /\ buf' \in Seq(Cells) /\ Len(buf') = Len(buf) + n
          /\ UNCHANGED << tx, next_seq, pos, code, sent, received, faults, resets >>
        BY <1>4, FedCells
    <2> QED
        BY <2>1, <2>2, SMTT(60) DEF Typed
<1>5. CASE next_frame
    BY <1>5, CursorMoves DEF Typed
<1>6. CASE reset
    <2>1. << >> \in Seq(Cells) /\ Len(<< >>) = 0
        BY EmptySeq
    <2> QED
        BY <1>6, <2>1 DEF reset, Typed
<1>7. CASE UNCHANGED vars
    BY <1>7 DEF vars, Typed
<1> QED
    BY <1>1, <1>2, <1>3, <1>4, <1>5, <1>6, <1>7 DEF Next

-----------------------------------------------------------------------------
(* The decoder alone *)

LEMMA HasFrameRight == Typed => HasFrameExact
<1> SUFFICES ASSUME Typed
             PROVE  /\ has_frame => Outcome(Pending) # "Truncated"
                    /\ Outcome(Pending) = "Ok" => has_frame
    BY DEF HasFrameExact
<1>1. Pending \in Seq(Cells) /\ Len(Pending) \in Nat /\ pending_bytes = Len(Pending)
    BY PendingCells DEF pending_bytes
<1>2. ASSUME has_frame PROVE Outcome(Pending) # "Truncated"
    <2>1. Len(Pending) >= kWireMinFrameSize /\ Len(Pending) >= total(Pending)
        BY <1>1, <1>2 DEF has_frame
    <2>2. total(Pending) \in Nat
        BY <1>1, <2>1, Claims
    <2> QED
        BY <1>1, <2>1, <2>2 DEF Outcome, kWireMinFrameSize, kWireHeaderSize, kWireCrcSize
<1>3. ASSUME Outcome(Pending) = "Ok" PROVE has_frame
    <2>1. total(Pending) \in 3 .. Len(Pending)
        BY <1>1, <1>3, OkClaims
    <2> QED
        BY <1>1, <2>1
        DEF has_frame, kWireMinFrameSize, kWireHeaderSize, kWireCrcSize
<1> QED
    BY <1>2, <1>3

\* has_frame() never sends its caller into a next_frame() that wants more bytes,
\* and never hides a frame, whatever the bytes and wherever they were cut.
THEOREM HasFrameCorrect == Spec => []HasFrameExact
BY TypedInit, TypedStep, HasFrameRight, PTL DEF Spec

LEMMA PrefixInit == Init => PrefixBounded
<1>1. Init => pending_bytes = 0 /\ Len(buf) = 0
    <2>1. Len(<< >>) = 0
        BY EmptySeq
    <2> QED
        BY <2>1, TypedInit, PendingCells DEF Init
<1> QED
    BY <1>1, WireAssumption
    DEF Init, PrefixBounded, kWireHeaderSize, kWireCrcSize

\* Compaction comes a call late, when the cursor has already passed half of the
\* buffer: between two calls it advances by one frame at most.
LEMMA PrefixStep == Typed /\ PrefixBounded /\ [Next]_vars => PrefixBounded'
<1> DEFINE frame_max == MaxPayload + 3
<1> SUFFICES ASSUME Typed, PrefixBounded, [Next]_vars PROVE PrefixBounded'
    OBVIOUS
<1>1. Typed' /\ frame_max \in Nat
    BY TypedStep, WireAssumption
<1>2. /\ Len(buf) \in Nat /\ pos \in Nat /\ pos <= Len(buf)
      /\ pending_bytes = Len(buf) - pos /\ pos <= pending_bytes + 2 * frame_max
    <2>1. kWireHeaderSize + MaxPayload + kWireCrcSize = frame_max
        BY WireAssumption DEF kWireHeaderSize, kWireCrcSize
    <2>2. buf \in Seq(Cells) /\ pos \in 0 .. Len(buf)
        BY DEF Typed
    <2>3. pos <= pending_bytes + 2 * frame_max
        BY <2>1 DEF PrefixBounded
    <2> QED
        BY <2>2, <2>3, PendingCells, LenProperties
<1>3. ASSUME Len(buf') \in Nat, pos' \in 0 .. Len(buf'),
             pos' <= (Len(buf') - pos') + 2 * frame_max
      PROVE  PrefixBounded'
    <2>1. kWireHeaderSize + MaxPayload + kWireCrcSize = frame_max
        BY WireAssumption DEF kWireHeaderSize, kWireCrcSize
    <2>2. pending_bytes' = Len(buf') - pos'
        <3>1. pending_bytes' = Len(SubSeq(buf', pos' + 1, Len(buf')))
            BY DEF pending_bytes, Pending
        <3>2. buf' \in Seq(Cells)
            BY <1>1 DEF Typed
        <3>3. \A b \in Seq(Cells) : \A p \in 0 .. Len(b) :
                  Len(SubSeq(b, p + 1, Len(b))) = Len(b) - p
            BY Suffix
        <3> QED
            BY <1>3, <3>1, <3>2, <3>3
    <2> QED
        BY <1>3, <2>1, <2>2 DEF PrefixBounded
<1>4. CASE UNCHANGED << buf, pos >>
    BY <1>2, <1>3, <1>4
<1>5. ASSUME NEW n \in DOMAIN net, feed(n) PROVE PrefixBounded'
    <2>1. n \in Nat
        BY LenProperties DEF Typed
    <2>2. Len(buf') = Len(buf) + n /\ pos' = pos
        BY <1>5, FedCells
    <2> QED
        BY <1>1, <1>2, <1>3, <2>1, <2>2, SMTT(60)
<1>6. CASE next_frame
    <2> DEFINE moved == Consumed(Outcome(Pending))
    <2>1. /\ moved \in 0 .. Len(Pending) /\ moved <= frame_max
          /\ IF Compacts THEN buf' = Pending /\ pos' = moved
             ELSE buf' = buf /\ pos' = pos + moved
          /\ pos' \in 0 .. Len(buf')
        BY <1>6, CursorMoves
    <2>2. Len(Pending) = Len(buf) - pos
        BY <1>2 DEF pending_bytes
    <2> HIDE DEF moved
    <2>3. CASE Compacts
        BY <1>1, <1>2, <1>3, <2>1, <2>2, <2>3, SMTT(60)
    <2>4. CASE ~ Compacts
        <3>1. pos = 0 \/ pos < Len(buf) \div 2
            BY <1>2, <2>4 DEF Compacts
        <3>2. 2 * pos <= Len(buf)
            BY <1>2, <3>1
        <3>3. pos + moved <= (Len(buf) - (pos + moved)) + 2 * frame_max
            BY <1>1, <1>2, <2>1, <2>2, <3>2, SMTT(60)
        <3> QED
            BY <1>2, <1>3, <2>1, <2>4, <3>3
    <2> QED
        BY <2>3, <2>4
<1>7. CASE reset
    <2>1. Len(<< >>) = 0
        BY EmptySeq
    <2> QED
        BY <1>1, <1>3, <1>7, <2>1 DEF reset
<1>8. ASSUME NEW i, Corrupt(i) PROVE UNCHANGED << buf, pos >>
    BY <1>8 DEF Corrupt
<1>9. ASSUME NEW len, NEW eos, EncodeFrame(len, eos) PROVE UNCHANGED << buf, pos >>
    BY <1>9 DEF EncodeFrame
<1> QED
    BY <1>4, <1>5, <1>6, <1>7, <1>8, <1>9 DEF Next, Take, vars

\* The buffer keeps at most what is unread and two frames, however it is fed.
THEOREM PrefixStaysBounded == Spec => []PrefixBounded
BY TypedInit, TypedStep, PrefixInit, PrefixStep, PTL DEF Spec

-----------------------------------------------------------------------------
(* The log: every cell ever encoded, and where each frame ends in it *)

\* `full' is the encoding of the frames s one after the other, the k-th of
\* which ends at ends[k]; a checksum cell is the end of a frame.
Logged(s, full, ends) ==
    /\ full \in Seq(Cells)
    /\ ends \in [0 .. Len(s) -> Nat]
    /\ ends[0] = 0 /\ ends[Len(s)] = Len(full)
    /\ \A k \in 1 .. Len(s) :
        /\ ends[k] = ends[k - 1] + Len(Encoded(s[k]))
        /\ \A i \in 1 .. Len(Encoded(s[k])) : full[ends[k - 1] + i] = Encoded(s[k])[i]
    /\ \A j, k \in 0 .. Len(s) : j < k => ends[j] < ends[k]
    /\ \A p \in 1 .. Len(full) :
        full[p][1] = "crc" => \E j \in 1 .. Len(s) : p = ends[j]

LEMMA LogEmpty == Logged(<< >>, << >>, [k \in 0 .. 0 |-> 0])
<1>1. Len(<< >>) = 0 /\ << >> \in Seq(Cells)
    BY EmptySeq
<1> DEFINE ends == [k \in 0 .. 0 |-> 0]
<1>2. ends \in [0 .. 0 -> Nat] /\ ends[0] = 0
    OBVIOUS
<1>3. 1 .. 0 = {} /\ \A j, k \in 0 .. 0 : ~ (j < k)
    OBVIOUS
<1> QED
    BY <1>1, <1>2, <1>3 DEF Logged

LEMMA LogAppended ==
    ASSUME NEW s \in Seq(Frames), NEW full, NEW ends, Logged(s, full, ends),
           NEW frame \in Frames
    PROVE  Logged(Append(s, frame), full \o Encoded(frame),
                  [k \in 0 .. Len(s) + 1 |->
                        IF k <= Len(s) THEN ends[k] ELSE Len(full) + Len(Encoded(frame))])
<1> DEFINE new   == Encoded(frame)
           size  == Len(new)
           last  == Len(s) + 1
           s2    == Append(s, frame)
           full2 == full \o new
           ends2 == [k \in 0 .. last |-> IF k <= Len(s) THEN ends[k] ELSE Len(full) + size]
<1>1. /\ new \in Seq(Cells) /\ size \in Nat /\ size >= 3
      /\ \A i \in 1 .. size : new[i][1] = "crc" => i = size
    <2>1. Len(frame.payload) \in Nat
        BY CoveredCells
    <2> QED
        BY <2>1, EncodedCells
<1>2. /\ full \in Seq(Cells) /\ Len(full) \in Nat /\ Len(s) \in Nat
      /\ ends \in [0 .. Len(s) -> Nat] /\ ends[0] = 0 /\ ends[Len(s)] = Len(full)
    BY LenProperties DEF Logged
<1>3. /\ \A k \in 1 .. Len(s) :
            /\ ends[k] = ends[k - 1] + Len(Encoded(s[k]))
            /\ \A i \in 1 .. Len(Encoded(s[k])) : full[ends[k - 1] + i] = Encoded(s[k])[i]
      /\ \A j, k \in 0 .. Len(s) : j < k => ends[j] < ends[k]
      /\ \A p \in 1 .. Len(full) :
            full[p][1] = "crc" => \E j \in 1 .. Len(s) : p = ends[j]
    BY DEF Logged
<1>4. /\ Len(s2) = last /\ s2[last] = frame
      /\ \A k \in 1 .. Len(s) : s2[k] = s[k]
    BY AppendProperties
<1> HIDE DEF new, s2
<1>5. /\ full2 \in Seq(Cells) /\ Len(full2) = Len(full) + size
      /\ \A i \in 1 .. Len(full) + size :
            full2[i] = IF i <= Len(full) THEN full[i] ELSE new[i - Len(full)]
    BY <1>1, <1>2, ConcatProperties
<1>6. /\ ends2 \in [0 .. last -> Nat] /\ ends2[last] = Len(full) + size
      /\ \A k \in 0 .. Len(s) : ends2[k] = ends[k]
    BY <1>1, <1>2
<1>7. \A k \in 0 .. Len(s) : ends[k] \in Nat /\ ends[k] <= Len(full)
    <2>1. ASSUME NEW k \in 0 .. Len(s) PROVE ends[k] \in Nat /\ ends[k] <= Len(full)
        <3>1. k = Len(s) \/ k < Len(s)
            BY <1>2
        <3> QED
            BY <1>2, <1>3, <3>1, SMTT(60)
    <2> QED
        BY <2>1
<1> HIDE DEF full2, ends2, size
<1>8. ASSUME NEW k \in 1 .. last
      PROVE  /\ ends2[k] = ends2[k - 1] + Len(Encoded(s2[k]))
             /\ \A i \in 1 .. Len(Encoded(s2[k])) : full2[ends2[k - 1] + i] = Encoded(s2[k])[i]
    <2>1. CASE k <= Len(s)
        <3>1. /\ k \in 1 .. Len(s) /\ k \in 0 .. Len(s) /\ k - 1 \in 0 .. Len(s)
            BY <1>2, <2>1
        <3>2. /\ s2[k] = s[k] /\ ends2[k] = ends[k] /\ ends2[k - 1] = ends[k - 1]
            BY <1>4, <1>6, <3>1
        <3>3. ASSUME NEW i \in 1 .. Len(Encoded(s[k]))
              PROVE  full2[ends[k - 1] + i] = Encoded(s[k])[i]
            <4>1. Len(Encoded(s[k])) \in Nat
                BY <3>1, ElementOfSeq, EncodedCells, LenProperties
            <4>2. ends[k - 1] + i <= ends[k] /\ ends[k - 1] \in Nat
                BY <1>3, <1>7, <3>1, <4>1
            <4>3. ends[k - 1] + i \in 1 .. Len(full) /\ ends[k - 1] + i <= Len(full)
                  /\ ends[k - 1] + i \in 1 .. Len(full) + size
                BY <1>1, <1>2, <1>7, <3>1, <4>1, <4>2, SMTT(60) DEF size
            <4>4. full2[ends[k - 1] + i] = full[ends[k - 1] + i]
                BY <1>5, <4>3, SMTT(60)
            <4> QED
                BY <1>3, <3>1, <4>4
        <3> QED
            BY <1>3, <3>1, <3>2, <3>3
    <2>2. CASE ~ (k <= Len(s))
        <3>1. k = last /\ k - 1 = Len(s) /\ k - 1 \in 0 .. Len(s)
            BY <1>2, <2>2
        <3>2. ends2[k - 1] = Len(full) /\ ends2[k] = Len(full) + size
            BY <1>2, <1>6, <3>1
        <3>3. Encoded(s2[k]) = new
            BY <1>4, <3>1 DEF new
        <3>4. ASSUME NEW i \in 1 .. size PROVE full2[Len(full) + i] = new[i]
            <4>1. /\ Len(full) + i \in 1 .. Len(full) + size
                  /\ ~ (Len(full) + i <= Len(full)) /\ (Len(full) + i) - Len(full) = i
                BY <1>1, <1>2 DEF size
            <4> QED
                BY <1>5, <4>1
        <3> QED
            BY <3>2, <3>3, <3>4 DEF size
    <2> QED
        BY <2>1, <2>2
<1>9. ASSUME NEW j \in 0 .. last, NEW k \in 0 .. last, j < k PROVE ends2[j] < ends2[k]
    <2>1. j \in 0 .. Len(s) /\ ends2[j] = ends[j]
        BY <1>2, <1>6, <1>9
    <2>2. CASE k <= Len(s)
        <3>1. k \in 0 .. Len(s)
            BY <1>2, <2>2
        <3> QED
            BY <1>3, <1>6, <1>9, <2>1, <3>1
    <2>3. CASE ~ (k <= Len(s))
        <3>1. k = last
            BY <1>2, <2>3
        <3> QED
            BY <1>1, <1>2, <1>6, <1>7, <2>1, <3>1 DEF size
    <2> QED
        BY <2>2, <2>3
<1>10. ASSUME NEW p \in 1 .. Len(full) + size, full2[p][1] = "crc"
       PROVE  \E j \in 1 .. last : p = ends2[j]
    <2>1. CASE p <= Len(full)
        <3>1. p \in 1 .. Len(full) /\ full[p][1] = "crc"
            BY <1>2, <1>5, <1>10, <2>1
        <3>2. PICK j \in 1 .. Len(s) : p = ends[j]
            BY <1>3, <3>1
        <3>3. j \in 0 .. Len(s) /\ j \in 1 .. last
            BY <1>2, <3>2
        <3> QED
            BY <1>6, <3>2, <3>3
    <2>2. CASE ~ (p <= Len(full))
        <3>1. p - Len(full) \in 1 .. size /\ new[p - Len(full)][1] = "crc"
            BY <1>1, <1>2, <1>5, <1>10, <2>2 DEF size
        <3>2. p - Len(full) = size
            BY <1>1, <3>1 DEF size
        <3>3. p = Len(full) + size /\ last \in 1 .. last
            BY <1>1, <1>2, <3>2 DEF size
        <3> QED
            BY <1>6, <3>3
    <2> QED
        BY <2>1, <2>2
<1>11. ends2[0] = 0
    BY <1>2, <1>6
<1> HIDE DEF last
<1>12. Logged(s2, full2, ends2)
    BY <1>4, <1>5, <1>6, <1>8, <1>9, <1>10, <1>11 DEF Logged
<1> QED
    BY <1>12 DEF s2, full2, ends2, new, last, size

\* The frames of the log are told apart by where they end.
LEMMA LogOrder ==
    ASSUME NEW s \in Seq(Frames), NEW full, NEW ends, Logged(s, full, ends)
    PROVE  /\ \A k \in 0 .. Len(s) : ends[k] \in 0 .. Len(full)
           /\ \A j, k \in 0 .. Len(s) : ends[j] <= ends[k] => j <= k
<1>1. /\ Len(s) \in Nat /\ full \in Seq(Cells) /\ Len(full) \in Nat
      /\ ends \in [0 .. Len(s) -> Nat] /\ ends[Len(s)] = Len(full)
      /\ \A j, k \in 0 .. Len(s) : j < k => ends[j] < ends[k]
    BY LenProperties DEF Logged
<1>2. ASSUME NEW k \in 0 .. Len(s) PROVE ends[k] \in 0 .. Len(full)
    <2>1. k = Len(s) \/ k < Len(s)
        BY <1>1
    <2> QED
        BY <1>1, <2>1
<1>3. ASSUME NEW j \in 0 .. Len(s), NEW k \in 0 .. Len(s), ends[j] <= ends[k]
      PROVE  j <= k
    <2>1. ~ (k < j)
        BY <1>1, <1>3, SMTT(60)
    <2> QED
        BY <1>1, <2>1
<1> QED
    BY <1>2, <1>3

\* The stream on its way is what the log holds behind its first q cells, but for
\* damage; damage makes no checksum cell.
StreamFrom(stream, full, q, intact) ==
    /\ stream \in Seq(Cells)
    /\ q \in Nat /\ q + Len(stream) = Len(full)
    /\ \A i \in 1 .. Len(stream) :
            intact \/ stream[i][1] = "crc" => stream[i] = full[q + i]

LEMMA StreamAppended ==
    ASSUME NEW stream, NEW full \in Seq(Cells), NEW q, NEW intact,
           StreamFrom(stream, full, q, intact), NEW new \in Seq(Cells)
    PROVE  StreamFrom(stream \o new, full \o new, q, intact)
<1> DEFINE stream2 == stream \o new
           full2   == full \o new
<1>0. /\ q \in Nat /\ Len(stream) \in Nat /\ Len(full) = q + Len(stream)
    BY LenProperties DEF StreamFrom
<1>1. /\ stream \in Seq(Cells) /\ q \in Nat /\ q + Len(stream) = Len(full)
      /\ Len(stream) \in Nat /\ Len(full) \in Nat /\ Len(new) \in Nat
      /\ \A i \in 1 .. Len(stream) :
            intact \/ stream[i][1] = "crc" => stream[i] = full[q + i]
    BY LenProperties DEF StreamFrom
<1>2. /\ stream2 \in Seq(Cells) /\ Len(stream2) = Len(stream) + Len(new)
      /\ \A i \in 1 .. Len(stream) + Len(new) :
            stream2[i] = IF i <= Len(stream) THEN stream[i] ELSE new[i - Len(stream)]
    BY <1>1, ConcatProperties
<1>3. /\ full2 \in Seq(Cells) /\ Len(full2) = Len(full) + Len(new)
      /\ \A i \in 1 .. Len(full) + Len(new) :
            full2[i] = IF i <= Len(full) THEN full[i] ELSE new[i - Len(full)]
    BY ConcatProperties
<1> HIDE DEF stream2, full2
<1>4. ASSUME NEW i \in 1 .. Len(stream) + Len(new), intact \/ stream2[i][1] = "crc"
      PROVE  stream2[i] = full2[q + i]
    <2>1. q + i \in 1 .. Len(full) + Len(new)
        BY <1>1
    <2>2. CASE i <= Len(stream)
        <3>1. i \in 1 .. Len(stream) /\ q + i <= Len(full)
            BY <1>1, <2>2
        <3>2. stream2[i] = stream[i] /\ full2[q + i] = full[q + i]
            BY <1>2, <1>3, <2>1, <2>2, <3>1
        <3> QED
            BY <1>1, <1>4, <3>1, <3>2
    <2>3. CASE ~ (i <= Len(stream))
        <3>1. ~ (q + i <= Len(full)) /\ (q + i) - Len(full) = i - Len(stream)
            BY <1>0, <2>3
        <3> QED
            BY <1>2, <1>3, <2>1, <2>3, <3>1
    <2> QED
        BY <2>2, <2>3
<1>5. q + Len(stream2) = Len(full2)
    <2>1. Len(new) \in Nat
        BY LenProperties
    <2>2. Len(stream2) = Len(stream) + Len(new) /\ Len(full2) = Len(full) + Len(new)
        BY <1>2, <1>3
    <2> QED
        BY <1>0, <2>1, <2>2
<1> QED
    BY <1>1, <1>2, <1>4, <1>5 DEF StreamFrom, stream2, full2

LEMMA StreamConsumed ==
    ASSUME NEW stream, NEW full \in Seq(Cells), NEW q, NEW intact,
           StreamFrom(stream, full, q, intact), NEW n \in 0 .. Len(stream)
    PROVE  StreamFrom(SubSeq(stream, n + 1, Len(stream)), full, q + n, intact)
<1> DEFINE rest == SubSeq(stream, n + 1, Len(stream))
<1>0. /\ q \in Nat /\ Len(stream) \in Nat /\ Len(full) = q + Len(stream)
    BY LenProperties DEF StreamFrom
<1>1. /\ stream \in Seq(Cells) /\ q \in Nat /\ q + Len(stream) = Len(full)
      /\ Len(stream) \in Nat /\ Len(full) \in Nat
      /\ \A i \in 1 .. Len(stream) :
            intact \/ stream[i][1] = "crc" => stream[i] = full[q + i]
    BY LenProperties DEF StreamFrom
<1>2. /\ rest \in Seq(Cells) /\ Len(rest) = Len(stream) - n
      /\ \A i \in 1 .. Len(stream) - n : rest[i] = stream[n + i]
    BY <1>1, Suffix
<1> HIDE DEF rest
<1>3. ASSUME NEW i \in 1 .. Len(rest), intact \/ rest[i][1] = "crc"
      PROVE  rest[i] = full[q + n + i]
    <2>1. n + i \in 1 .. Len(stream) /\ q + (n + i) = q + n + i /\ rest[i] = stream[n + i]
        BY <1>1, <1>2
    <2> QED
        BY <1>1, <1>3, <2>1, SMTT(60)
<1>4. q + n \in Nat /\ q + n + Len(rest) = Len(full)
    <2>1. Len(rest) = Len(stream) - n
        BY <1>2
    <2> QED
        BY <1>0, <2>1
<1> QED
    BY <1>2, <1>3, <1>4 DEF StreamFrom, rest

\* A checksum cell of the stream that covers as many cells as lie before it
\* is that of the frame the stream begins with.
LEMMA FrameFound ==
    ASSUME NEW s \in Seq(Frames), NEW full, NEW ends, Logged(s, full, ends),
           NEW stream, NEW q, NEW intact, StreamFrom(stream, full, q, intact),
           NEW n \in 1 .. Len(stream), NEW content, stream[n] = Covers(content),
           Len(content) = n - 1
    PROVE  \E j \in 1 .. Len(s) :
              ends[j - 1] = q /\ ends[j] = q + n /\ content = Covered(s[j])
<1>1. /\ stream \in Seq(Cells) /\ q \in Nat /\ q + Len(stream) = Len(full)
      /\ Len(stream) \in Nat /\ Len(s) \in Nat
      /\ stream[n][1] = "crc" => stream[n] = full[q + n]
    BY LenProperties DEF StreamFrom
<1>2. full[q + n] = Covers(content) /\ full[q + n][1] = "crc"
    BY <1>1, CellKinds
<1>3. q + n \in 1 .. Len(full)
    BY <1>1
<1>4. PICK j \in 1 .. Len(s) : q + n = ends[j]
    BY <1>2, <1>3 DEF Logged
<1> DEFINE frame == s[j]
           len   == Len(frame.payload)
<1>5. frame \in Frames
    BY ElementOfSeq
<1> HIDE DEF frame
<1>6. /\ len \in Nat /\ Len(Encoded(frame)) = len + 3 /\ Len(Covered(frame)) = len + 2
      /\ Encoded(frame)[len + 3] = Covers(Covered(frame))
    <2>1. len \in 0 .. MaxPayload /\ Len(Covered(frame)) = len + 2
        BY ONLY <1>5, CoveredCells
    <2>2. Len(Encoded(frame)) = len + 3 /\ Encoded(frame)[len + 3] = Covers(Covered(frame))
        BY ONLY <1>5, EncodedCells
    <2> QED
        BY ONLY <2>1, <2>2
<1>7. /\ ends[j] = ends[j - 1] + (len + 3) /\ ends[j - 1] \in Nat
      /\ full[ends[j - 1] + (len + 3)] = Encoded(frame)[len + 3]
    <2>1. /\ ends[j] = ends[j - 1] + Len(Encoded(frame))
          /\ \A i \in 1 .. Len(Encoded(frame)) : full[ends[j - 1] + i] = Encoded(frame)[i]
          /\ ends \in [0 .. Len(s) -> Nat]
        BY <1>4 DEF Logged, frame
    <2>2. len + 3 \in 1 .. Len(Encoded(frame)) /\ j - 1 \in 0 .. Len(s)
        BY <1>1, <1>6, SMTT(60)
    <2> QED
        BY <1>6, <2>1, <2>2
<1>8. Covers(content) = Covers(Covered(frame))
    BY <1>2, <1>4, <1>6, <1>7
<1>9. content = Covered(frame)
    BY <1>8, CellKinds
<1>10. n = len + 3 /\ ends[j - 1] = q
    <2>1. Len(content) = len + 2
        BY ONLY <1>6, <1>9
    <2>2. n = len + 3
        BY ONLY <1>6, <2>1, Len(content) = n - 1, n \in 1 .. Len(stream)
    <2>3. q \in Nat /\ ends[j - 1] \in Nat /\ q + n = ends[j - 1] + (len + 3)
        BY ONLY <1>1, <1>4, <1>7
    <2> QED
        BY ONLY <1>6, <2>2, <2>3, SMTT(60)
<1> QED
    BY <1>4, <1>9, <1>10 DEF frame

\* What next_frame() makes of cells that begin with a frame is that frame.
LEMMA FrameDecoded ==
    ASSUME NEW cells \in Seq(Cells), NEW n \in 1 .. Len(cells), NEW frame \in Frames,
           SubSeq(cells, 1, n - 1) = Covered(frame)
    PROVE  Frame(cells[2][2], cells[2][3], SubSeq(cells, 3, n - 1)) = frame
<1> DEFINE len     == Len(frame.payload)
           content == SubSeq(cells, 1, n - 1)
           payload == SubSeq(cells, 3, n - 1)
<1>1. /\ len \in Nat /\ Len(Covered(frame)) = len + 2
      /\ Covered(frame)[2] = FrameHead(frame.seq, frame.eos, len)
      /\ \A i \in 1 .. len : Covered(frame)[i + 2] = frame.payload[i]
      /\ frame.payload \in Seq(DataCells)
    BY CoveredCells DEF Frames, Payloads
<1>2. /\ Len(cells) \in Nat /\ n - 1 \in 0 .. Len(cells)
      /\ Len(content) = n - 1 /\ \A i \in 1 .. n - 1 : content[i] = cells[i]
    <2>1. Len(cells) \in Nat /\ n - 1 \in 0 .. Len(cells)
        BY LenProperties
    <2> QED
        BY <2>1, Prefix
<1>3. n = len + 3
    BY <1>1, <1>2
<1>4. cells[2] = FrameHead(frame.seq, frame.eos, len)
    BY <1>1, <1>2, <1>3
<1>5. payload = frame.payload
    <2>1. ASSUME NEW i \in 1 .. len
          PROVE  cells[i + 2] = frame.payload[i] /\ frame.payload[i] \in DataCells
        <3>1. i + 2 \in 1 .. n - 1
            BY <1>1, <1>3
        <3>2. cells[i + 2] = frame.payload[i]
            BY <1>1, <1>2, <3>1
        <3> QED
            BY <1>1, <3>2, ElementOfSeq
    <2>2. \A i \in 3 .. n - 1 : cells[i] \in DataCells
        <3>1. ASSUME NEW i \in 3 .. n - 1 PROVE cells[i] \in DataCells
            <4>1. i - 2 \in 1 .. len /\ (i - 2) + 2 = i
                BY <1>1, <1>3
            <4> QED
                BY <2>1, <4>1
        <3> QED
            BY <3>1
    <2>3. /\ payload \in Seq(DataCells)
          /\ Len(payload) = IF 3 <= n - 1 THEN (n - 1) - 3 + 1 ELSE 0
          /\ \A i \in 1 .. (n - 1) - 3 + 1 : payload[i] = cells[3 + i - 1]
        BY <1>2, <2>2, SubSeqProperties
    <2> HIDE DEF payload
    <2>4. Len(payload) = len
        BY <1>1, <1>3, <2>3
    <2>5. ASSUME NEW i \in 1 .. len PROVE payload[i] = frame.payload[i]
        <3>1. i \in 1 .. (n - 1) - 3 + 1 /\ 3 + i - 1 = i + 2
            BY <1>1, <1>3
        <3> QED
            BY <2>1, <2>3, <3>1
    <2> QED
        BY <1>1, <2>3, <2>4, <2>5, SeqEqual
<1> HIDE DEF payload
<1>6. cells[2][2] = frame.seq /\ cells[2][3] = frame.eos
    BY <1>4 DEF FrameHead
<1>7. Frame(frame.seq, frame.eos, frame.payload) = frame
    BY DEF Frame, Frames
<1> QED
    BY <1>5, <1>6, <1>7 DEF payload

-----------------------------------------------------------------------------
(* The protocol and its log *)

\* The frames returned are those of the log at the positions `at', all of them
\* before cell q; without a restart they are the first ones, and q is where the
\* last of them ends.
Returned(rs, s, at, ends, q, restarted) ==
    /\ rs \in Seq(Frames)
    /\ at \in [1 .. Len(rs) -> 1 .. Len(s)]
    /\ \A i \in 1 .. Len(rs) : rs[i] = s[at[i]] /\ ends[at[i]] <= q
    /\ \A i, j \in 1 .. Len(rs) : i < j => at[i] < at[j]
    /\ ~ restarted =>
        Len(rs) <= Len(s) /\ q = ends[Len(rs)] /\ \A i \in 1 .. Len(rs) : at[i] = i

LogOf(full, ends, q, at) ==
    /\ Logged(sent, full, ends)
    /\ StreamFrom(Stream, full, q, faults = 0)
    /\ Returned(received, sent, at, ends, q, resets > 0)

\* The decoder stands where the frames it returned end, or further on after a
\* reset; behind it the stream is the log, but for the damage.
InStep == \E full, ends, q, at : LogOf(full, ends, q, at)

LEMMA LogStart == Init => InStep
<1> SUFFICES ASSUME Init PROVE InStep
    OBVIOUS
<1>1. Len(<< >>) = 0 /\ << >> \in Seq(Cells) /\ << >> \in Seq(Frames)
    BY EmptySeq
<1>2. Stream = << >>
    <2>1. Pending \in Seq(Cells) /\ Len(Pending) = 0
        BY <1>1, TypedInit, PendingCells DEF Init, pending_bytes
    <2>2. Pending = << >>
        BY <2>1, EmptySeq
    <2> QED
        BY <1>1, <2>2, ConcatEmptySeq DEF Init, Stream
<1> DEFINE ends == [k \in 0 .. 0 |-> 0]
           at   == [i \in 1 .. 0 |-> 0]
<1>3. Logged(sent, << >>, ends)
    BY LogEmpty DEF Init
<1>4. StreamFrom(Stream, << >>, 0, faults = 0)
    BY <1>1, <1>2 DEF StreamFrom
<1>5. Returned(received, sent, at, ends, 0, resets > 0)
    <2>1. 1 .. 0 = {} /\ at \in [1 .. 0 -> 1 .. 0] /\ ends[0] = 0
        OBVIOUS
    <2> HIDE DEF at, ends
    <2> QED
        BY <1>1, <2>1 DEF Init, Returned
<1> HIDE DEF at, ends
<1> QED
    BY <1>3, <1>4, <1>5 DEF InStep, LogOf

LEMMA StreamCells ==
    Typed => Stream \in Seq(Cells) /\ Len(Stream) = Len(Pending) + Len(net) + Len(tx)
<1> SUFFICES ASSUME Typed
             PROVE  Stream \in Seq(Cells) /\ Len(Stream) = Len(Pending) + Len(net) + Len(tx)
    OBVIOUS
<1>1. Pending \in Seq(Cells) /\ net \in Seq(Cells) /\ tx \in Seq(Cells)
    BY PendingCells DEF Typed
<1>2. Pending \o net \in Seq(Cells) /\ Len(Pending \o net) = Len(Pending) + Len(net)
    BY <1>1, ConcatProperties
<1> QED
    BY <1>1, <1>2, ConcatProperties DEF Stream

\* What the decoder holds is the front of the stream.
LEMMA PendingIsFront ==
    ASSUME Typed
    PROVE  Len(Pending) <= Len(Stream) /\ \A i \in 1 .. Len(Pending) : Stream[i] = Pending[i]
<1>1. /\ Pending \in Seq(Cells) /\ net \in Seq(Cells) /\ tx \in Seq(Cells)
      /\ Len(Pending) \in Nat /\ Len(net) \in Nat /\ Len(tx) \in Nat
    BY PendingCells, LenProperties DEF Typed
<1> DEFINE front == Pending \o net
<1>2. /\ front \in Seq(Cells) /\ Len(front) = Len(Pending) + Len(net)
      /\ \A i \in 1 .. Len(Pending) + Len(net) :
            front[i] = IF i <= Len(Pending) THEN Pending[i] ELSE net[i - Len(Pending)]
    BY <1>1, ConcatProperties
<1> HIDE DEF front
<1>3. /\ Len(front \o tx) = Len(front) + Len(tx)
      /\ \A i \in 1 .. Len(front) + Len(tx) :
            (front \o tx)[i] = IF i <= Len(front) THEN front[i] ELSE tx[i - Len(front)]
    <2>1. front \in Seq(Cells) /\ tx \in Seq(Cells)
        BY <1>1, <1>2
    <2> QED
        BY <2>1, ConcatProperties
<1>4. Stream = front \o tx
    BY DEF Stream, front
<1>5. ASSUME NEW i \in 1 .. Len(Pending) PROVE Stream[i] = Pending[i]
    <2>1. /\ i \in 1 .. Len(Pending) + Len(net) /\ i \in 1 .. Len(front) + Len(tx)
          /\ i <= Len(front)
        BY <1>1, <1>2
    <2> QED
        BY <1>2, <1>3, <1>4, <2>1, SMTT(60)
<1> QED
    BY <1>1, <1>2, <1>3, <1>4, <1>5

LEMMA EncodeInStep ==
    ASSUME Typed, InStep, NEW len \in 0 .. MaxPayload, NEW eos \in BOOLEAN,
           EncodeFrame(len, eos)
    PROVE  InStep'
<1>1. PICK full, ends, q, at : LogOf(full, ends, q, at)
    BY DEF InStep
<1>2. PICK frame \in Frames :
          /\ tx' = tx \o Encoded(frame) /\ sent' = Append(sent, frame)
          /\ Len(sent) < MaxFrames /\ next_seq' \in Nat
          /\ UNCHANGED << net, buf, pos, code, received, faults, resets >>
    BY FrameWritten
<1> DEFINE new   == Encoded(frame)
           full2 == full \o new
           ends2 == [k \in 0 .. Len(sent) + 1 |->
                        IF k <= Len(sent) THEN ends[k] ELSE Len(full) + Len(new)]
<1>3. new \in Seq(Cells) /\ sent \in Seq(Frames) /\ Len(sent) \in Nat
    BY EncodedCells, LenProperties DEF Typed
<1>4. Logged(sent', full2, ends2)
    BY <1>1, <1>2, <1>3, LogAppended DEF LogOf
<1>5. StreamFrom(Stream', full2, q, (faults = 0)')
    <2>1. Stream' = Stream \o new
        <3>1. Pending' = Pending
            BY <1>2 DEF Pending
        <3> DEFINE front == Pending \o net
        <3>2. front \in Seq(Cells) /\ tx \in Seq(Cells)
            BY PendingCells, ConcatProperties DEF Typed
        <3>3. Stream = front \o tx /\ Stream' = front \o (tx \o new)
            BY <1>2, <3>1 DEF Stream
        <3> HIDE DEF front, new
        <3>4. front \o (tx \o new) = (front \o tx) \o new
            BY ONLY <1>3, <3>2, CellsAssociate, ZenonT(60)
        <3> QED
            BY <3>3, <3>4
    <2>2. full \in Seq(Cells) /\ StreamFrom(Stream, full, q, faults = 0)
        BY <1>1 DEF LogOf, Logged
    <2> HIDE DEF new
    <2>3. StreamFrom(Stream \o new, full \o new, q, faults = 0)
        BY <1>3, <2>2, StreamAppended
    <2> QED
        BY <1>2, <2>1, <2>3
<1>6. Returned(received', sent', at, ends2, q, (resets > 0)')
    <2>1. Returned(received, sent, at, ends, q, resets > 0)
        BY <1>1 DEF LogOf
    <2>2. \A k \in 0 .. Len(sent) : ends2[k] = ends[k]
        BY <1>3
    <2> HIDE DEF ends2
    <2>3. /\ Len(sent') = Len(sent) + 1
          /\ \A k \in 1 .. Len(sent) : sent'[k] = sent[k]
        BY <1>2, <1>3, AppendProperties
    <2>4. Len(received) \in Nat
        BY <2>1, LenProperties DEF Returned
    <2>5. at \in [1 .. Len(received) -> 1 .. Len(sent')]
        BY <1>3, <2>1, <2>3 DEF Returned
    <2>6. ASSUME NEW i \in 1 .. Len(received)
          PROVE  received[i] = sent'[at[i]] /\ ends2[at[i]] <= q
        <3>1. at[i] \in 1 .. Len(sent) /\ at[i] \in 0 .. Len(sent)
            BY <2>1 DEF Returned
        <3> QED
            BY <2>1, <2>2, <2>3, <3>1 DEF Returned
    <2>7. Len(received) <= Len(sent) => ends2[Len(received)] = ends[Len(received)]
        BY <1>3, <2>2, <2>4
    <2>8. Len(received) <= Len(sent) => Len(received) <= Len(sent')
        BY <1>3, <2>3, <2>4
    <2> QED
        BY <1>2, <2>1, <2>5, <2>6, <2>7, <2>8 DEF Returned
<1> HIDE DEF full2, ends2
<1> QED
    BY <1>4, <1>5, <1>6 DEF InStep, LogOf

\* Cells only change places: they are drained, fed, or nothing happens.
LEMMA SameStream ==
    ASSUME InStep, Stream' = Stream, UNCHANGED << sent, received, faults, resets >>
    PROVE  InStep'
<1>1. PICK full, ends, q, at : LogOf(full, ends, q, at)
    BY DEF InStep
<1>2. /\ Logged(sent', full, ends)
      /\ StreamFrom(Stream', full, q, (faults = 0)')
      /\ Returned(received', sent', at, ends, q, (resets > 0)')
    BY <1>1 DEF LogOf
<1> QED
    BY <1>2 DEF InStep, LogOf

LEMMA TakeKeepsStream ==
    ASSUME Typed, Take
    PROVE  Stream' = Stream
<1>1. Pending' = Pending /\ net' = net \o tx /\ tx' = << >>
    BY DEF Take, Pending
<1>2. Pending \in Seq(Cells) /\ net \in Seq(Cells) /\ tx \in Seq(Cells)
    BY PendingCells DEF Typed
<1>3. Stream' = (Pending \o (net \o tx)) \o << >>
    BY <1>1 DEF Stream
<1> DEFINE all == Pending \o (net \o tx)
<1>4. all \in Seq(Cells) /\ all = (Pending \o net) \o tx
    BY <1>2, ConcatProperties, CellsAssociate, ZenonT(60)
<1>5. all \o << >> = all
    <2> HIDE DEF all
    <2> QED
        BY <1>4, ConcatEmptySeq
<1> QED
    BY <1>3, <1>4, <1>5 DEF Stream

LEMMA FeedKeepsStream ==
    ASSUME Typed, NEW n \in DOMAIN net, feed(n)
    PROVE  Stream' = Stream
<1> DEFINE chunk == SubSeq(net, 1, n)
<1>1. /\ chunk \in Seq(Cells) /\ net' \in Seq(Cells) /\ net = chunk \o net'
      /\ Pending' = Pending \o chunk /\ tx' = tx
    BY FedCells
<1>2. Pending \in Seq(Cells)
    BY PendingCells
<1> HIDE DEF chunk
<1>3. (Pending \o chunk) \o net' = Pending \o (chunk \o net')
    BY ONLY <1>1, <1>2, CellsAssociate
<1> QED
    BY <1>1, <1>3 DEF Stream

LEMMA FrontRemoved ==
    ASSUME NEW a \in Seq(Cells), NEW b \in Seq(Cells), NEW n \in 0 .. Len(a)
    PROVE  SubSeq(a \o b, n + 1, Len(a \o b)) = SubSeq(a, n + 1, Len(a)) \o b
<1> DEFINE whole == a \o b
           left  == SubSeq(whole, n + 1, Len(whole))
           tail  == SubSeq(a, n + 1, Len(a))
           right == tail \o b
<1>1. Len(a) \in Nat /\ Len(b) \in Nat
    BY LenProperties
<1>2. /\ whole \in Seq(Cells) /\ Len(whole) = Len(a) + Len(b)
      /\ \A i \in 1 .. Len(a) + Len(b) :
            whole[i] = IF i <= Len(a) THEN a[i] ELSE b[i - Len(a)]
    BY ConcatProperties
<1>3. /\ tail \in Seq(Cells) /\ Len(tail) = Len(a) - n
      /\ \A i \in 1 .. Len(a) - n : tail[i] = a[n + i]
    BY Suffix, SMTT(60)
<1> HIDE DEF whole, tail
<1>4. /\ right \in Seq(Cells) /\ Len(right) = Len(tail) + Len(b)
      /\ \A i \in 1 .. Len(tail) + Len(b) :
            right[i] = IF i <= Len(tail) THEN tail[i] ELSE b[i - Len(tail)]
    <2>1. tail \in Seq(Cells)
        BY <1>3
    <2> QED
        BY <2>1, ConcatProperties
<1>5. /\ left \in Seq(Cells) /\ Len(left) = Len(whole) - n
      /\ \A i \in 1 .. Len(whole) - n : left[i] = whole[n + i]
    <2>1. whole \in Seq(Cells) /\ n \in 0 .. Len(whole)
        BY <1>1, <1>2
    <2> QED
        BY <2>1, Suffix
<1> HIDE DEF left, right
<1>6. Len(left) = Len(right)
    BY <1>1, <1>2, <1>3, <1>4, <1>5
<1>7. ASSUME NEW i \in 1 .. Len(left) PROVE left[i] = right[i]
    <2>1. /\ i \in 1 .. Len(whole) - n /\ n + i \in 1 .. Len(a) + Len(b)
          /\ i \in 1 .. Len(tail) + Len(b)
        BY <1>1, <1>2, <1>3, <1>5
    <2>2. left[i] = whole[n + i]
        BY <1>5, <2>1
    <2>3. CASE i <= Len(tail)
        <3>1. n + i <= Len(a) /\ i \in 1 .. Len(a) - n
            BY <1>1, <1>3, <2>3
        <3> QED
            BY <1>2, <1>3, <1>4, <2>1, <2>2, <2>3, <3>1, SMTT(60)
    <2>4. CASE ~ (i <= Len(tail))
        <3>1. ~ (n + i <= Len(a)) /\ (n + i) - Len(a) = i - Len(tail)
            BY <1>1, <1>3, <2>4
        <3> QED
            BY <1>2, <1>4, <2>1, <2>2, <2>4, <3>1
    <2> QED
        BY <2>3, <2>4
<1>8. left = right
    BY <1>4, <1>5, <1>6, <1>7, SeqEqual
<1> QED
    BY <1>8 DEF left, right, whole, tail

\* The decoder lets go of n cells, by consuming a frame or by starting over.
LEMMA StreamMoves ==
    ASSUME Typed, NEW n \in 0 .. Len(Pending),
           Pending' = SubSeq(Pending, n + 1, Len(Pending)), UNCHANGED << net, tx >>
    PROVE  Stream' = SubSeq(Stream, n + 1, Len(Stream))
<1> DEFINE after == net \o tx
           rest  == SubSeq(Pending, n + 1, Len(Pending))
<1>1. Pending \in Seq(Cells) /\ net \in Seq(Cells) /\ tx \in Seq(Cells)
    BY PendingCells DEF Typed
<1>2. after \in Seq(Cells) /\ rest \in Seq(Cells)
    BY <1>1, ConcatProperties, Suffix
<1>3. Stream = Pending \o after
    <2>1. (Pending \o net) \o tx = Pending \o (net \o tx)
        BY ONLY <1>1, CellsAssociate, ZenonT(60)
    <2> QED
        BY <2>1 DEF Stream
<1>4. Stream' = rest \o after
    <2>1. Stream' = (rest \o net) \o tx
        BY DEF Stream
    <2> HIDE DEF rest
    <2>2. rest \in Seq(Cells)
        BY <1>2
    <2>3. (rest \o net) \o tx = rest \o (net \o tx)
        BY ONLY <1>1, <2>2, CellsAssociate, ZenonT(60)
    <2> QED
        BY <2>1, <2>3
<1> HIDE DEF after
<1> QED
    BY <1>1, <1>2, <1>3, <1>4, FrontRemoved

LEMMA CorruptInStep ==
    ASSUME Typed, InStep, NEW i, Corrupt(i)
    PROVE  InStep'
<1>1. PICK full, ends, q, at : LogOf(full, ends, q, at)
    BY DEF InStep
<1>2. /\ net' \in Seq(Cells) /\ Len(net') = Len(net)
      /\ \A j \in 1 .. Len(net) : net'[j] = net[j] \/ net'[j][1] # "crc"
      /\ faults' = faults + 1 /\ faults \in Nat
      /\ UNCHANGED << tx, next_seq, buf, pos, code, sent, received, resets >>
    BY CorruptCell DEF Typed
<1>3. /\ Pending \in Seq(Cells) /\ net \in Seq(Cells) /\ tx \in Seq(Cells)
      /\ Len(Pending) \in Nat /\ Len(net) \in Nat /\ Len(tx) \in Nat
    BY PendingCells, LenProperties DEF Typed
<1>4. \A n2 \in Seq(Cells) :
          LET front == Pending \o n2
          IN  /\ front \in Seq(Cells) /\ Len(front) = Len(Pending) + Len(n2)
              /\ \A j \in 1 .. Len(Pending) + Len(n2) :
                    front[j] = IF j <= Len(Pending) THEN Pending[j] ELSE n2[j - Len(Pending)]
    BY <1>3, ConcatProperties
<1> DEFINE front  == Pending \o net
           front2 == Pending \o net'
           size   == Len(Pending) + Len(net)
<1>5. /\ front \in Seq(Cells) /\ front2 \in Seq(Cells)
      /\ Len(front) = size /\ Len(front2) = size
      /\ \A j \in 1 .. size : front2[j] = front[j] \/ front2[j][1] # "crc"
    <2>1. /\ front \in Seq(Cells) /\ Len(front) = size
          /\ \A j \in 1 .. size :
                front[j] = IF j <= Len(Pending) THEN Pending[j] ELSE net[j - Len(Pending)]
        BY <1>3, <1>4
    <2>2. /\ front2 \in Seq(Cells) /\ Len(front2) = size
          /\ \A j \in 1 .. size :
                front2[j] = IF j <= Len(Pending) THEN Pending[j] ELSE net'[j - Len(Pending)]
        BY <1>2, <1>4
    <2> HIDE DEF front, front2
    <2>3. ASSUME NEW j \in 1 .. size PROVE front2[j] = front[j] \/ front2[j][1] # "crc"
        <3>1. CASE j <= Len(Pending)
            BY <2>1, <2>2, <3>1
        <3>2. CASE ~ (j <= Len(Pending))
            <4>1. j - Len(Pending) \in 1 .. Len(net)
                BY <1>3, <3>2
            <4>2. front[j] = net[j - Len(Pending)] /\ front2[j] = net'[j - Len(Pending)]
                BY <2>1, <2>2, <3>2
            <4> QED
                BY <1>2, <4>1, <4>2
        <3> QED
            BY <3>1, <3>2
    <2> QED
        BY <2>1, <2>2, <2>3
<1>6. Stream = front \o tx /\ Stream' = front2 \o tx
    BY <1>2 DEF Stream, Pending
<1> HIDE DEF front, front2, size
<1>7. ASSUME NEW f \in Seq(Cells)
      PROVE  /\ f \o tx \in Seq(Cells) /\ Len(f \o tx) = Len(f) + Len(tx)
             /\ \A j \in 1 .. Len(f) + Len(tx) :
                    (f \o tx)[j] = IF j <= Len(f) THEN f[j] ELSE tx[j - Len(f)]
    BY <1>3, ConcatProperties
<1>8. /\ Stream' \in Seq(Cells) /\ Len(Stream') = Len(Stream)
      /\ \A j \in 1 .. Len(Stream) : Stream'[j] = Stream[j] \/ Stream'[j][1] # "crc"
    <2>1. /\ Len(Stream) = size + Len(tx)
          /\ \A j \in 1 .. size + Len(tx) :
                Stream[j] = IF j <= size THEN front[j] ELSE tx[j - size]
        BY <1>5, <1>6, <1>7
    <2>2. /\ Stream' \in Seq(Cells) /\ Len(Stream') = size + Len(tx)
          /\ \A j \in 1 .. size + Len(tx) :
                Stream'[j] = IF j <= size THEN front2[j] ELSE tx[j - size]
        BY <1>5, <1>6, <1>7
    <2>3. ASSUME NEW j \in 1 .. size + Len(tx)
          PROVE  Stream'[j] = Stream[j] \/ Stream'[j][1] # "crc"
        <3>1. CASE j <= size
            <4>1. j \in 1 .. size
                BY <1>3, <3>1 DEF size
            <4>2. Stream[j] = front[j] /\ Stream'[j] = front2[j]
                BY <2>1, <2>2, <3>1
            <4> QED
                BY <1>5, <4>1, <4>2
        <3>2. CASE ~ (j <= size)
            BY <2>1, <2>2, <3>2
        <3> QED
            BY <3>1, <3>2
    <2> QED
        BY <2>1, <2>2, <2>3
<1>9. StreamFrom(Stream', full, q, (faults = 0)')
    <2>1. StreamFrom(Stream, full, q, faults = 0)
        BY <1>1 DEF LogOf
    <2>2. ASSUME NEW j \in 1 .. Len(Stream), Stream'[j][1] = "crc"
          PROVE  Stream'[j] = full[q + j]
        <3>1. Stream'[j] = Stream[j]
            BY <1>8, <2>2
        <3> QED
            BY <2>1, <2>2, <3>1 DEF StreamFrom
    <2>3. ~ (faults = 0)'
        BY <1>2
    <2> QED
        BY <1>8, <2>1, <2>2, <2>3 DEF StreamFrom
<1> QED
    BY <1>1, <1>2, <1>9 DEF InStep, LogOf

LEMMA ResetInStep ==
    ASSUME Typed, InStep, reset
    PROVE  InStep'
<1>1. PICK full, ends, q, at : LogOf(full, ends, q, at)
    BY DEF InStep
<1>2. Pending \in Seq(Cells) /\ Len(Pending) \in Nat
    BY PendingCells, LenProperties
<1>3. Stream' = SubSeq(Stream, Len(Pending) + 1, Len(Stream))
    <2>1. Len(<< >>) = 0 /\ 1 \in Int /\ 0 \in Int
        BY EmptySeq
    <2>2. Pending' = << >>
        BY <2>1, SubSeqEmpty DEF reset, Pending
    <2>3. SubSeq(Pending, Len(Pending) + 1, Len(Pending)) = << >>
        BY <1>2, SubSeqEmpty
    <2>4. Len(Pending) \in 0 .. Len(Pending) /\ UNCHANGED << net, tx >>
        BY <1>2 DEF reset
    <2> QED
        BY <2>2, <2>3, <2>4, StreamMoves
<1>4. StreamFrom(Stream', full, q + Len(Pending), (faults = 0)')
    <2>1. full \in Seq(Cells) /\ StreamFrom(Stream, full, q, faults = 0)
        BY <1>1 DEF LogOf, Logged
    <2>2. Len(Pending) \in 0 .. Len(Stream)
        BY <1>2, PendingIsFront, StreamCells, LenProperties
    <2>3. StreamFrom(SubSeq(Stream, Len(Pending) + 1, Len(Stream)), full,
                     q + Len(Pending), faults = 0)
        BY <2>1, <2>2, StreamConsumed
    <2> QED
        BY <1>3, <2>3 DEF reset
<1>5. Returned(received', sent', at, ends, q + Len(Pending), (resets > 0)')
    <2>1. Returned(received, sent, at, ends, q, resets > 0)
          /\ Logged(sent, full, ends) /\ q \in Nat
        BY <1>1 DEF LogOf, StreamFrom
    <2>2. ASSUME NEW i \in 1 .. Len(received) PROVE ends[at[i]] <= q + Len(Pending)
        <3>1. at[i] \in 0 .. Len(sent) /\ ends[at[i]] <= q
            BY <2>1 DEF Returned
        <3>2. ends[at[i]] \in Nat
            BY <2>1, <3>1 DEF Logged
        <3> QED
            BY <1>2, <2>1, <3>1, <3>2
    <2>3. resets' > 0
        BY DEF reset, Typed
    <2>4. received' = received /\ sent' = sent
        BY DEF reset
    <2> QED
        BY <2>1, <2>2, <2>3, <2>4, SMTT(60) DEF Returned
<1> QED
    BY <1>1, <1>4, <1>5 DEF InStep, LogOf, reset

\* A frame that passes the checks is the one the cursor stands before: its
\* checksum is a cell of the log, and covers as many cells as were counted.
LEMMA FrameReturned ==
    ASSUME Typed, next_frame, Outcome(Pending) = "Ok",
           NEW full, NEW ends, NEW q, NEW at, LogOf(full, ends, q, at)
    PROVE  \E j \in 1 .. Len(sent) :
              /\ ends[j - 1] = q /\ ends[j] = q + total(Pending)
              /\ received' = Append(received, sent[j])
              /\ ~ (resets > 0) => j = Len(received) + 1
<1> DEFINE n == total(Pending)
           content == SubSeq(Pending, 1, n - 1)
<1>1. Pending \in Seq(Cells) /\ Len(Pending) \in Nat
    BY PendingCells, LenProperties
<1>2. n \in 3 .. Len(Pending) /\ Pending[n] = Covers(content)
    BY <1>1, OkClaims
<1>3. received' = Append(received,
                         Frame(Pending[2][2], Pending[2][3], SubSeq(Pending, 3, n - 1)))
    BY DEF next_frame
<1> HIDE DEF n
<1>4. Stream \in Seq(Cells) /\ Len(Stream) \in Nat
      /\ n \in 1 .. Len(Pending) /\ n \in 1 .. Len(Stream) /\ Stream[n] = Covers(content)
    BY <1>1, <1>2, StreamCells, PendingIsFront, LenProperties
<1>5. Len(content) = n - 1
    <2>1. n - 1 \in 0 .. Len(Pending)
        BY <1>1, <1>2
    <2> QED
        BY <1>1, <2>1, Prefix
<1>6. /\ Logged(sent, full, ends) /\ StreamFrom(Stream, full, q, faults = 0)
      /\ sent \in Seq(Frames)
    BY DEF LogOf, Typed
<1>7. PICK j \in 1 .. Len(sent) :
          ends[j - 1] = q /\ ends[j] = q + n /\ content = Covered(sent[j])
    <2> HIDE DEF content
    <2> QED
        BY <1>4, <1>5, <1>6, FrameFound
<1>8. sent[j] \in Frames
    BY <1>6, ElementOfSeq
<1>9. Frame(Pending[2][2], Pending[2][3], SubSeq(Pending, 3, n - 1)) = sent[j]
    BY <1>1, <1>4, <1>7, <1>8, FrameDecoded
<1>10. ASSUME ~ (resets > 0) PROVE j = Len(received) + 1
    <2>1. /\ received \in Seq(Frames) /\ Len(received) <= Len(sent)
          /\ q = ends[Len(received)]
        BY <1>10 DEF LogOf, Returned
    <2>2. /\ Len(received) \in 0 .. Len(sent) /\ j - 1 \in 0 .. Len(sent)
          /\ Len(full) \in Nat
        BY <1>6, <2>1, LenProperties DEF Logged
    <2>3. ends[j - 1] \in 0 .. Len(full) /\ ends[j - 1] = ends[Len(received)]
        BY <1>6, <1>7, <2>1, <2>2, LogOrder
    <2>4. ends[j - 1] <= ends[Len(received)] /\ ends[Len(received)] <= ends[j - 1]
        BY <2>2, <2>3
    <2>5. j - 1 <= Len(received) /\ Len(received) <= j - 1
        BY <1>6, <2>2, <2>4, LogOrder
    <2> QED
        BY <2>2, <2>5
<1> QED
    BY <1>3, <1>7, <1>9, <1>10 DEF n

LEMMA NextFrameInStep ==
    ASSUME Typed, InStep, next_frame
    PROVE  InStep'
<1>1. PICK full, ends, q, at : LogOf(full, ends, q, at)
    BY DEF InStep
<1> DEFINE moved == Consumed(Outcome(Pending))
<1>2. /\ moved \in 0 .. Len(Pending)
      /\ Pending' = SubSeq(Pending, moved + 1, Len(Pending))
      /\ UNCHANGED << tx, net, sent, faults, resets >>
    BY CursorMoves
<1>3. Stream' = SubSeq(Stream, moved + 1, Len(Stream))
    <2> HIDE DEF moved
    <2> QED
        BY <1>2, StreamMoves
<1>4. CASE Outcome(Pending) # "Ok"
    <2>1. moved = 0 /\ received' = received
        BY <1>4 DEF Consumed, next_frame
    <2>2. Stream' = Stream
        <3>1. Stream \in Seq(Cells)
            BY StreamCells
        <3>2. SubSeq(Stream, 1, Len(Stream)) = Stream
            BY <3>1, SubSeqFull
        <3> QED
            BY <1>3, <2>1, <3>2
    <2> QED
        BY <1>2, <2>1, <2>2, SameStream
<1>5. CASE Outcome(Pending) = "Ok"
    <2>1. moved = total(Pending)
        BY <1>5 DEF Consumed
    <2> HIDE DEF moved
    <2>2. PICK j \in 1 .. Len(sent) :
              /\ ends[j - 1] = q /\ ends[j] = q + moved
              /\ received' = Append(received, sent[j])
              /\ ~ (resets > 0) => j = Len(received) + 1
        BY <1>1, <1>5, <2>1, FrameReturned
    <2>3. /\ Logged(sent, full, ends) /\ StreamFrom(Stream, full, q, faults = 0)
          /\ Returned(received, sent, at, ends, q, resets > 0)
          /\ sent \in Seq(Frames) /\ full \in Seq(Cells)
        BY <1>1 DEF LogOf, Logged, Typed
    <2>4. StreamFrom(Stream', full, q + moved, (faults = 0)')
        <3>1. moved \in 0 .. Len(Stream)
            <4>1. Len(Pending) <= Len(Stream) /\ Len(Pending) \in Nat /\ Len(Stream) \in Nat
                BY PendingIsFront, PendingCells, StreamCells, LenProperties
            <4> QED
                BY <1>2, <4>1
        <3> QED
            BY <1>2, <1>3, <2>3, <3>1, StreamConsumed
    <2> DEFINE last == Len(received) + 1
               at2  == [i \in 1 .. last |-> IF i <= Len(received) THEN at[i] ELSE j]
    <2>5. Returned(received', sent', at2, ends, q + moved, (resets > 0)')
        <3>1. /\ received \in Seq(Frames) /\ sent[j] \in Frames /\ Len(received) \in Nat
              /\ Len(sent) \in Nat /\ j \in 0 .. Len(sent) /\ j - 1 \in 0 .. Len(sent)
            BY <2>2, <2>3, ElementOfSeq, LenProperties DEF Returned
        <3>2. /\ received' \in Seq(Frames) /\ Len(received') = last
              /\ received'[last] = sent[j]
              /\ \A i \in 1 .. Len(received) : received'[i] = received[i]
            BY <2>2, <3>1, AppendProperties
        <3>3. /\ at2 \in [1 .. last -> 1 .. Len(sent)] /\ at2[last] = j
              /\ \A i \in 1 .. Len(received) : at2[i] = at[i]
            BY <2>3, <3>1 DEF Returned
        <3> HIDE DEF at2
        <3>4. ASSUME NEW i \in 1 .. Len(received)
              PROVE  at[i] \in 1 .. Len(sent) /\ at[i] < j /\ ends[at[i]] <= q + moved
            <4>1. at[i] \in 1 .. Len(sent) /\ at[i] \in 0 .. Len(sent) /\ ends[at[i]] <= q
                BY <2>3 DEF Returned
            <4>2. at[i] <= j - 1
                BY <2>2, <2>3, <3>1, <4>1, LogOrder
            <4>3. ends[at[i]] \in Nat /\ q \in Nat /\ moved \in Nat
                BY <1>2, <2>3, <4>1, SMTT(60) DEF Logged, StreamFrom
            <4> QED
                BY <3>1, <4>1, <4>2, <4>3, SMTT(60)
        <3>5. ASSUME NEW i \in 1 .. last
              PROVE  received'[i] = sent[at2[i]] /\ ends[at2[i]] <= q + moved
            <4>1. CASE i \in 1 .. Len(received)
                BY <2>3, <3>2, <3>3, <3>4, <4>1 DEF Returned
            <4>2. CASE i \notin 1 .. Len(received)
                <5>1. i = last
                    BY <3>1, <4>2
                <5>2. q + moved \in Nat
                    BY <1>2, <2>3 DEF StreamFrom
                <5> QED
                    BY <2>2, <3>2, <3>3, <5>1, <5>2
            <4> QED
                BY <4>1, <4>2
        <3>6. ASSUME NEW i \in 1 .. last, NEW k \in 1 .. last, i < k PROVE at2[i] < at2[k]
            <4>1. i \in 1 .. Len(received)
                BY <3>1, <3>6
            <4>2. CASE k \in 1 .. Len(received)
                BY <2>3, <3>3, <3>6, <4>1, <4>2 DEF Returned
            <4>3. CASE k \notin 1 .. Len(received)
                <5>1. k = last
                    BY <3>1, <4>3
                <5> QED
                    BY <3>3, <3>4, <4>1, <5>1
            <4> QED
                BY <4>2, <4>3
        <3>7. ASSUME ~ (resets > 0)
              PROVE  last <= Len(sent) /\ q + moved = ends[last]
                        /\ \A i \in 1 .. last : at2[i] = i
            <4>1. \A i \in 1 .. Len(received) : at[i] = i
                BY <2>3, <3>7 DEF Returned
            <4>2. last = j
                BY <2>2, <3>7
            <4>3. ASSUME NEW i \in 1 .. last PROVE at2[i] = i
                <5>1. i = last \/ i \in 1 .. Len(received)
                    BY <3>1
                <5> QED
                    BY <3>3, <4>1, <4>2, <5>1
            <4> QED
                BY <2>2, <3>1, <4>2, <4>3
        <3> QED
            BY <1>2, <3>2, <3>3, <3>5, <3>6, <3>7 DEF Returned
    <2> HIDE DEF at2
    <2> QED
        BY <1>2, <2>3, <2>4, <2>5 DEF InStep, LogOf
<1> QED
    BY <1>4, <1>5

\* No step of either end, of the transport or of a fault breaks the log.
LEMMA InStepStep == Typed /\ InStep /\ [Next]_vars => InStep'
<1> SUFFICES ASSUME Typed, InStep, [Next]_vars PROVE InStep'
    OBVIOUS
<1>1. ASSUME NEW len \in 0 .. MaxPayload, NEW eos \in BOOLEAN, EncodeFrame(len, eos)
      PROVE  InStep'
    BY <1>1, EncodeInStep
<1>2. CASE Take
    BY <1>2, TakeKeepsStream, SameStream DEF Take
<1>3. ASSUME NEW i \in DOMAIN net, Corrupt(i) PROVE InStep'
    BY <1>3, CorruptInStep
<1>4. ASSUME NEW n \in DOMAIN net, feed(n) PROVE InStep'
    <2>1. Stream' = Stream
        BY <1>4, FeedKeepsStream
    <2> QED
        BY <1>4, <2>1, SameStream DEF feed
<1>5. CASE next_frame
    BY <1>5, NextFrameInStep
<1>6. CASE reset
    BY <1>6, ResetInStep
<1>7. CASE UNCHANGED vars
    <2>1. Stream' = Stream /\ UNCHANGED << sent, received, faults, resets >>
        BY <1>7 DEF vars, Stream, Pending
    <2> QED
        BY <2>1, SameStream
<1> QED
    BY <1>1, <1>2, <1>3, <1>4, <1>5, <1>6, <1>7 DEF Next

-----------------------------------------------------------------------------
(* The channel of frames *)

LEMMA ChannelStart == Init => Channel!Init
BY DEF Init, Channel!Init

\* Every step of the protocol is one of the channel, or none of its concern.
LEMMA ChannelStep == Typed /\ InStep /\ [Next]_vars => [Channel!Next]_(Channel!vars)
<1> SUFFICES ASSUME Typed, InStep, [Next]_vars
             PROVE  Channel!Next \/ UNCHANGED Channel!vars
    OBVIOUS
<1>1. ASSUME UNCHANGED << sent, received, faults, resets >>
      PROVE  UNCHANGED Channel!vars
    BY <1>1 DEF Channel!vars
<1>2. ASSUME NEW len \in 0 .. MaxPayload, NEW eos \in BOOLEAN, EncodeFrame(len, eos)
      PROVE  Channel!Send
    <2>1. PICK frame \in Frames :
              /\ sent' = Append(sent, frame) /\ UNCHANGED << received, faults, resets >>
        BY <1>2, FrameWritten
    <2>2. sent \in Seq(Frames)
        BY DEF Typed
    <2>3. /\ sent' \in Seq(Frames) /\ Len(sent') = Len(sent) + 1 /\ Len(sent) \in Nat
          /\ \A i \in 1 .. Len(sent) : sent'[i] = sent[i]
        BY <2>1, <2>2, AppendProperties, LenProperties
    <2> DEFINE front == SubSeq(sent', 1, Len(sent))
    <2>4. /\ front \in Seq(Frames) /\ Len(front) = Len(sent)
          /\ \A i \in 1 .. Len(sent) : front[i] = sent'[i]
        <3>1. Len(sent) \in 0 .. Len(sent')
            BY <2>3
        <3> QED
            BY <2>3, <3>1, Prefix
    <2> HIDE DEF front
    <2>5. sent = front
        BY <2>2, <2>3, <2>4, SeqEqual
    <2> QED
        BY <2>1, <2>3, <2>5 DEF front, Channel!Send
<1>3. CASE Take
    BY <1>1, <1>3 DEF Take
<1>4. ASSUME NEW i \in DOMAIN net, Corrupt(i) PROVE Channel!Fault
    <2>1. faults' = faults + 1 /\ UNCHANGED << sent, received, resets >>
        BY <1>4, CorruptCell
    <2>2. faults' + resets' > 0
        BY <2>1 DEF Typed
    <2> QED
        BY <2>1, <2>2 DEF Channel!Fault
<1>5. ASSUME NEW n \in DOMAIN net, feed(n) PROVE UNCHANGED Channel!vars
    BY <1>1, <1>5 DEF feed
<1>6. CASE reset
    <2>1. resets' > 0 /\ faults' + resets' > 0 /\ UNCHANGED << sent, received >>
        BY <1>6 DEF reset, Typed
    <2> QED
        BY <2>1 DEF Channel!Next, Channel!Fault
<1>7. CASE next_frame /\ Outcome(Pending) # "Ok"
    <2>1. UNCHANGED << sent, received, faults, resets >>
        BY <1>7 DEF next_frame
    <2> QED
        BY <1>1, <2>1
<1>8. CASE next_frame /\ Outcome(Pending) = "Ok"
    <2>1. PICK full, ends, q, at : LogOf(full, ends, q, at)
        BY DEF InStep
    <2>2. PICK j \in 1 .. Len(sent) :
              /\ received' = Append(received, sent[j])
              /\ ~ (resets > 0) => j = Len(received) + 1
        BY <1>8, <2>1, FrameReturned
    <2>3. UNCHANGED << sent, faults, resets >>
        BY <1>8 DEF next_frame
    <2>4. received \in Seq(Frames) /\ Len(received) \in Nat /\ Len(sent) \in Nat
        BY <2>1, LenProperties DEF LogOf, Returned, Typed
    <2>5. CASE ~ (resets > 0)
        BY <2>2, <2>3, <2>4, <2>5 DEF Channel!Next, Channel!Receive
    <2>6. CASE resets > 0
        <3>1. InStep'
            BY <1>8, NextFrameInStep
        <3>2. PICK ends2, q2, at2 : Returned(received', sent', at2, ends2, q2, (resets > 0)')
            BY <3>1 DEF InStep, LogOf
        <3>3. /\ DOMAIN received' = 1 .. Len(received') /\ DOMAIN sent = 1 .. Len(sent)
            BY <3>2, LenProperties DEF Returned, Typed
        <3>4. /\ at2 \in [DOMAIN received' -> DOMAIN sent]
              /\ \A i \in DOMAIN received' : received'[i] = sent[at2[i]]
              /\ \A i, k \in DOMAIN received' : i < k => at2[i] < at2[k]
            BY <2>3, <3>2, <3>3 DEF Returned
        <3>5. Channel!IsSubsequence(received', sent)
            BY <3>4 DEF Channel!IsSubsequence
        <3>6. Channel!ReceiveLater
            BY <2>2, <2>3, <2>6, <3>3, <3>5 DEF Channel!ReceiveLater
        <3> QED
            BY <3>6 DEF Channel!Next
    <2> QED
        BY <2>5, <2>6
<1>9. CASE UNCHANGED vars
    BY <1>1, <1>9 DEF vars
<1> QED
    BY <1>2, <1>3, <1>4, <1>5, <1>6, <1>7, <1>8, <1>9 DEF Next, Channel!Next

\* The protocol is a channel of frames: whatever is corrupted, cut into chunks or
\* thrown away by reset(), next_frame() returns encoded frames only, unaltered, in
\* order and at most once, and only a reset leaves frames out.
THEOREM ChannelKept == Spec => ChannelSafety
BY TypedInit, TypedStep, LogStart, InStepStep, ChannelStart, ChannelStep, PTL
   DEF Spec, ChannelSafety

-----------------------------------------------------------------------------
(* Nothing is lost *)

\* Behind the end of a frame, the log goes on with the next one.
LEMMA LogUnrolled ==
    ASSUME NEW s \in Seq(Frames), NEW full, NEW ends, Logged(s, full, ends),
           NEW j \in 0 .. Len(s), j < Len(s)
    PROVE  SubSeq(full, ends[j] + 1, Len(full))
              = Encoded(s[j + 1]) \o SubSeq(full, ends[j + 1] + 1, Len(full))
<1> DEFINE from == ends[j]
           upto == ends[j + 1]
           new  == Encoded(s[j + 1])
           left == SubSeq(full, from + 1, Len(full))
           tail == SubSeq(full, upto + 1, Len(full))
           right == new \o tail
<1>1. /\ Len(s) \in Nat /\ j + 1 \in 1 .. Len(s) /\ j + 1 \in 0 .. Len(s)
      /\ (j + 1) - 1 = j /\ full \in Seq(Cells) /\ Len(full) \in Nat
    BY LenProperties DEF Logged
<1>2. new \in Seq(Cells) /\ Len(new) \in Nat
    <2>1. s[j + 1] \in Frames
        BY <1>1, ElementOfSeq
    <2> QED
        BY <2>1, EncodedCells, LenProperties
<1>3. from \in 0 .. Len(full) /\ upto \in 0 .. Len(full)
    BY <1>1, LogOrder
<1>4. upto = from + Len(new) /\ \A i \in 1 .. Len(new) : full[from + i] = new[i]
    <2>1. /\ ends[j + 1] = ends[(j + 1) - 1] + Len(Encoded(s[j + 1]))
          /\ \A i \in 1 .. Len(Encoded(s[j + 1])) :
                full[ends[(j + 1) - 1] + i] = Encoded(s[j + 1])[i]
        BY <1>1 DEF Logged
    <2> QED
        BY <1>1, <2>1
<1> HIDE DEF from, upto, new
<1>5. /\ left \in Seq(Cells) /\ Len(left) = Len(full) - from
      /\ \A i \in 1 .. Len(full) - from : left[i] = full[from + i]
    BY <1>1, <1>3, Suffix, SMTT(60)
<1>6. /\ tail \in Seq(Cells) /\ Len(tail) = Len(full) - upto
      /\ \A i \in 1 .. Len(full) - upto : tail[i] = full[upto + i]
    BY <1>1, <1>3, Suffix
<1> HIDE DEF left, tail
<1>7. /\ right \in Seq(Cells) /\ Len(right) = Len(new) + Len(tail)
      /\ \A i \in 1 .. Len(new) + Len(tail) :
            right[i] = IF i <= Len(new) THEN new[i] ELSE tail[i - Len(new)]
    BY <1>2, <1>6, ConcatProperties
<1> HIDE DEF right
<1>8. Len(left) = Len(right)
    BY <1>1, <1>2, <1>3, <1>4, <1>5, <1>6, <1>7
<1>9. ASSUME NEW i \in 1 .. Len(left) PROVE left[i] = right[i]
    <2>1. i \in 1 .. Len(full) - from /\ i \in 1 .. Len(new) + Len(tail)
        BY <1>5, <1>7, <1>8
    <2>2. left[i] = full[from + i]
        BY <1>5, <2>1
    <2>3. CASE i <= Len(new)
        <3>1. i \in 1 .. Len(new)
            BY <1>2, <2>1, <2>3
        <3> QED
            BY <1>4, <1>7, <2>1, <2>2, <2>3, <3>1
    <2>4. CASE ~ (i <= Len(new))
        <3>1. i - Len(new) \in 1 .. Len(full) - upto /\ upto + (i - Len(new)) = from + i
            BY <1>1, <1>2, <1>3, <1>4, <2>1, <2>4
        <3> QED
            BY <1>6, <1>7, <2>1, <2>2, <2>4, <3>1
    <2> QED
        BY <2>3, <2>4
<1>10. left = right
    BY <1>5, <1>7, <1>8, <1>9, SeqEqual
<1> QED
    BY <1>10 DEF left, right, tail, new, from, upto

\* The log from the end of the k-th frame on is the encoding of the frames after
\* it: the recursion of EncodingFrom has this solution, and no other.
LEMMA EncodingIsLog ==
    ASSUME Typed, NEW full, NEW ends, Logged(sent, full, ends), NEW k \in 0 .. Len(sent)
    PROVE  EncodingFrom[k] = SubSeq(full, ends[k] + 1, Len(full))
<1> DEFINE Rest(j) == SubSeq(full, ends[j] + 1, Len(full))
           Unfold(f) == [j \in 0 .. MaxFrames |->
                IF j >= Len(sent) THEN << >> ELSE Encoded(sent[j + 1]) \o f[j + 1]]
           solution == [j \in 0 .. MaxFrames |->
                IF j >= Len(sent) THEN << >> ELSE Rest(j)]
<1>1. /\ full \in Seq(Cells) /\ Len(full) \in Nat
      /\ sent \in Seq(Frames) /\ Len(sent) \in Nat /\ Len(sent) <= MaxFrames
      /\ MaxFrames \in Nat /\ ends[Len(sent)] = Len(full)
      /\ \A j \in 0 .. Len(sent) : ends[j] \in 0 .. Len(full)
    BY LogOrder, LenProperties, WireAssumption DEF Logged, Typed
<1>2. Rest(Len(sent)) = << >>
    BY <1>1, SubSeqEmpty
<1>3. ASSUME NEW j \in 0 .. Len(sent), j < Len(sent)
      PROVE  Rest(j) = Encoded(sent[j + 1]) \o Rest(j + 1)
    BY <1>1, <1>3, LogUnrolled
<1>4. solution = Unfold(solution)
    <2>1. ASSUME NEW j \in 0 .. MaxFrames, j < Len(sent)
          PROVE  Rest(j) = Encoded(sent[j + 1]) \o solution[j + 1]
        <3>1. j \in 0 .. Len(sent) /\ j + 1 \in 0 .. MaxFrames
            BY <1>1, <2>1
        <3>2. CASE j + 1 >= Len(sent)
            <4>1. j + 1 = Len(sent)
                BY <1>1, <2>1, <3>2
            <4>2. solution[j + 1] = Rest(j + 1)
                BY <1>2, <3>1, <3>2, <4>1
            <4> QED
                BY <1>3, <2>1, <3>1, <4>2
        <3>3. CASE ~ (j + 1 >= Len(sent))
            <4>1. solution[j + 1] = Rest(j + 1)
                BY <3>1, <3>3
            <4> QED
                BY <1>3, <2>1, <3>1, <4>1
        <3> QED
            BY <3>2, <3>3
    <2>2. ASSUME NEW j \in 0 .. MaxFrames, ~ (j >= Len(sent))
          PROVE  Rest(j) = Encoded(sent[j + 1]) \o solution[j + 1]
        <3>1. j < Len(sent)
            BY <1>1, <2>2
        <3> QED
            BY <2>1, <3>1
    <2> DEFINE at(j) == IF j >= Len(sent) THEN << >> ELSE Rest(j)
               next(j) == IF j >= Len(sent) THEN << >>
                          ELSE Encoded(sent[j + 1]) \o solution[j + 1]
    <2>3. \A j \in 0 .. MaxFrames : at(j) = next(j)
        BY <2>2
    <2>4. solution = [j \in 0 .. MaxFrames |-> at(j)]
        OBVIOUS
    <2>5. Unfold(solution) = [j \in 0 .. MaxFrames |-> next(j)]
        OBVIOUS
    <2> HIDE DEF at, next, solution, Unfold
    <2> QED
        BY <2>3, <2>4, <2>5
<1>5. EncodingFrom = Unfold(EncodingFrom)
    <2> HIDE DEF solution
    <2>1. \E f : f = Unfold(f)
        BY <1>4
    <2>2. EncodingFrom = CHOOSE f : f = Unfold(f)
        BY DEF EncodingFrom
    <2> HIDE DEF Unfold
    <2> QED
        BY <2>1, <2>2
<1>6. EncodingFrom[Len(sent)] = Rest(Len(sent))
    <2>1. Len(sent) \in 0 .. MaxFrames /\ Len(sent) >= Len(sent)
        BY <1>1
    <2>2. Unfold(EncodingFrom)[Len(sent)] = << >>
        BY <2>1
    <2> QED
        BY <1>2, <1>5, <2>2
<1>7. ASSUME NEW j \in 0 .. Len(sent), j < Len(sent), EncodingFrom[j + 1] = Rest(j + 1)
      PROVE  EncodingFrom[j] = Rest(j)
    <2>1. j \in 0 .. MaxFrames /\ ~ (j >= Len(sent))
        BY <1>1, <1>7
    <2>2. Unfold(EncodingFrom)[j] = Encoded(sent[j + 1]) \o EncodingFrom[j + 1]
        BY <2>1
    <2> QED
        BY <1>3, <1>5, <1>7, <2>2
<1> DEFINE good == {m \in Nat : m <= Len(sent) =>
                        EncodingFrom[Len(sent) - m] = Rest(Len(sent) - m)}
<1> HIDE DEF Rest, Unfold, solution
<1>8. 0 \in good
    <2>1. Len(sent) - 0 = Len(sent)
        BY <1>1
    <2> QED
        BY <1>6, <2>1
<1>9. ASSUME NEW m \in good PROVE m + 1 \in good
    <2>1. CASE m + 1 <= Len(sent)
        <3> DEFINE j == Len(sent) - (m + 1)
        <3>1. /\ j \in 0 .. Len(sent) /\ j < Len(sent) /\ j + 1 = Len(sent) - m
              /\ m \in Nat /\ m <= Len(sent)
            BY <1>1, <2>1
        <3>2. EncodingFrom[j + 1] = Rest(j + 1)
            BY <3>1
        <3> HIDE DEF j
        <3>3. EncodingFrom[j] = Rest(j)
            BY <1>7, <3>1, <3>2
        <3> QED
            BY <3>1, <3>3 DEF j
    <2>2. CASE ~ (m + 1 <= Len(sent))
        BY <2>2
    <2> QED
        BY <2>1, <2>2
<1>10. Nat \subseteq good
    <2>1. \A m \in Nat : m \in good => m + 1 \in good
        BY <1>9
    <2> HIDE DEF good
    <2> QED
        BY <1>8, <2>1, NaturalsBySuccessor
<1>11. Len(sent) - k \in Nat /\ Len(sent) - k <= Len(sent)
       /\ Len(sent) - (Len(sent) - k) = k
    BY <1>1
<1>12. EncodingFrom[Len(sent) - (Len(sent) - k)] = Rest(Len(sent) - (Len(sent) - k))
    BY <1>10, <1>11
<1>13. EncodingFrom[k] = Rest(k)
    BY <1>11, <1>12
<1> QED
    BY <1>13 DEF Rest

\* An undamaged buffer begins with a frame, or with the first cells of one.
LEMMA FrontIsFrame ==
    ASSUME Typed, NEW frame \in Frames, Len(Pending) >= 3,
           \A i \in 1 .. Len(Pending) : i <= Len(Encoded(frame)) =>
                Pending[i] = Encoded(frame)[i]
    PROVE  Outcome(Pending) \in {"Ok", "Truncated"}
<1> DEFINE len == Len(frame.payload)
           n == len + 3
           content == SubSeq(Pending, 1, n - 1)
<1>1. Pending \in Seq(Cells) /\ Len(Pending) \in Nat
    BY PendingCells, LenProperties
<1>2. /\ len \in 0 .. MaxPayload
      /\ Covered(frame) \in Seq(PlainCells) /\ Len(Covered(frame)) = len + 2
      /\ Covered(frame)[1] = Magic
      /\ Covered(frame)[2] = FrameHead(frame.seq, frame.eos, len)
    BY CoveredCells
<1>3. /\ Len(Encoded(frame)) = len + 3
      /\ \A i \in 1 .. len + 2 : Encoded(frame)[i] = Covered(frame)[i]
      /\ Encoded(frame)[len + 3] = Covers(Covered(frame))
    BY EncodedCells
<1> HIDE DEF len
<1>4. len \in Nat /\ len <= MaxPayload /\ MaxPayload \in Nat
    BY <1>2, WireAssumption
<1>5. Pending[1] = Magic /\ Pending[2] = FrameHead(frame.seq, frame.eos, len)
    <2>1. /\ 1 \in 1 .. Len(Pending) /\ 1 <= len + 3 /\ 1 \in 1 .. len + 2
          /\ 2 \in 1 .. Len(Pending) /\ 2 <= len + 3 /\ 2 \in 1 .. len + 2
        BY <1>1, <1>4
    <2> QED
        BY <1>2, <1>3, <2>1
<1>6. payload_len(Pending) = len /\ total(Pending) = n
    BY <1>4, <1>5 DEF FrameHead, payload_len, total, kWireHeaderSize, kWireCrcSize
<1>7. ~ (Len(Pending) < kWireMinFrameSize) /\ ~ (payload_len(Pending) > MaxPayload)
    BY <1>1, <1>4, <1>6 DEF kWireMinFrameSize, kWireHeaderSize, kWireCrcSize
<1>8. CASE Len(Pending) < n
    BY <1>5, <1>6, <1>7, <1>8 DEF Outcome
<1>9. CASE ~ (Len(Pending) < n)
    <2>1. n \in 1 .. Len(Pending) /\ n <= Len(Encoded(frame)) /\ n - 1 \in 0 .. Len(Pending)
          /\ n - 1 = len + 2
        BY <1>1, <1>3, <1>4, <1>9
    <2>2. Pending[n] = Covers(Covered(frame))
        BY <1>3, <2>1
    <2>3. /\ content \in Seq(Cells) /\ Len(content) = n - 1
          /\ \A i \in 1 .. n - 1 : content[i] = Pending[i]
        BY <1>1, <2>1, Prefix
    <2> HIDE DEF content
    <2>4. ASSUME NEW i \in 1 .. Len(content) PROVE content[i] = Covered(frame)[i]
        <3>1. i \in 1 .. n - 1 /\ i \in 1 .. len + 2 /\ i \in 1 .. Len(Pending)
              /\ i <= Len(Encoded(frame))
            BY <1>1, <1>3, <1>4, <1>9, <2>1, <2>3
        <3> QED
            BY <1>3, <2>3, <3>1
    <2>5. content = Covered(frame)
        BY <1>2, <2>1, <2>3, <2>4, SeqEqual
    <2>6. Pending[total(Pending)] = Covers(SubSeq(Pending, 1, total(Pending) - 1))
        BY <1>6, <2>2, <2>5 DEF content
    <2>7. ~ (Len(Pending) < total(Pending)) /\ ~ (Pending[1] # Magic)
        BY <1>5, <1>6, <1>9
    <2> QED
        BY <1>7, <2>6, <2>7 DEF Outcome
<1> QED
    BY <1>8, <1>9

\* What is in the buffers is the log behind the frames returned.
LEMMA NothingIsLost == Typed /\ InStep => NoBytesLost
<1> SUFFICES ASSUME Typed, InStep, faults = 0, resets = 0
             PROVE  /\ Stream = EncodingFrom[Len(received)]
                    /\ Outcome(Pending) \in {"Ok", "Truncated"}
    BY DEF NoBytesLost
<1> DEFINE r == Len(received)
<1>1. PICK full, ends, q, at : LogOf(full, ends, q, at)
    BY DEF InStep
<1>2. /\ Logged(sent, full, ends) /\ StreamFrom(Stream, full, q, TRUE)
      /\ full \in Seq(Cells) /\ Len(full) \in Nat
    BY <1>1, LenProperties DEF LogOf, Logged
<1>3. r \in Nat /\ r <= Len(sent) /\ q = ends[r]
    <2>1. Returned(received, sent, at, ends, q, resets > 0) /\ ~ (resets > 0)
        BY <1>1 DEF LogOf
    <2> QED
        BY <2>1, LenProperties DEF Returned
<1>4. /\ Stream \in Seq(Cells) /\ Len(Stream) \in Nat
      /\ q \in Nat /\ q + Len(Stream) = Len(full)
      /\ \A i \in 1 .. Len(Stream) : Stream[i] = full[q + i]
    BY <1>2, LenProperties DEF StreamFrom
<1>5. sent \in Seq(Frames) /\ Len(sent) \in Nat /\ r \in 0 .. Len(sent)
    BY <1>3, LenProperties DEF Typed
<1> HIDE DEF r
<1>6. Stream = EncodingFrom[r]
    <2> DEFINE rest == SubSeq(full, q + 1, Len(full))
    <2>1. EncodingFrom[r] = rest
        BY <1>2, <1>3, <1>5, EncodingIsLog
    <2>2. q \in 0 .. Len(full)
        BY <1>2, <1>4
    <2>3. /\ rest \in Seq(Cells) /\ Len(rest) = Len(full) - q
          /\ \A i \in 1 .. Len(full) - q : rest[i] = full[q + i]
        BY <1>2, <2>2, Suffix
    <2> HIDE DEF rest
    <2>4. Len(rest) = Len(Stream)
        BY <1>2, <1>4, <2>3
    <2>5. ASSUME NEW i \in 1 .. Len(Stream) PROVE Stream[i] = rest[i]
        BY <1>4, <2>3, <2>4
    <2>6. Stream = rest
        BY <1>4, <2>3, <2>4, <2>5, SeqEqual
    <2> QED
        BY <2>1, <2>6
<1>7. Outcome(Pending) \in {"Ok", "Truncated"}
    <2>1. Pending \in Seq(Cells) /\ Len(Pending) \in Nat
        BY PendingCells, LenProperties
    <2>2. CASE Len(Pending) < 3
        BY <2>2 DEF Outcome, kWireMinFrameSize, kWireHeaderSize, kWireCrcSize
    <2>3. CASE ~ (Len(Pending) < 3)
        <3>1. /\ Len(Pending) <= Len(Stream)
              /\ \A i \in 1 .. Len(Pending) : Stream[i] = Pending[i]
            BY PendingIsFront
        <3>2. r < Len(sent)
            <4>1. q < Len(full)
                BY <1>2, <1>4, <2>1, <2>3, <3>1
            <4>2. ends[Len(sent)] = Len(full)
                BY <1>2 DEF Logged
            <4>3. r # Len(sent)
                BY <1>2, <1>3, <1>4, <4>1, <4>2
            <4> QED
                BY <1>3, <1>5, <4>3
        <3> DEFINE frame == sent[r + 1]
        <3>3. r + 1 \in 1 .. Len(sent) /\ (r + 1) - 1 = r
            BY <1>3, <1>5, <3>2
        <3>4. frame \in Frames
            BY <1>5, <3>3, ElementOfSeq
        <3>5. \A i \in 1 .. Len(Encoded(frame)) : full[q + i] = Encoded(frame)[i]
            <4>1. \A i \in 1 .. Len(Encoded(sent[r + 1])) :
                      full[ends[(r + 1) - 1] + i] = Encoded(sent[r + 1])[i]
                BY <1>2, <3>3 DEF Logged
            <4> QED
                BY <1>3, <3>3, <4>1
        <3> HIDE DEF frame
        <3>6. Len(Encoded(frame)) \in Nat
            BY <3>4, EncodedCells, LenProperties
        <3>7. ASSUME NEW i \in 1 .. Len(Pending), i <= Len(Encoded(frame))
              PROVE  Pending[i] = Encoded(frame)[i]
            <4>1. i \in 1 .. Len(Stream) /\ i \in 1 .. Len(Encoded(frame))
                BY <1>4, <2>1, <3>1, <3>6, <3>7
            <4> QED
                BY <1>4, <3>1, <3>5, <4>1
        <3>8. Len(Pending) >= 3
            BY <2>1, <2>3
        <3> QED
            BY <3>4, <3>7, <3>8, FrontIsFrame
    <2> QED
        BY <2>2, <2>3
<1> QED
    BY <1>6, <1>7 DEF r

\* Without a fault or a reset the cells in the buffers are exactly the encoding
\* of the frames still to be returned, and next_frame() never reports damage.
THEOREM NothingLost == Spec => []NoBytesLost
BY TypedInit, TypedStep, LogStart, InStepStep, NothingIsLost, PTL DEF Spec
=============================================================================
