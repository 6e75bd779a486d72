----------------------------- MODULE ByteCodec -----------------------------
(***************************************************************************)
(* The primitives of include/stratavm/byte_reader.hpp and byte_writer.hpp. *)
(* A ByteReader is the sequence of the bytes it has still to read; a read  *)
(* gives a record of its Code, the value and the reader after it.  What a  *)
(* writer appends is a sequence of bytes.                                  *)
(*                                                                         *)
(* The widths are parameters.  The code has bytes of 8 bits, seven of them *)
(* a group of a varint (GroupBase = 2^7), words of 64 bits, varints of ten *)
(* groups and integers of 2, 4 and 8 bytes.                                *)
(*                                                                         *)
(* An operator <name>_slip_<what> is <name> with a slip of the programmer  *)
(* in it; no specification uses it (see README.md).                        *)
(***************************************************************************)
EXTENDS Integers, Sequences, FiniteSets, SequencesExt

CONSTANTS
    GroupBase,   \* values of the payload bits of a varint's byte
    MaxGroups,   \* bytes of the longest varint
    U16Bytes, U32Bytes, U64Bytes   \* bytes of the fixed integers

Power(base, n) ==
    LET power[k \in 0 .. n] == IF k = 0 THEN 1 ELSE base * power[k - 1]
    IN  power[n]

\* The number whose digits to a base are these, the least first.
Number(base, digits) ==
    LET n == Len(digits)
        last[k \in 0 .. n] == IF k = 0 THEN 0 ELSE digits[n - k + 1] + base * last[k - 1]
    IN  last[n]

\* What is left of v when 0, 1 .. n digits are taken off it.
Shifted(base, v, n) ==
    LET left[k \in 0 .. n] == IF k = 0 THEN v ELSE left[k - 1] \div base
    IN  left

ByteBase == 2 * GroupBase
Byte == 0 .. ByteBase - 1
Bytes == Seq(Byte)
WordSize == Power(ByteBase, U64Bytes)
TopU32 == Power(ByteBase, U32Bytes) - 1

\* The longest varint has room for a word, a shorter one has not.
ASSUME CodecAssumption ==
    /\ GroupBase \in Nat \ {0, 1}
    /\ {MaxGroups, U16Bytes, U32Bytes, U64Bytes} \subseteq Nat \ {0}
    /\ Power(GroupBase, MaxGroups) >= WordSize
    /\ Power(GroupBase, MaxGroups - 1) < WordSize

-----------------------------------------------------------------------------
(* Results *)

Got(value, rest) == [code |-> "ok", value |-> value, rest |-> rest]
Failed(code, r) == [code |-> code, value |-> 0, rest |-> r]

\* STRATAVM_RETURN_IF_ERROR: what comes next happens only after a success.
Bind(res, Then(_, _)) ==
    IF res.code = "ok" THEN Then(res.value, res.rest) ELSE res

\* A loop that reads n things one after another; the first error ends it.
Repeat(n, Read, r) ==
    LET done[i \in 0 .. n] ==
            IF i = 0 THEN Got(<< >>, r)
            ELSE Bind(done[i - 1], LAMBDA items, rest :
                     Bind(Read[i][rest], LAMBDA item, after :
                         Got(Append(items, item), after)))
    IN  done[n]
Each(reader) == [i \in Nat |-> reader]

Skip(r, n) == SubSeq(r, n + 1, Len(r))

-----------------------------------------------------------------------------
(* ByteReader *)

Word(bytes) == Number(ByteBase, bytes)

read_bytes(n, r) ==
    IF Len(r) < n THEN Failed("Truncated", r)
    ELSE Got(SubSeq(r, 1, n), Skip(r, n))

read_fixed(n, r) == Bind(read_bytes(n, r), LAMBDA bs, rest : Got(Word(bs), rest))
read_u8(r) == read_fixed(1, r)
read_u16(r) == read_fixed(U16Bytes, r)
read_u32(r) == read_fixed(U32Bytes, r)
read_u64(r) == read_fixed(U64Bytes, r)
read_f64(r) == read_u64(r)   \* a double is its bit pattern

\* The payload of the first n bytes of a varint, of which a word keeps the bits
\* it has room for: ten groups are wider than it is.
Spelt(r, n) == Number(GroupBase, [i \in 1 .. n |-> r[i] % GroupBase])
Groups_slip_signed(r, n) == Spelt(r, n) % (WordSize \div 2)
Groups(r, n) == Spelt(r, n) % WordSize

read_varint(r) ==
    LET ends == {i \in 1..MaxGroups : i <= Len(r) /\ r[i] < GroupBase}
    IN  IF ends # {} THEN LET n == Min(ends) IN Got(Groups(r, n), Skip(r, n))
        ELSE Failed(IF Len(r) < MaxGroups THEN "Truncated" ELSE "BadValue", r)

read_varint_u32(r) ==
    Bind(read_varint(r), LAMBDA v, rest :
        IF v > TopU32 THEN Failed("BadValue", rest) ELSE Got(v, rest))

\* Zig-zag: even numbers are the non-negative ones.
read_svarint(r) ==
    Bind(read_varint(r), LAMBDA u, rest :
        Got(IF u % 2 = 0 THEN u \div 2 ELSE - (u \div 2) - 1, rest))

read_lp_string(max_len, r) ==
    Bind(read_varint(r), LAMBDA n, rest :
        IF n > max_len THEN Failed("LimitExceeded", rest)
        ELSE read_bytes(n, rest))

window_slip_to_end(file, offset, length) == Skip(file, offset)

\* window(): callers have checked that the window lies within the file.
window(file, offset, length) == SubSeq(file, offset + 1, offset + length)

-----------------------------------------------------------------------------
(* ByteWriter *)

fixed(n, v) ==
    LET left == Shifted(ByteBase, v, n)
    IN  [i \in 1 .. n |-> left[i - 1] % ByteBase]
u8(v) == fixed(1, v)
u16(v) == fixed(U16Bytes, v)
u32(v) == fixed(U32Bytes, v)
u64(v) == fixed(U64Bytes, v)

\* The argument is a word.
varint(v) ==
    LET left == Shifted(GroupBase, v % WordSize, MaxGroups)
        n == Min({i \in 1 .. MaxGroups : left[i - 1] < GroupBase})
    IN  [i \in 1 .. n |-> (left[i - 1] % GroupBase) + (IF i < n THEN GroupBase ELSE 0)]

svarint(v) == varint(IF v >= 0 THEN 2 * v ELSE - 2 * v - 1)

lp_string(s) == varint(Len(s)) \o s

patch_u32(bytes, at, v) ==
    [i \in DOMAIN bytes |-> IF i \in at + 1 .. at + U32Bytes
                            THEN u32(v)[i - at] ELSE bytes[i]]

-----------------------------------------------------------------------------
\* Words next to the first of each length of a varint, and the last of all.
EdgeWords ==
    {w \in 0 .. WordSize - 1 : \E i \in 0..MaxGroups : w - Power(GroupBase, i) \in -2..2}
    \cup WordSize - 3 .. WordSize - 1

\* Bytes that hold nothing, the most, or one bit at either end of a group.
EdgeBytes ==
    LET payloads == {0, 1, GroupBase \div 2, GroupBase - 1}
    IN  payloads \cup {GroupBase + p : p \in payloads}

\* What varint() and svarint() write is read back, whatever follows it.  The
\* reader takes more than they write: a number in more bytes than it needs, and
\* one whose last group sticks out of the word.  It gives the number that the
\* groups spell, modulo the word, and spells it in no more bytes than it read;
\* a number that loses bits that way has the full ten bytes.
VarintsRead ==
    /\ \A w \in EdgeWords, tail \in {<< >>, <<0>>} :
          /\ read_varint(varint(w) \o tail) = Got(w, tail)
          /\ \A v \in {w - WordSize \div 2, w \div 2, - (w \div 2) - 1} :
                read_svarint(svarint(v) \o tail) = Got(v, tail)
    /\ \A length \in 0 .. MaxGroups : \A bytes \in [1 .. length -> EdgeBytes] :
          LET res == read_varint(bytes)
              n == Len(bytes) - Len(res.rest)
              spelt == Spelt(bytes, n)
          IN  res.code = "ok" =>
                  /\ \A i \in 1..n : bytes[i] >= GroupBase <=> i < n
                  /\ (spelt - res.value) % WordSize = 0
                  /\ spelt # res.value => n = MaxGroups
                  /\ Len(varint(res.value)) <= n
=============================================================================
