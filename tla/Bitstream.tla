----------------------------- MODULE Bitstream -----------------------------
(* The encoder's bit stream writer (ih264e_bitstream.c, ih264e_bitstream.h): *)
(* bits are gathered in a word, whole bytes of it go to the stream buffer    *)
(* with an emulation prevention byte before a byte below 4 that follows two  *)
(* zero bytes.  The writer is a record: buf is what the buffer holds up to   *)
(* u4_strm_buf_offset, word the bits of u4_cur_word in use, zeros is         *)
(* i4_zero_bytes_run, max is u4_max_strm_size, and full tells that a byte    *)
(* was refused, the BITSTREAM_BUFFER_OVERFLOW that is returned to the caller. *)
(* The CABAC engine's record has these fields and its own.                   *)
EXTENDS Integers, Sequences, SequencesExt

CONSTANT WordSize   \* the bits of a word: 32 in the code

ASSUME BitstreamAssumption == WordSize \in Nat /\ WordSize % 8 = 0 /\ WordSize > 0

Bin(value, len) == [i \in 1..len |-> (value \div 2^(len - i)) % 2]
Value(bits) == FoldLeft(LAMBDA v, b : 2 * v + b, 0, bits)

\* whole bytes of a string of bits, the last one filled up with zeros
Bytes(bits) ==
    LET bit(i) == IF i <= Len(bits) THEN bits[i] ELSE 0
    IN [k \in 1..((Len(bits) + 7) \div 8) |->
            Value([i \in 1..8 |-> bit(8 * (k - 1) + i)])]

\* the number of significant bits of a value: GETRANGE
Range2(value) == IF value = 0 THEN 1
                 ELSE CHOOSE r \in 1..30 : 2^(r - 1) <= value /\ value < 2^r

InitStrm(size) ==
    [buf |-> <<>>, word |-> <<>>, zeros |-> 0, full |-> FALSE, max |-> size]

Store(s, byte) ==
    IF Len(s.buf) + 1 >= s.max
    THEN [s EXCEPT !.full = TRUE]
    ELSE [s EXCEPT !.buf = Append(@, byte),
                   !.zeros = IF byte = 0 THEN @ + 1 ELSE 0]

\* a byte, escaped when a decoder could take it for a start code
PutByteEpb(s, byte) ==
    Store(IF s.zeros = 2 /\ byte < 4 THEN Store(s, 3) ELSE s, byte)

PutBytes(s, bytes) == FoldLeft(PutByteEpb, s, bytes)

\* a code: the word is flushed only when the code fills it
PutBits(s, code) ==
    LET bits == s.word \o code
        flushed == PutBytes(s, Bytes(SubSeq(bits, 1, WordSize)))
    IN IF Len(bits) < WordSize THEN [s EXCEPT !.word = bits]
       ELSE IF flushed.full THEN flushed
       ELSE [flushed EXCEPT !.word = SubSeq(bits, WordSize + 1, Len(bits))]

PutUev(s, value) == PutBits(s, Bin(value + 1, 2 * Range2(value + 1) - 1))

PutSev(s, value) == PutUev(s, IF value <= 0 THEN 2 * (-value) ELSE 2 * value - 1)

\* the stop bit, the flush, and a writer as new: the run of zero bytes too
PutRbspTrailingBits(s) ==
    LET flushed == PutBytes(s, Bytes(Append(s.word, 1)))
    IN IF flushed.full THEN flushed
       ELSE [flushed EXCEPT !.word = <<>>, !.zeros = 0]

\* before the CABAC data: ones up to a byte boundary, then the whole word
BitstreamByteAlign(s) ==
    PutBits(s, [i \in 1..((WordSize - Len(s.word)) % 8) |-> 1])

BitstreamFlush(s) ==
    LET flushed == PutBytes(s, Bytes(s.word))
    IN IF flushed.full THEN flushed ELSE [flushed EXCEPT !.word = <<>>]

\* the prefix goes to the buffer as it is: no escape, no count of its zeros
PutNalStartCodePrefix(s, leadingZero) ==
    IF Len(s.buf) + 4 >= s.max
    THEN [s EXCEPT !.full = TRUE]
    ELSE [s EXCEPT !.buf = @ \o (IF leadingZero THEN <<0, 0, 0, 1>> ELSE <<0, 0, 1>>)]
============================================================================
