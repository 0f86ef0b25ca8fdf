---------------------------- MODULE CabacEncoder ----------------------------
(* The encoder's arithmetic coding engine (ih264e_cabac.c).  It writes bytes, *)
(* not bits: low grows to the left until a whole byte has left the nine bits  *)
(* that can still change, except for a carry.  A byte of ones is held back    *)
(* and counted, so that a carry never travels further than the last byte of   *)
(* the buffer; if that byte was escaped the carry may take the escape away.   *)
(* The engine's fields are added to the writer's record: low, range, gen      *)
(* (u4_bits_gen) and outstanding (u4_out_standing_bytes).                     *)
EXTENDS Bitstream

CONSTANTS CtxState,   \* context states in use: rows of gau4_ih264_cabac_table
          RangeLps    \* range of the less probable symbol: state -> <<four values>>

ASSUME CabacAssumption ==
    RangeLps \in [CtxState -> [1..4 -> 6..240]]

CabacBits == 9

InitCabacEncEnvirnoment(e) ==
    [buf |-> e.buf, word |-> e.word, zeros |-> e.zeros, full |-> e.full,
     max |-> e.max, low |-> 0, range |-> 510, gen |-> 0, outstanding |-> 0]

\* the carry goes into the last byte of the buffer; <<0, 0, 3, 3>> can only be
\* an escaped 3, which as a 4 needs no escape
CarryEscaped(e) ==
    [e EXCEPT !.buf[Len(e.buf)] = (@ + 1) % 256, !.zeros = 0]
Carry(e) ==
    LET n == Len(e.buf)
        buf == IF n >= 4 /\ SubSeq(e.buf, n - 3, n) = <<0, 0, 3, 3>>
               THEN SubSeq(e.buf, 1, n - 1) ELSE e.buf
    IN [e EXCEPT !.buf = [buf EXCEPT ![Len(buf)] = (@ + 1) % 256], !.zeros = 0]

\* the bytes held back, now that the carry they waited for is known, and more
ResolveOnes(e, carry, more) ==
    LET held == [i \in 1..e.outstanding |-> 255]
    IN [PutBytes(IF carry THEN Carry(e) ELSE e, held \o more) EXCEPT !.outstanding = 0]
Resolve(e, carry, more) ==
    LET held == [i \in 1..e.outstanding |-> IF carry THEN 0 ELSE 255]
    IN [PutBytes(IF carry THEN Carry(e) ELSE e, held \o more) EXCEPT !.outstanding = 0]

\* ih264e_cabac_put_byte, where the callers' test lets it be called
CabacPutByteEager(e) ==
    IF e.gen <= CabacBits THEN e
    ELSE LET lead == e.low \div 2^(e.gen + 1)
             rest == [e EXCEPT !.gen = @ - 8, !.low = (@ % 2^(e.gen + 1))]
         IN Resolve(rest, lead > 255, <<lead % 256>>)
CabacPutByte(e) ==
    IF e.gen <= CabacBits THEN e
    ELSE LET lead == e.low \div 2^(e.gen + 1)
             rest == [e EXCEPT !.gen = @ - 8, !.low = (@ % 2^(e.gen + 1))]
         IN IF lead = 255 THEN [rest EXCEPT !.outstanding = @ + 1]
            ELSE Resolve(rest, lead > 255, <<lead % 256>>)

\* low and range shifted until the range has nine bits again
Renorm(e, low, range) ==
    LET shift == CabacBits - Range2(range)
    IN [e EXCEPT !.low = low * 2^shift, !.range = range * 2^shift, !.gen = @ + shift]

\* a decision in a context of the given state
CabacEncodeBin(e, state, lps) ==
    LET rLps == RangeLps[state][((e.range \div 64) % 4) + 1]
        rMps == e.range - rLps
    IN CabacPutByte(IF lps THEN Renorm(e, e.low + rMps, rLps)
                           ELSE Renorm(e, e.low, rMps))

\* bypass bins, eight at a time and then the rest of them
BypassPiece(e, bins) ==
    CabacPutByte([e EXCEPT !.low = @ * 2^Len(bins) + Value(bins) * e.range,
                           !.gen = @ + Len(bins)])
CabacEncodeBypassBins(e, bins) ==
    LET last(k) == IF 8 * k < Len(bins) THEN 8 * k ELSE Len(bins)
        pieces == [k \in 1..((Len(bins) + 7) \div 8) |-> SubSeq(bins, 8 * k - 7, last(k))]
    IN FoldLeft(BypassPiece, e, pieces)

\* The last bits of low, then the stop bit.  The code adds a second one after
\* it, except where its place is left of the byte: it is shifted by -1 there,
\* which the builds mask away.
CabacFlush(e) ==
    LET carry == (e.low \div 2^(e.gen + CabacBits)) % 2 = 1
        left == e.gen + 1
        rem == (e.low % 2^(e.gen + CabacBits)) \div 2^(CabacBits - 1)
        stop == IF left = 7 THEN <<1>> ELSE <<1, 1>>
        done == Resolve(e, carry, Bytes(Bin(rem, left) \o stop))
    IN IF done.full THEN done ELSE [done EXCEPT !.zeros = 0, !.word = <<>>]

CabacEncodeTerminate(e, last) ==
    IF last
    THEN CabacFlush(CabacPutByte(Renorm(e, e.low + e.range - 2, 2)))
    ELSE CabacPutByte(Renorm(e, e.low, e.range - 2))
=============================================================================
