----------------------------- MODULE NalReader -----------------------------
(* The decoder's side: a NAL unit is found between start codes               *)
(* (ih264d_find_start_code), its escapes are taken out while its bytes are   *)
(* turned to words in place (ih264d_process_nal_unit), and syntax elements   *)
(* or arithmetic coded bins are read at a bit offset.  The reader is a       *)
(* record: mem is the memory from the start of the NAL unit, ofst u4_ofst,   *)
(* max u4_max_ofst, range and val the arithmetic decoder's registers.        *)
EXTENDS Bitstream

CONSTANTS CtxState, RangeLps,   \* as in the encoder: the two share the table
          ReadAhead             \* bits read ahead of the nine in use: 23 in the code

----------------------------------------------------------------------------
(* NAL units *)

\* where a start code 00 00 01 ends, all of it after position from
CodeEnds(buf, from) ==
    {i \in (from + 3)..Len(buf) : buf[i] = 1 /\ buf[i - 1] = 0 /\ buf[i - 2] = 0}

Least(S) == CHOOSE x \in S : \A y \in S : x <= y

\* the bytes of the first NAL unit: up to the next start code or the end, without
\* the zero bytes that stand there
FindStartCode(buf) ==
    LET first == CodeEnds(buf, 0)
        start == IF first = {} THEN Len(buf) ELSE Least(first)
        next == CodeEnds(buf, start)
        stop == IF next = {} THEN Len(buf) + 1 ELSE Least(next)
        end == CHOOSE i \in start..(stop - 1) :
                   /\ i = start \/ buf[i] # 0
                   /\ \A j \in (i + 1)..(stop - 1) : buf[j] = 0
    IN SubSeq(buf, start + 1, end)

\* one byte of a NAL unit: dropped when it is a 3 after two zero bytes
Unescape(acc, byte) ==
    IF acc.zeros = 2 /\ byte = 3 THEN [acc EXCEPT !.zeros = 0]
    ELSE [rbsp |-> Append(acc.rbsp, byte), zeros |-> IF byte = 0 THEN acc.zeros + 1 ELSE 0]

\* the first byte neither counts as a zero byte nor is the third one looked at,
\* which no escape can be
Unescaped(nal) ==
    FoldLeft(Unescape, [rbsp |-> <<nal[1]>>, zeros |-> 0], SubSeq(nal, 2, Len(nal))).rbsp

\* Three bytes are taken whatever the unit's length: behind a shorter one lie the
\* zero bytes that ih264d_video_decode writes there.  No unit ends in an escape.
Rbsp(nal) ==
    Unescaped(SubSeq(nal \o <<0, 0>>, 1, IF Len(nal) < 3 THEN 3 ELSE Len(nal)))

\* What lies behind the data: the last word is filled with zeros, or stored twice
\* when it was full; then the bytes of the NAL unit that were not overwritten.
Memory(nal) ==
    LET rbsp == Rbsp(nal)
        n == Len(rbsp)
        words == IF n % 4 = 0 THEN rbsp \o SubSeq(rbsp, n - 3, n)
                 ELSE rbsp \o [i \in 1..(4 - (n % 4)) |-> 0]
    IN words \o SubSeq(nal, Len(words) + 1, Len(nal))

\* u4_max_ofst: the bits before the stop bit, the last one that is set
RbspToSodbStop(rbsp) == 8 * Len(rbsp)
RbspToSodb(rbsp) ==
    LET last == rbsp[Len(rbsp)]
        i == CHOOSE k \in 0..8 : k = 8 \/ ((last \div 2^k) % 2 = 1 /\ last % 2^k = 0)
    IN 8 * Len(rbsp) - (i + 1)

ProcessNalUnit(nal) ==
    [mem |-> Memory(nal), ofst |-> 0, max |-> RbspToSodb(Rbsp(nal)), range |-> 0, val |-> 0]

----------------------------------------------------------------------------
(* Syntax elements.  Up to 17 bits from three bytes; eight zero bytes follow *)
(* the memory. *)

NextBits(d, at, n) ==
    LET k == at \div 8 + 1
        byte(i) == IF i <= Len(d.mem) THEN d.mem[i] ELSE 0
        three == byte(k) * 65536 + byte(k + 1) * 256 + byte(k + 2)
    IN (three \div 2^(24 - (at % 8) - n)) % 2^n

\* every reader returns what it read and the reader behind it
GetBits(d, n) == [sym |-> NextBits(d, d.ofst, n), d |-> [d EXCEPT !.ofst = @ + n]]

LeadingZeros(d) == IF NextBits(d, d.ofst, 16) = 0 THEN 16
                   ELSE 16 - Range2(NextBits(d, d.ofst, 16))
Uev(d) ==
    LET ldz == LeadingZeros(d)
    IN [sym |-> 2^ldz + NextBits(d, d.ofst + ldz + 1, ldz) - 1,
        d |-> [d EXCEPT !.ofst = @ + 2 * ldz + 1]]

Sev(d) ==
    LET ldz == LeadingZeros(d)
        suffix == NextBits(d, d.ofst + ldz + 1, ldz)
        abs == (2^ldz + suffix) \div 2
    IN [sym |-> IF suffix % 2 = 1 THEN -abs ELSE abs,
        d |-> [d EXCEPT !.ofst = @ + 2 * ldz + 1]]

ExceedOffset(d) == d.ofst > d.max
MoreRbspData(d) == d.ofst + 1 <= d.max

----------------------------------------------------------------------------
(* The arithmetic decoder: range and offset carry ReadAhead bits more than the *)
(* nine of the standard, and are renormalised only when nine are no longer     *)
(* left.                                                                       *)

Width == 9 + ReadAhead
Clz(range) == Width - Range2(range)

InitCabacDecEnvirnoment(d) ==
    LET aligned == ((d.ofst + 7) \div 8) * 8
    IN [d EXCEPT !.range = 510 * 2^ReadAhead,
                 !.val = NextBits(d, aligned, Width),
                 !.ofst = aligned + 9]

RenormRangeOffset(d) ==
    LET clz == Clz(d.range)
    IN [d EXCEPT !.range = @ * 2^clz,
                 !.val = @ * 2^clz + NextBits(d, d.ofst + ReadAhead, clz),
                 !.ofst = @ + clz]

RenormBelow(d, limit) == IF d.range < limit THEN RenormRangeOffset(d) ELSE d

\* a decision: the symbol tells whether it was the less probable one
DecodeBin(d, state) ==
    LET clz == Clz(d.range)
        quant == ((d.range * 2^clz) \div 2^(Width - 3)) % 4
        rLps == RangeLps[state][quant + 1] * 2^(ReadAhead - clz)
        rMps == d.range - rLps
        lps == d.val >= rMps
    IN [sym |-> lps,
        d |-> RenormBelow(IF lps THEN [d EXCEPT !.range = rLps, !.val = @ - rMps]
                                 ELSE [d EXCEPT !.range = rMps], 2^8)]

DecodeTerminate(d) ==
    LET clz == Clz(d.range)
        range == d.range - 2 * 2^(ReadAhead - clz)
    IN IF d.val >= range
       THEN [sym |-> TRUE, d |-> [d EXCEPT !.range = range, !.ofst = @ + clz]]
       ELSE [sym |-> FALSE, d |-> RenormBelow([d EXCEPT !.range = range], 2^8)]

BypassStep(r, i) ==
    LET half == r.d.range \div 2
        bin == IF r.d.val >= half THEN 1 ELSE 0
    IN [sym |-> Append(r.sym, bin),
        d |-> RenormBelow([r.d EXCEPT !.range = half, !.val = @ - bin * half], 2^9)]
DecodeBypassBins(d, n) ==
    FoldLeft(BypassStep, [sym |-> <<>>, d |-> RenormBelow(d, 2^9)], [i \in 1..n |-> i])
============================================================================
