---------------------------- MODULE SliceStream ----------------------------
(* One NAL unit from the encoder's entropy coder to the decoder's parser.    *)
(* The encoder writes syntax elements and closes the unit with the trailing  *)
(* bits, or goes on with arithmetic coded macroblocks and closes it by the   *)
(* terminating bin (ih264e_entropy, ih264e_write_*slice_mb_cabac).  The      *)
(* decoder finds the unit, takes its escapes out and reads element by        *)
(* element what the syntax tells it to read.  Context models are abstract:   *)
(* a decision has any state, and both sides have the same.                   *)
EXTENDS CabacEncoder

CONSTANTS Headers,           \* sets of elements, one of which opens a coded slice
          Elements,          \* syntax elements: records [kind, value] or [kind, bits]
          BypassBins,        \* strings of bypass bins
          MaxElements,       \* bound: elements of a unit without coded macroblocks
          MaxBins,           \* bound: calls of the arithmetic coder in a unit
          StrmSizes,         \* sizes of the stream buffer
          MinStreamSizeMb,   \* MIN_STREAM_SIZE_MB: 1024 in the code
          ReadAhead          \* NalReader's, where the registers fit TLC's integers

ASSUME SliceStreamAssumption == ReadAhead \in 7..21

R == INSTANCE NalReader

VARIABLES phase,   \* where the encoder is, then the decoder
          e,       \* the encoder's writer and engine
          wrote,   \* the elements and bins written so far
          start,   \* bytes of the buffer when the arithmetic coder took over
          d,       \* the decoder's reader
          read     \* how many of the written ones it has read rightly so far, or -1

vars == <<phase, e, wrote, start, d, read>>

NalHeader == Bin(101, 8)      \* nal_ref_idc 3, an IDR slice: never zero
NoReader == [mem |-> <<>>, ofst |-> 0, max |-> 0, range |-> 0, val |-> 0]

Init ==
    /\ phase = "syntax"
    /\ \E size \in StrmSizes :
          e = PutBits(PutNalStartCodePrefix(InitStrm(size), TRUE), NalHeader)
    /\ wrote = <<>>
    /\ start = 0
    /\ d = NoReader
    /\ read = 0

----------------------------------------------------------------------------
(* The encoder *)

\* the encoder gives the unit up when the writer reports an overflow
Written(strm, next) ==
    /\ e' = strm
    /\ phase' = IF strm.full THEN "failed" ELSE next

Put(strm, el) ==
    CASE el.kind = "u"  -> PutBits(strm, el.bits)
      [] el.kind = "ue" -> PutUev(strm, el.value)
      [] el.kind = "se" -> PutSev(strm, el.value)

PutElement ==
    /\ phase = "syntax"
    /\ Len(wrote) < MaxElements
    /\ \E el \in Elements :
          /\ Written(Put(e, el), "syntax")
          /\ wrote' = Append(wrote, el)
    /\ UNCHANGED <<start, d, read>>

\* ih264e_entropy, CAVLC: the end of the slice
CloseUnit ==
    /\ phase = "syntax"
    /\ Written(PutRbspTrailingBits(e), "coded")
    /\ UNCHANGED <<wrote, start, d, read>>

\* ih264e_entropy, CABAC: the header is aligned, flushed and the engine set up
StartCabac ==
    /\ phase = "syntax"
    /\ wrote \in Headers
    /\ LET flushed == BitstreamFlush(BitstreamByteAlign(e)) IN
          /\ Written(InitCabacEncEnvirnoment(flushed), "mb")
          /\ start' = Len(flushed.buf)
    /\ UNCHANGED <<wrote, d, read>>

Bins == SelectSeq(wrote, LAMBDA w : w.kind \in {"bin", "bypass", "end"})

\* ih264e_write_islice_mb_cabac: a macroblock needs room for the longest one,
\* since what the engine's put_byte returns is not looked at
StartMb ==
    /\ phase = "mb"
    /\ phase' = IF Len(e.buf) + MinStreamSizeMb >= e.max THEN "failed" ELSE "bins"
    /\ UNCHANGED <<e, wrote, start, d, read>>

EncodeBin ==
    /\ phase = "bins"
    /\ Len(Bins) < MaxBins
    /\ \E state \in CtxState, lps \in BOOLEAN :
          /\ e' = CabacEncodeBin(e, state, lps)
          /\ wrote' = Append(wrote, [kind |-> "bin", state |-> state, value |-> lps])
    /\ UNCHANGED <<phase, start, d, read>>

EncodeBypass ==
    /\ phase = "bins"
    /\ Len(Bins) < MaxBins
    /\ \E bins \in BypassBins :
          /\ e' = CabacEncodeBypassBins(e, bins)
          /\ wrote' = Append(wrote, [kind |-> "bypass", value |-> bins])
    /\ UNCHANGED <<phase, start, d, read>>

\* the macroblock was not the last one of the slice, or it was
EndMb ==
    /\ phase = "bins"
    /\ \E last \in BOOLEAN :
          /\ last \/ Len(Bins) < MaxBins
          /\ e' = CabacEncodeTerminate(e, last)
          /\ phase' = IF last THEN "coded" ELSE "mb"
          /\ wrote' = Append(wrote, [kind |-> "end", value |-> last])
    /\ UNCHANGED <<start, d, read>>

----------------------------------------------------------------------------
(* The decoder *)

Unit == SubSeq(e.buf, 5, Len(e.buf))

\* the unit ends the buffer, or the next one follows with a short or a long prefix
Deliver ==
    /\ phase = "coded"
    /\ \E tail \in {<<>>, <<0, 0, 1, 9>>, <<0, 0, 0, 1, 9>>} :
          d' = [R!ProcessNalUnit(R!FindStartCode(e.buf \o tail)) EXCEPT !.ofst = 8]
    /\ phase' = "parse"
    /\ UNCHANGED <<e, wrote, start, read>>

\* what the reader makes of the next element
Get(el) ==
    CASE el.kind = "u"  -> LET r == R!GetBits(d, Len(el.bits))
                           IN [ok |-> r.sym = Value(el.bits), d |-> r.d]
      [] el.kind = "ue" -> [ok |-> R!Uev(d).sym = el.value, d |-> R!Uev(d).d]
      [] el.kind = "se" -> [ok |-> R!Sev(d).sym = el.value, d |-> R!Sev(d).d]
      [] el.kind = "bin" -> LET r == R!DecodeBin(d, el.state)
                            IN [ok |-> r.sym = el.value, d |-> r.d]
      [] el.kind = "bypass" -> LET r == R!DecodeBypassBins(d, Len(el.value))
                               IN [ok |-> r.sym = el.value, d |-> r.d]
      [] el.kind = "end" -> LET r == R!DecodeTerminate(d)
                            IN [ok |-> r.sym = el.value, d |-> r.d]

\* the engine is set up when the first bin is to be read
ParseElement ==
    /\ phase = "parse"
    /\ read \in 0..(Len(wrote) - 1)
    /\ LET el == wrote[read + 1]
           got == Get(el)
       IN IF el.kind \in {"bin", "bypass", "end"} /\ d.range = 0
          THEN d' = R!InitCabacDecEnvirnoment(d) /\ read' = read
          ELSE d' = got.d /\ read' = IF got.ok THEN read + 1 ELSE -1
    /\ UNCHANGED <<phase, e, wrote, start>>

Encode ==
    \/ PutElement \/ CloseUnit \/ StartCabac
    \/ StartMb \/ EncodeBin \/ EncodeBypass \/ EndMb

Next == Encode \/ Deliver \/ ParseElement

Spec == Init /\ [][Next]_vars

----------------------------------------------------------------------------
(* Properties *)

\* What the encoder reports as written the decoder reads back, element by
\* element and bin by bin, whatever was escaped, carried or held back.
RoundTrip == read # -1

\* The bytes behind the start code never imitate one: two zero bytes are only
\* followed by a byte above 3 or by a 3 put there as an escape, before a byte
\* below 4, and the unit does not end in a zero byte.  True also while a carry
\* is still changing the last bytes.
Escaped ==
    LET u == Unit IN
    /\ \A i \in 3..Len(u) :
          u[i - 2] = 0 /\ u[i - 1] = 0 =>
              /\ u[i] >= 3
              /\ u[i] = 3 /\ i < Len(u) => u[i + 1] < 4
    /\ phase = "coded" => u[Len(u)] # 0

\* A carry reaches no further than the last byte of the data written before, and
\* never the slice header in front of it: "we track 0xff as outstanding bytes"
\* and "the first bin cannot result in overflow".
CarryContained ==
    [][phase = "bins" =>
          LET was == R!Unescaped(Unit)
              now == R!Unescaped(Unit')
              n == Len(was)
          IN /\ Len(now) >= n
             /\ SubSeq(now, 1, n - 1) = SubSeq(was, 1, n - 1)
             /\ now[n] # was[n] => now[n] = was[n] + 1 /\ Len(Unit) > start - 4]_vars

\* The decoder's checks for the end of the data never tell it that a unit that was
\* wholly written is too short, when the engine is set up and at the end of a
\* macroblock, nor that elements are left where none is, or none where one is.  The
\* latter needs three bytes: a unit of two, the header and one more, is taken to have
\* a third (ih264d_nal.c:219-232, 347), and MORE_RBSP_DATA is true at its end.  It is
\* asked of picture parameter sets, SEI messages and CAVLC slices, which are longer.
EndInSight ==
    phase = "parse" /\ read >= 0 =>
        /\ d.range > 0 /\ read < Len(wrote) /\ wrote[read + 1].kind = "end" =>
              ~R!ExceedOffset(d)
        /\ d.range = 0 /\ start = 0 /\ Len(Unit) >= 3 =>
              (R!MoreRbspData(d) <=> read < Len(wrote))
============================================================================
