# libavc: a TLA+ verification development

This directory specifies, model-checks and proves properties of libavc, an
H.264/AVC video decoder and encoder in C (with scalable and multiview variants).
Every definition that models code is translated from the source under `src/` and
tied to the lines it stands for in `PROJECT.json` (`map`). `PROJECT.json` also
lists the components, the runs, the mutations each property is tested with, the
hazards of the code and which property covers them, and the theorems.

To repeat a check: `tlc -config MCDecThreads.cfg MCDecThreads` (any module and
`.cfg` named in section 4), and `tlapm JobListProofs.tla` for a module of proofs.

## 1. The system

### Components

| Component | State it keeps | Operations | What makes it correct |
|---|---|---|---|
| Job list (`common/ih264_list.c`) | ring of slots, two counters, terminate flag, mutex | queue, dequeue (blocking or not), terminate, reset, job count | it is a FIFO: no job lost, repeated or overtaken; a blocking reader ends once the list is terminated |
| Encoder row pipeline (`encoder/ih264e_process.c`, `ih264e_me.c`) | two job lists, per-row maps of macroblocks (me, proc, deblk), the bitstream, one flag "somebody entropy codes" | a thread takes row jobs and entropy jobs until both lists are at their end | one writer of the bitstream, in raster order; every row deblocked, not before the row below is coded; errors reported |
| Encoder threads (`encoder/ih264e_encode.c`) | a pool with one mutex, one condition variable, a count and two flags; or threads created per frame | init, activate, sync, shutdown; create, join | nobody works on a frame while the caller prepares the next; no lost wakeup; every frame and shutdown ends |
| Encoder sequence (`ih264e_encode.c`, `ih264e_utils.c`, `irc_picture_type.c`, `common/ih264_buf_mgr.c`) | input list, picture stack, reference list, two buffer managers, the requested picture type | an encode call; set frame type; set GOP parameters | every picture coded once, after its references; enough buffers; recon in display order; the stream ends |
| Decoder threads (`decoder/ih264d_api.c`, `ih264d_thread_*.c`, `ih264d_parse_slice.c`, `ih264d_parse_pslice.c`) | two maps of macroblocks, a map of slice numbers, a table of slices, positions of each thread, start/done states, flags | a decode call, set the number of cores, flush/reset/delete (join) | every macroblock reconstructed once and deblocked in order, also when slices are lost; threads at rest between calls; calls return |
| Decoder picture buffer and display (`decoder/ih264d_dpb_mgr.c`, `ih264d_utils.c`) | short- and long-term lists, display list, buffer statuses | reference marking, gaps in frame numbers, bumping | reference lists as the stream says, each picture shown once in order, buffers returned |
| Encoder rate control (`ih264e_rate_control.c`, `irc_*.c`) | the bits of a period, picture counts, error bits, buffer levels, rate-quality models | pre and post encode, changes of rate and of the intra interval | the budget is that of the pictures left, remainders are paid back, frames that keep to their targets make the buffers neither over- nor underflow |
| Requests (`ih264e_api.c`, `ih264e_encode.c`) | a table of control calls with time stamps, the parameters in force | control calls, some served at once; applied by the encode call; reset | a request is held until its picture, and takes effect with it; a new size starts a sequence |
| Writing (`ih264e_bitstream.c`, `ih264e_cabac.c`, ...) and parsing (`ih264d_nal.c`, `ih264d_parse_cabac.c`, ...) | a word of bits, a run of zero bytes, the arithmetic coder's interval and held back bytes | one per syntax element or bin, flush; start codes, escapes, bit reader | inverse of each other, also through escapes and carries, within the buffer |
| Sample processing (prediction, transforms, filters, motion search, format conversion; also in assembly) | none | pure functions | the standard's arithmetic |
| Scalable and multiview variants (`*/svc`, `decoder/mvc`) | as above, per layer or view | as above | as above |

### How they interact

An application calls one codec instance from one thread. An *encode call* queues
an input picture, takes the next one in coding order from the picture stack,
finds its references and buffers, fills the list of row jobs and lets its threads
work; the caller is one of them. A row is coded, deblocked behind the row below
it, and then queued for entropy coding; threads synchronise through byte maps
polled without a lock and through the two job lists. The call returns when all
threads have left the frame. A *decode call* parses slices and hands macroblocks,
through two byte maps polled without a lock, to a decode thread and with three
cores from there to a recon thread; what is missing is concealed, then the
threads are waited for.

### Hard behaviours

* Lock-free polling of maps written by other threads; flags set under a mutex and
  cleared without it (`ih264e_process.c:2657`).
* Kept threads that outlive a frame: start, done and count must be reset at the
  right moment by the right side (`ih264e_encode.c:331`, `ih264d_api.c:2219`).
* One condition variable for workers and caller (`ih264e_encode.c:292`).
* Errors in the middle of a frame: a full bitstream buffer, a corrupt slice.
* Two rings written ahead of where they are read, by amounts that depend on the
  shape of the GOP (`irc_picture_type.c:658-833`).
* Buffers with no slack, given back by whoever finishes last.

`PROJECT.json` lists these and the others, line by line, under `hazards`.

## 2. Plan

Done, in this order: the job list and its proofs; the encoder's row pipeline with
both ways of running its threads; the encoder's sequence; the decoder's threads;
the decoder's picture buffer and display, with reference marking as its
specification; the encoder's rate control; one NAL unit from the writer to the
reader; the table of requests; and the proofs: the pool and its frames down to the
sequential coder they implement, success of the threads made per frame, the
decoder's threads and their pictures, the table of requests, rate control, the
encoder's sequence without B pictures, and the decoder's references, buffers and
display.

What would come next:

1. `DecPictures` with fields and gaps in frame numbers, and the multiview decoder's
   variant of it (`ih264_dpb_mgr.c`).
2. Format conversion inside the decoder's threads (`u4_fmt_conv_cur_row`).
3. Rate control with B pictures, the quality model and VBR streaming.
4. Proofs: `EncSequence` with B pictures (its order and references, and its buffers
   with recon).

## 3. The modules

| Module | What it is |
|---|---|
| `Fifo` | the value of a job list: its jobs and whether it is terminated |
| `JobFifo` | abstract specification: what a job list promises |
| `JobList` | the ring of `ih264_list.c`, one action per critical section; implements `JobFifo` |
| `JobListProofs` | `JobList`'s invariant and the refinement, proved |
| `EncRows` | the row pipeline: the steps of `ih264e_process_thread` and what it calls. The job lists are `Fifo` values, which `JobList` justifies |
| `FrameCoder` | abstract specification: a picture is written macroblock by macroblock, in raster order, and returned when complete |
| `EncPool` | `EncRows` with the kept pool of threads; implements `FrameCoder` |
| `EncSpawn` | `EncRows` with threads created per frame |
| `EncPoolProofs` | what every step of `ih264e_process_thread` preserves, however the threads are run, and the inductive invariant of one picture, from its first job to its last; then the theorems about `EncPool` (its synchronisation, its frames and `FrameCoder`) and `EncSpawn` |
| `PicStack` | the picture stack of `irc_picture_type.c`, as operators on a record |
| `BufMgr` | the buffer managers of `ih264_buf_mgr.c`, as operators |
| `RefPics` | the reference list `as_ref_set` with its two buffer managers |
| `EncSequence` | the encode call over a sequence of pictures, composed of `PicStack` and `RefPics` |
| `EncSequenceProofs` | the theorems about `EncSequence`, and lemmas about the reference list and its buffers |
| `RateControl` | `irc_bit_allocation.c`, `irc_cbr_buffer_control.c`, `irc_vbr_storage_vbv.c`, `irc_fixed_point_error_bits.c` and what calls them, composed with `PicStack` |
| `RateControlProofs` | the theorems about `RateControl`, and lemmas about the picture stack without B pictures |
| `EncConfig` | the table `as_cfg` and the calls that fill and serve it |
| `EncConfigProofs` | the theorems about `EncConfig` |
| `Bitstream` | the bit writer with emulation prevention, and Exp-Golomb codes |
| `CabacEncoder` | the arithmetic coding engine on top of it |
| `NalReader` | start codes, escapes, the bit reader and the arithmetic decoder |
| `SliceStream` | a NAL unit written through the first two and read through the third |
| `DecRows` | one picture in the decoder's threads: what the parser writes, the steps of the decode and recon thread |
| `DecThreads` | the decode call around `DecRows`: parsing, concealment, starting, waiting, joining |
| `DecThreadsProofs` | the theorems about `DecThreads`: threads between calls, and the pictures of `DecRows` |
| `RefMarking` | reference marking of clause 8.2.5 over sets: the specification of the lists |
| `DpbLists` | the two linked lists of `ih264d_dpb_mgr.c`, node by node, as operators |
| `CodedStream` | the streams the decoder may meet: conforming sequences of pictures |
| `DecPictures` | the decode call's use of the lists, of three buffer managers and of the display list, composed of `DpbLists`, `BufMgr`, `RefMarking` and `CodedStream` |
| `DecPicturesProofs` | the theorems about the references of `DecPictures`, and lemmas about the linked lists and the marking |
| `DecDisplayProofs` | the theorems about its buffers and display, on top of `DecPicturesProofs` |
| `MC*` | the instances for TLC |

**Grain of the steps.** A step is what happens between two points where another
thread may see or change shared state: a critical section, one poll that
succeeds, one macroblock. A poll that fails changes nothing and is no step. A
`cond_wait` that is woken is a step of its own in `EncPool`, where several
threads share the variable; in `DecThreads` each variable has one waiter and the
flag is set under its mutex, so that a wait is a guard. The other modules are
sequential: in `EncSequence`, `RateControl`, `EncConfig` and `DecPictures` a call
(or the first and second half of one) is an action, since what the threads do
inside it is in `EncPool`, `EncSpawn` and `DecThreads`, where a call does not end
before all of them left; in `SliceStream` a syntax element or bin is one.

**What is abstracted.** Samples, coefficients and motion vectors everywhere, and
bits everywhere but in the four stream modules. A macroblock is a position, a
picture its number. Sizes of bitstreams are a choice (fits or overflows), slices
are cut wherever the parser could cut them. Pthread calls do what POSIX says.

**`EncSequence`.** The configuration is a variable that never changes, so that one
run covers several. GOPs are closed and the inter frame interval is fixed, as in
every use of the picture stack by the encoder. `post_encode_skip` is not modelled:
`ih264e_rate_control.c:584` disables it with `0 &&`. The buffer managers' flag
`CODEC` is never set by `ih264e_pic_init`, only released. An overflow is an error
that the application's loop survives. The input list has `MAX_NUM_INP_FRAMES` = 10
slots for up to 8 B pictures; the runs use 4 slots for two, the same ratio at its
tightest. Time stamps grow from 0.

**`RateControl`.** Pictures are I and P, the case the scene change code is for. The
model of quality against rate is an input: any estimate, and frames that miss
their target. The code counts bits in floats; up to 2^24, where the integers of
the model stay, floats are exact.

**`EncConfig`.** Four kinds of requests stand for the twenty: one that starts a
sequence, one that sets a parameter, one that forces a type and one that asks for
headers.

**The stream modules.** Bits and bytes are real. Context models are not: a decision
has any state of a small set, the same on both sides. Which elements follow which
is over-approximated: any header, any bins. The registers of the decoder read
`ReadAhead` bits ahead, 23 in the code and 8 in the run, because TLC's integers
have 32 bits with the sign; fewer bits are renormalised more often, so that every
refill happens.

**`DecThreads`.** Frames only (no fields, no MBAFF). With one core there are no
threads, and with a picture that cannot be started none is started; neither is
modelled. A slice header may be good, bad after its table entry is written, or lead
to a slice that is skipped; slice data may end anywhere, fail anywhere, or
continue. `recon` counts how often a macroblock is reconstructed, and `entry`
remembers what a table entry was written for; nothing but the properties reads
these two. Format conversion inside the threads is left out.

**`DecPictures`.** Complete frames, without gaps in frame numbers. `CodedStream`
generates what a conforming encoder may send for a configuration, and nothing else:
at most `reorder` pictures precede another in decoding and follow it in display,
with counts at or above those of their IDR picture. Beyond conformance it assumes
that, until the next reference picture, at most `trail` pictures follow the last
one in display (`trail` is the delay of the display in the configurations, the most
for which the buffers suffice), that the picture after one with command 5 is a
reference (`quiet`), and that an IDR picture follows a flush (`idrNext`). The runs
that drop an assumption show why it is there (section 6). Some pictures may be
lost before the decoder; then the promises are weaker, as the properties say.

## 4. The runs

Between them the passing runs fire every action. Each property is tested with a
mutation of a definition that models code (`mutants`): TLC finds it violated there.

| Run | Module, `.cfg` | What it asks |
|---|---|---|
| `joblist` | `MCJobList` | two producers, two consumers, a ring of two slots: is it a FIFO, do blocking readers return? |
| `pool` | `MCEncPool` | two workers, two inter coded frames of 4 x 3 macroblocks, spurious wakeups, shutdown and reset: frames never mix, no lost wakeup, one entropy coder, all rows in order and deblocked, `FrameCoder` implemented |
| `pool_live` | `MCEncPool`, `MCEncPoolLive.cfg` | one worker, overflows: frames and shutdowns end |
| `spawn` | `MCEncSpawn` | threads per frame, intra, overflows: frames end, and a success is complete |
| `sequence` | `MCEncSequence` | four configurations (two B pictures; a changing intra interval; none and one reference with overflows; alternate references): coded once, without gaps, in display order, with references that exist, in the buffers there are |
| `config` | `MCEncConfig` | two slots and three requests at any time: held until their picture, in force with it, sequences started |
| `rate` | `MCRateControl` | CBR and VBR, three intra intervals, two bit and frame rates that change twice anywhere, forced I pictures, scene changes, missed targets: counts in phase, budget balanced, remainders paid, buffer levels within bounds |
| `stream` | `MCSliceStream` | a NAL unit of any elements or arithmetic coded bins, in a buffer that is wide enough or not: read back as written, no start code inside, its end noticed, the carry contained |
| `dec` | `MCDecThreads` | two pictures of 2 x 2 macroblocks, two or three cores, kept or created threads, every way to lose slices, one of the second picture's skipped: reconstructed once, deblocked in order, threads at rest, entries of this picture, calls return |
| `dpb` | `MCDecPictures` | nine configurations with every stream of four to six pictures: lists in step with `RefMarking`, buffers held for a reason and sufficient, shown once, in order and intact |

`pool_lost_error` and `dpb_mmco5` end with a counterexample, each against a
sentence of the repository (quoted under `findings`):

* `pool_lost_error`: a pool worker whose entropy job overflows returns with its
  error, is let into the same frame again and resets it (`ih264e_process.c:2574`):
  the frame is reported as a success, incomplete. `FrameDone` and the refinement
  of `FrameCoder` are therefore checked without overflows in the pool.
* `dpb_mmco5`: the flag of memory management command 5 is cleared by the next
  reference picture only (`ih264d_dpb_mgr.c:879`); a picture that is none, coming
  first, empties the reference lists again (`ih264d_parse_slice.c:764`).

**Bounds.** *Threads.* Four rows are the least with a row that has neighbours with
neighbours of their own on both sides; three columns the least where "above
right" is neither the first nor the last column. Two frames show everything that
survives a frame (lists, maps, flags); a third begins in the same states. Two
workers and the caller are the least where two workers race while a third waits.
A 2 x 2 picture has a slice boundary inside a row and at its end, a first and a
last row; slices of every length, and up to one per macroblock with one to spare,
occur. A slice is skipped in the second call, where the entries of the first are
still in the table. The ring of two slots wraps twice.

*Sequences.* The pictures of a `sequence` run are enough for the ring of the picture
stack and of the input list to wrap, for a whole GOP and the start of the next,
and for the end of the stream to fall on every position of a sub-GOP. In `config`
the table has 2 slots instead of 32: three requests fill it, reuse a slot and
overwrite one. In `rate` the rates are small and do not divide each other, so that
every division has a remainder; four pictures are more than a second, and more than a
period (of three pictures with a constant bit rate, of three GOPs of one picture in
VBR). The bit rate goes up and down, and the estimates include one of 500 bits, which
no buffer holds.

*The stream.* Four bypass calls of up to 16 bits carry past a byte, hold bytes back
and escape; a buffer of 12 bytes is too small for some units and one of 24 is not.
`MinStreamSizeMb` = 14 is what the longest macroblock of the run needs with its escapes
and the flush. The code's constant is 1024 (`MIN_STREAM_SIZE_MB`); that it suffices for
the longest macroblock of H.264 as this encoder writes it is not checked here.

*The decoder's pictures.* Frame numbers below 4 wrap; 4 nodes (`MAX_REF_BUFS`) and 3
places in the display list (`MAX_FRAMES`) are what the configurations' one to
two references and delays of up to three need, 8 picture buffers (twice
`H264_MAX_REF_PICS`) more than that. Order counts of a period stay below 64, which
separates the keys of two periods. Shared buffers are at least 3 (6 in the code). Each configuration has a stream as long as its case
takes: two references and two commands in one picture, a reordered picture across
an IDR picture and a flush, a lost reference; six pictures where the display trails
the last reference (`Trailing`), since with five the buffers suffice in any case.

**Fairness.** Each thread inside a frame or a call is weakly fair: its steps are
the calls of a scheduled thread, and a poll or wait that can go on is reached
again, since the polls yield in a loop and the waits are in a loop with their
predicate. The application is not fair: it need not make another call. With two
pool workers that is not enough for the end of a frame, which comes at an instant
when no worker is inside, while the two may leave and re-enter in turns for ever
(`ih264e_encode.c:287`). So `CallReturns` is checked with one worker. In the job
list only the blocked readers are fair, and only a list that stays terminated is
promised to release them. `DecPictures` has no threads; it is fair to the
application's loop, which is what examples/avcdec/main.c does: it feeds what the
stream has, returns shared buffers, and at the end flushes until nothing comes.
`EventuallyShown` is a promise to such an application only.

## 5. What is proved

For every value of the constants, by TLAPS:

* `JobListProofs!ListInvariant`: `Spec => [](TypeOK /\ RingSound)`, for any ring
  size, jobs and threads. The invariant `ListInv` adds to the types that the write
  counter is never more than a ring ahead of the read counter (`NoOverrun`) and
  that every slot in between holds the job queued there (`PendingFilled`). Both are
  needed: the store of a job overwrites the slot of its counter modulo the ring
  size, and that this is no pending slot is the arithmetic of `SlotInjective`.
* `JobListProofs!ListImplementsFifo`: `Spec => ImplementsFifo`, the refinement to
  `JobFifo`, from the same invariant: the initial states map, and each step maps to
  a step or a stutter (`RefineStore`, `RefineTake`, `RefineStep`).
* `EncPoolProofs!PoolSafe` and `WakeupsSeen`: `TypeOK`, `Quiescent`, `WorkingCount`
  and `NoLostWakeup` of `EncPool`, for any finite set of workers and any picture size. `PoolInv` says
  that without a frame no worker is inside, that the caller is outside only when
  there is no frame, and that the count is the cardinality of the workers inside.
  `Activate` sets the count to 0 without looking: it is exact because of the first
  two parts. Assumed: the workers are finitely many (`PoolAssumption`).
* `EncPoolProofs!EntropySafe`: `Spec => []EntropyExclusive`. The flag is set under the
  entropy mutex and cleared without it. `EntInv` adds that the mutex is held across
  steps only by a thread in the blocking dequeue, while nobody entropy codes, so
  that such a thread sets a flag that is clear.
* `EncPoolProofs!DeblockingSafe`: `Spec => []DeblockLags`. `LagInv` adds, for each
  place of a thread, what it has marked of its row in the proc map; a row is
  deblocked only by the thread at "dblk" of the row below, which it has coded.
* `EncPoolProofs!FramesComplete`: `Spec => []FrameDone`. `FrameInv` describes a picture
  in work by three marks (`Pic`): p rows have been taken from
  the process list, the first q of them are coded and queued, e of those have been
  taken again. The lists are the runs of rows between the marks. Rows finish in
  order because the last macroblock of a row waits for the row above to be marked,
  and a row is marked after it is queued; that is why the thread at the end of a
  row has row q, why no row finds the row above undeblocked and skips it, and why
  the list is terminated after its last job. Main leaves only when the entropy list
  is empty and terminated, or with an error (`MainDone`). `Written` ties the bitstream
  to e and to the position of the entropy coder.
* `EncPoolProofs!FramesImplementCoder`: `Spec => ImplementsFrameCoder`, the refinement
  to the sequential coder, from the same invariant. Assumed: every write fits
  (`MayOverflow = FALSE`), since otherwise it is false (`pool_lost_error`). Of all
  steps only the beginning and end of a frame, the write of a macroblock and the
  synchronisation are visible in `FrameCoder`.
* `EncPoolProofs!SuccessComplete`: `SpawnSpec => []SuccessIsComplete`, also when writes may
  not fit. `SpawnInv` uses the same `Pic`, and says that once a job failed the failure
  stays visible until the frame is handed back (`Failed`): a thread made for the
  frame enters it once, and clears its error only then (`NoErrorBefore`). This is
  the step that has no proof in the pool, where a thread enters again.
* `DecThreadsProofs!ThreadsAtRest`: `Spec => []Quiescent` for any number of cores up to
  three, rows, slices and calls. `DInv` gives each thread one of three states (not
  there, kept, made for one picture) and says which threads are at rest by where
  the call is. Assumed: the number of cores is not lowered while kept threads
  exist (`MayLower = FALSE`); the invariant needs that the recon thread exists only
  with three cores, since with fewer it is started and not waited for.
* `DecThreadsProofs!EntriesOfThisPicture`, `DeblockingLags`, `PicturesDone`:
  `ParsedUnlessSkipped`, `DeblockLags` and `FrameDone` for pictures of any size, any
  number of calls, and every way slices are cut, lost, refused or skipped. `PicInv`
  says where each thread is by one number: the decode thread has reconstructed the
  first f macroblocks, and the recon thread has reconstructed the first r and deblocked all of
  them at the end of a row, or else all but the last one
  (`DecPlace`, `ReconPlace`), each inside the slice its table entry names. What makes
  this inductive is `Numbers`: the map of slice numbers grows with the macroblock
  number (`Ordered`), and an entry of the table begins at or before the macroblocks
  numbered with it (`Begun`), so that a thread that leaves a slice finds the next
  entry. Assumed, besides
  `MayLower = FALSE`: for the first, the table the code allocates, one entry per
  macroblock (`NumMbs <= MaxSlices`; `ih264d_utils.c:2085`); it says nothing of calls in
  which a slice is skipped. For the other two, an entry for every slice there may be,
  the skipped ones included (`EnoughEntries`). With the table of the code that is every
  call in which no slice is skipped, since a picture has at most one slice per
  macroblock; a skipped slice takes a number more. The run `dec` has that one entry
  more, so that it checks the case with a skipped slice as the theorem states it.
* `EncSequenceProofs!BuffersAreThere`: `Spec => [](Single \/ NoWait => BuffersSuffice)`,
  for any number of references. The reference list is searched by the counts of its
  entries, the buffers by their statuses, and nothing in the code ties an entry to a
  buffer. What does is `Kept`: a picture in entry i has picture buffer `MaxRef` - i, since
  unused entries are taken from the last down and free buffers from the first up
  and both are given back together (`Placed`); a buffer of motion vectors is in use for
  each reference and for nothing else (`Paired`); and at most two pictures are kept for
  prediction (`Two`), where the code marks the older ones unused before it looks for an
  unused entry. Each operator on the list is shown to keep it (`DiscardFacts` and
  `FreedFacts` for the references marked unused, `WithKept` for the picture that enters,
  `DoneFacts` and `ReconFacts` for the marks given up after it).
* `EncSequenceProofs!PicturesCodedOnce`, `OutputGoesOn`, `OutputInOrder`, `ReferencesFit`
  and `IdrPicturesFollow`: `CodedOnce`, `NoGaps`, `DisplayOrder`, `RefsFit` and `IdrHonoured`
  where `Single` holds (no B pictures), for any intervals, references, requests, skipped
  sources and calls without a picture, from one invariant, `SingleInv`. Its parts: a
  picture is put on the stack where the next one is read (`StackInv`), so that every
  call codes the picture it brings and numbers it on (`CodedInv`); an entry of the list
  is the picture coded under its count (`Numbered`, `Linked`), so that a reference found
  there is earlier and, the entries before an IDR picture having been marked unused,
  not before the last IDR picture (`RefsInv`); the pictures coded and not yet given back
  are exactly those marked as waiting for output, and there is at most one between two
  calls (`Waiting`, `Listed`), so that the smallest count is the next recon (`ListInv`);
  and the flush has one call to give it back (`EndInv`). The references of a P picture
  and the place for a picture depend on each other through the list: `Kept` is part of
  the same invariant.

  The hypotheses exclude what section 6 reports and nothing else without B pictures:
  the interval does not become 1; a picture that overflows is a reference
  (`Overflows => AltRef = 0`), for the release that an overflow skips is that of a
  picture kept for nothing; and with one reference, alternate references and recon
  are not combined. `OutputGoesOn` assumes besides that no source is skipped in the
  flush. `NoWait` is any stream with B pictures without recon and overflows. In the run
  `sequence` two of the configurations meet `Single` (`NoB`, `AltRefs`), one meets `NoWait`
  (`Changing`), and one neither (`TwoB`).
* `DecPicturesProofs!StaysInStep`: `Spec => [](quiet /\ idrNext => InStep)`, for any
  numbers of nodes, references, frame numbers, indices, commands and pictures. A
  list is described by the sequence of its nodes (`ShortChain`, `LongChain`: the head is
  the first, each links to the next, the count is the length, and just these nodes are
  in use for it), so that following links becomes indexing (`ShortAtIs`, `LongAtIs`),
  and each operation of `ih264d_dpb_mgr.c` is shown to do to the sequences what it
  should (`UnlinkFacts`, `DeleteLongFacts`, `InsertLongFacts`, `SetMaxLongFacts`,
  `DropLastFacts`, `DropRepeatedFacts`, `ResetRefsFacts`). `Agree` relates the nodes to a
  marking; a command obeyed by the lists and applied to the marking keeps it
  (`CommandObeyed`), hence a list of commands does (`CommandsObeyed`, by the least
  prefix for which it would fail). The search for a short-term picture compares
  numbers assigned when the picture began, which `Numbered` keeps equal to the numbers of
  the marking. `StepInv` needs besides that buffers in the lists keep their REF flag, so
  that no new picture is decoded into one (`Referenced`); that frame numbers in the lists
  differ; that they hold at most `numRef` pictures, so that a node is free (`AssignFacts`, `SizeIs`);
  and that the list is in the order in which the pictures came, so that its last node
  is the one the sliding window names (`NextOrder`, `SlideIs`). Commands a stream may
  send are characterised by `Legal` (`CommandListsLegal`). The two hypotheses hold
  in every configuration of the run `dpb`; `dpb_mmco5` shows the first is needed, and
  without the second a picture refers to buffers that a flush gave away. Assumed of
  the constants (`ConfigsAssumption`): fewer references than nodes, as 16 and 32, and
  indices below the 255 that stands for none.
* `DecPicturesProofs!Walks`: `Spec => []Walkable`, the part of `InStep` that says the
  lists can be walked by their counts, without those hypotheses: also after losses
  and failed commands.
* `DecDisplayProofs!HoldsForReason`: `Spec => [](Fits(conf.c) => HeldForReason)`;
  `Suffices`: `Spec => [](Fits(conf.c) /\ (shared => ~lossy) => BuffersSuffice)`;
  `ShowsInOrder` and `KeepsSamples`: the same for `DisplayOrder` and `SamplesKept`. For any
  numbers of buffers, references, places and pictures, with flushes, IDR pictures and
  command 5 anywhere, all from one invariant, `DispInv`. It extends `StepInv` by the flags
  of the buffers (`Flags`: IO on what waits, is queued or is with the application, REF on
  what is in the lists, and on nothing else), by those of the motion vectors (`MvFlags`),
  by the order of display, and by two counts.
  Order: keys are numbers over all periods, and a key is `Passed` when no picture
  may come before it any more, that is when more than `reorder` pictures of its period
  have been sent after it. `InOrder` says that shown, queued and waiting pictures rise,
  and that what is shown or queued has been passed. A picture is queued only when as
  many wait as the delay (`Due`); it is the first of more than `reorder` pictures, hence
  passed. Between periods the base of the order counts takes the place
  of the list (`EndBase`).
  Count: the buffers in use are those of references, at most `numRef`, and those that
  wait or are queued, at most the delay and one (`Counts`). That is as many as there are
  buffers, so one has to be in both sets: the last reference (`LastRef`) is still to be
  shown, unless all that wait come after it, and then they are at most `trail`
  (`Sending`). This is where `trail <= delay` is needed, and section 6 shows what
  happens otherwise.
  `Fits`, next to the constants of `DecPictures`, is the hypothesis: what the streams do
  stays within what `ih264d_init_pic` sizes for. Reordering is below the delay (always so
  with VUI), the trail and the places in the display list are enough for the delay,
  `delay + numRef + 1` buffers are not clipped to the maximum, and periods do not
  overlap. It excludes pictures that fit only when clipped: 16 references with a delay of
  16 need 33 buffers, and 32 are made. `Suffices` with shared buffers is said of streams without
  losses, because a buffer kept by a failed command then leaves the call waiting. After a
  loss the other three promise nothing (they are stated `~ lost`), and `Suffices` that no
  more wait than the delay. All nine configurations of the run `dpb` meet these
  hypotheses (`ConfigsFit`, which TLC evaluates), and `DispInv` was checked on them before it was
  proved.
* `EncConfigProofs!RequestsHeldInv`: `Spec => []RequestsHeld`, for any size of the
  table, any parameters and any number of requests. `RequestsHeld` compares the
  table with the set of open requests; it is not inductive, since two slots with
  the same request would both be freed by one step. `IInv` adds that every request
  in the table has a number already given (`Numbered`) and that no number is there
  twice (`NoneTwice`). That the search for a free slot ends at the first one is
  `FirstExists`, from the well-foundedness of the naturals.
* `EncConfigProofs!RequestsTakeEffect`: `Spec => TakesEffect`, from the same `IInv`. The
  table is served by a recursive function (`ServedTo`, the loop over `as_cfg`). That it
  is what its definition says, and that what holds of a slot if of the one before holds
  of all (`ServedToIs`, `SlotInduction`), are proved from the least slot for which it
  would fail; `ServedAs` is what the first i slots leave of the codec.
* `EncConfigProofs!SequencesStart`: `Spec => SequenceStarts`. `SInv` says what becomes of a
  sequence that has to start: it is the first, or the next picture is forced to be an
  IDR picture, or a first call was refused and the codec has no buffers, so that no
  picture comes (`StartForced`); and when the header in the stream is of the current
  size (`HeaderFits`). Assumed: no I picture is asked for (section 6).
* `RateControlProofs!GopsInPhase`: `Spec => []GopInPhase`, for any intervals, rates and
  misses. `PicsInv` describes the picture stack without B pictures: the P pictures of
  the GOP have been counted, no reordering is pending, and a picture goes where the
  next one is read. `PutInPhase` says what a call puts on the stack by one number, its
  place in the GOP, and `CountsInPhase` what that does to the counts. Assumed (`Apart`):
  no I picture is forced while a change of the interval waits, and the interval does
  not become one picture; both break it (section 6).
* `RateControlProofs!BudgetKept`: `Spec => []BudgetBalanced`. The proof is about the
  surplus of the budget, its bits less those of the frames left (`Surplus`): resizing
  the GOP, changing the rates, the number of GOPs in the period or the frames left
  changes it by nothing, a frame by its share (`ResizeFacts`, `ChangePeriodFacts`,
  `AfterFrameFacts`). `Balanced` adds the frames of a GOP cut short, whose bits come when
  the model is trained. Assumed: none of the three corner cases (`Corners = {}`).
* `RateControlProofs!SecondsArePaid`: `Spec => []SecondsPaid`, without assumptions.
  `Settled` adds that a second is counted in frames of the first frame rate, and that
  the duration of a frame and its share are those of the current rates.
* `RateControlProofs!BuffersHold`: `Margins => (Spec => []BufferHolds)`, for any changes of
  the rates, up or down. `Margins` is what the thresholds leave room for: with a constant
  bit rate, no frame with a target exceeds it by more than drains in a frame; in VBR
  storage, by more than flows in during one, and the frame rate is a whole number. Of
  frames coded before the model is trained nothing is assumed. `BufferHolds` excuses what
  they drop or lack, and the bits a lower rate has left above the smaller buffer
  (section 6); its VBR part speaks of unchanged rates only. The whole number is
  needed: with 29.97 frames a second
  the seconds have 29 or 30 frames, the bits settled after a long one are taken back,
  and the buffer lacks them beside the miss of a frame.

Constants are constrained by `ListAssumption`, `RowsAssumption`, `PoolAssumption` and
the like, next to their declaration; besides these and the conditions named above
nothing is assumed. The constants of the runs meet these conditions. A condition that
excludes behaviour is there because the code does not keep the promise without it;
section 6 says what happens then.

Only model-checked: everything under fairness (`ReadersReleased`, `CallReturns`,
`FrameReturns`, `EventuallyShown`), which the prover cannot do; the sequence with B
pictures, but for its buffers without recon, since its order depends on the
arithmetic of two rings and of the shapes of sub-GOPs; the stream, where a fold over
bits has to be inverted by another. No module has a RECURSIVE operator: repetition is written with folds and
recursive functions.

## 6. What the runs leave out

### Behaviour seen outside the runs

The passing runs stay inside assumptions. Each of these was met while modelling or
by running TLC without the assumption; none is an input of a passing run.

The job list:

* The headers of `ih264_list_queue` and `ih264_list_dequeue` say "Wrap around is not
  supported" (`ih264_list.c:417-418`, `498-499`), while `ih264e_api.c:3550` allocates "for
  two pictures, so that wrap around can be handled easily". Both functions mask their
  counters (446, 527), and neither counter is more than a ring from the other, so that
  the ring is right when they go round it: `joblist` has a ring of two slots that wraps
  twice, and `ListImplementsFifo` holds for any number of jobs. The property therefore
  promises more than the headers, whose remark looks stale. The encoder does not rely on
  it: its lists have room for a picture's jobs and are reset after every picture
  (`ih264e_encode.c:981-983`).

Picture order and references of the encoder:

* With an intra interval of NumB + 1 the picture stack moves its write index too far
  (`irc_picture_type.c:816`), and output stops, against `NoGaps`. Passing runs use
  longer intervals.
* Alternate references with B pictures leave a B picture with one reference
  (`ih264e_utils.c:1505`, `:1625`), against `RefsFit`.
* The intra interval changes to 1 (`changes` with 1): the picture stack loses its
  order (`irc_picture_type.c:920`), against `NoGaps`.
* One reference, alternate references and recon, without B pictures: no unused
  entry is left (`ih264e_utils.c:1732`), against `BuffersSuffice`.
* An overflow in a picture that is no reference (a B picture, or a P picture with
  alternate references): the last row's release is skipped (`ih264e_process.c:2316`)
  and buffers run out, against `BuffersSuffice`.
* An IDR request with B pictures can be used up by an I picture that was on the
  stack already (`ih264e_utils.c:337`); `IdrHonoured` is stated for
  streams without.
* The end of the stream marked on a picture, without recon: `u4_is_last` is
  reported one sub-GOP early (`ih264e_utils.c:425`), against `CodedOnce`.
* A source skipped while the encoder is flushed (`ih264e_utils.c:240`; `skips` with
  "flush"): the flush ends with pictures left, against `CodedOnce`.
* A call without a picture in mid-stream with B pictures and recon: a picture comes
  back ahead of its turn (`ih264e_encode.c:1018`), against `DisplayOrder`.

Requests (`EncConfig`):

* With the table full, a command that is served at once is written past its last
  slot (`ih264e_api.c:6344` and the calls after it), and a queued one replaces the
  oldest. `RequestsHeld` says what is left.
* The table is served in the order of its slots, which are reused, so that of two
  requests for one picture the earlier can be applied last.
* A request for an I picture due with one for an IDR picture undoes it
  (`ih264e_api.c:2354`, `ih264e_encode.c:868`).
* A first call that is refused still counts as the first when it brings a new size
  (`ih264e_encode.c:828`): what the first call sets up is not set up later.
* A request whose time stamp is in the past keeps its slot for ever, and a reset
  keeps the pending ones.
* New dimensions or buffer sizes start rate control again, and with it the picture
  stack: with B pictures the waiting ones are dropped.

Rate control:

* An interval changed to 1 loses the bits of one picture, and when it is 1 a new one
  is never applied. A picture forced to I to which a change of the interval
  applies leaves the counts out of phase (`irc_picture_type.c:1111`). A change of
  the rate, or a second forced I picture, while the bits of a forced one wait to be
  spread loses them.
* In VBR the bits saved in one period are meant to be given to later ones
  (`irc_bit_allocation.c:767-774`), but the flag `b_saved_bits_gt_zero` is set when
  they are below zero, so that positive ones are never given (`SavedGiven`, which no
  passing run checks). 
* A lower CBR rate shrinks the buffer under its level (`irc_cbr_buffer_control.c:524-605`
  sets the size and the thresholds and leaves `i4_cbr_buffer_level`), and the next update
  drops what is above the size, where its trace says "Should not be coming here"
  (371-375), although no frame missed its target. `BufferHolds` does not count
  those bits; the run has lower rates, and levels above the size.
* Frames coded before the model is trained have no target: their quantizer is that of
  the configuration, and nothing bounds their size. In the run they take up to 500 bits,
  more than either buffer holds. What they drop from the CBR buffer is not counted, and
  what they take from the decoder's buffer in VBR is excused until it is filled again.
* Above 2^24 the counts of bits are rounded, being floats.

The decoder's threads:

* Lowering the number of cores with kept threads: the recon thread is started but
  not waited for (`ih264d_api.c:2761`), against `Quiescent`. Passing runs do not
  lower it while that thread exists (`MayLower`). The application's thread and the
  recon thread may then both convert the same rows (`ih264d_api.c:2876`).
* A skipped slice has a number but no table entry (`ih264d_parse_slice.c:1507`); a
  thread reads the entry of an earlier picture. The entry decides where the thread
  continues, and the recon thread's deblocking may move to the wrong macroblock.
  `ParsedUnlessSkipped` is stated for the other macroblocks.
* With two cores a picture that is concealed altogether is not deblocked
  (`u4_start_recon_deblk` is never set); `FrameDone` says so. It is harmless, since
  such a picture has no edges to filter.

The decoder's pictures:

* When more pictures than the display delay follow the last reference in display
  before the next reference comes, all `delay + numRef + 1` buffers are taken: the
  pictures wait, and the last reference, shown before them, is still a reference. The
  next picture is refused (`ERROR_UNAVAIL_PICBUF`), and an IDR picture instead takes
  every buffer back (`ih264d_parse_slice.c:387`) and overwrites one that waits for
  display. A reordering of one and six pictures are enough (`trail` one above the delay). With shared buffers, when no
  buffer is free and none is with the application, the loop at `ih264d_api.c:2330`
  does not end; the comment at 2349 says that any buffer can be reused then.
* A flush shows every picture but leaves the reference lists, so that the buffers
  of references stay in use until the next IDR picture (`idrNext`), against
  `HeldForReason`.
* Without VUI the delay is the size of the picture buffer; a stream that reorders by
  exactly that many is shown out of order.
* After a loss, a command for a picture that never came is an error that keeps later
  references' buffers; the motion vector buffers run out, and an IDR picture can be
  refused (`ERROR_UNAVAIL_MVBUF`).

The stream:

* The flush of the arithmetic coder writes one bit more than needed, and the decoder's
  position at the end of a slice may be one past `u4_max_ofst`; `EndInSight` states
  the checks the decoder makes, which neither disturbs. Bytes behind
  the end of the data are read ahead but change nothing that is decoded.
* A NAL unit of two bytes is taken for one of three: `ih264d_process_nal_unit` takes three
  before it looks at the length (`ih264d_nal.c:219-232`), so that `u4_max_ofst` is 24 (347),
  and 15 once the trailing bits are gone. `MORE_RBSP_DATA` is then true with nothing left.
  The run has such units, of an encoder that closes a unit without writing into it, and
  `EndInSight` does not speak of them. The reader asks for the end of the data in
  picture parameter sets, CAVLC slices and SEI (`ih264d_parse_headers.c:420`,
  `ih264d_parse_islice.c:874`, `ih264d_parse_pslice.c:1245`, `1361`, `ih264d_sei.c:1112`); those
  this encoder writes have three bytes or more.

### Not modelled

Most of the repository's lines are tables (the CABAC contexts alone are 25000),
kernels on samples with their variants for four architectures, and the scalable
and multiview codecs, which repeat the structures modelled here. The map covers
the control of the two single layer codecs; what is left has no state that
survives a call of a function. In particular:

* Sample processing: prediction, transforms, filters, motion search, padding, format
  conversion, concealment of samples. Only when and by whom it is done is modelled.
* Parsing and writing of headers, SEI, VUI and macroblock syntax: computation from
  bits to structures and back, with range checks. The bit and bin level under it is
  in `SliceStream`.
* Frame rate conversion and time stamps of the encoder (whether a source picture is
  skipped is an input), the quality model of rate control, VBR streaming.
* Fields, MBAFF, gaps in frame numbers and ASO in the decoder; one core in
  `DecThreads`.
* The scalable encoder and decoder and the multiview decoder.
* Memory: records, alignment, allocation and its failures.
* Thread wrappers (their POSIX meaning is used), examples, tests and fuzzers.

`PROJECT.json` gives the reason for each component.
