----------------------------- MODULE EncConfig ------------------------------
(***************************************************************************)
(* The encoder's table of requests (as_cfg, encoder/ih264e_api.c, ih264e_ctl) *)
(* and the calls of ih264e_encode that serve them.  A control call stores a  *)
(* request with the time stamp of the picture "from which this command takes *)
(* effect", or -1 for the next one; a call of ih264e_encode serves what is   *)
(* due in the order of the table, which is not that of the requests.         *)
(*                                                                         *)
(* Four kinds of requests stand for the twenty there are: SIZE              *)
(* (SET_DIMENSIONS) starts a new sequence, RATE sets a parameter and nothing *)
(* else (SET_BITRATE and most others), TYPE forces a picture's type and MODE *)
(* asks for headers instead of a picture (SET_ENC_MODE).  There are no B     *)
(* pictures here (EncSequence has them): a picture is coded by the call that *)
(* brings it.                                                               *)
(***************************************************************************)
EXTENDS Integers, FiniteSets

CONSTANTS
  Slots,            \* MAX_ACTIVE_CONFIG_PARAMS
  Sizes,            \* the picture sizes the application may ask for
  Rates,            \* the values of any other parameter
  Intra,            \* u4_i_frm_interval
  IdrInterval,      \* u4_idr_frm_interval
  Types,            \* the picture types it may ask for
  LastStamp,        \* bound: the time stamp of the last picture
  MaxRequests       \* bound: the number of control calls

ASSUME EncConfigAssumption ==
  /\ Slots \in Nat \ {0} /\ Intra \in Nat \ {0} /\ IdrInterval \in Nat \ {0}
  /\ Types \subseteq {"I", "IDR"}
  /\ LastStamp \in Nat /\ MaxRequests \in Nat
  /\ Cardinality(Sizes) > 1 /\ Cardinality(Rates) > 1

VARIABLES
  table,        \* as_cfg: the request of each slot, or Free
  cfg,          \* s_cfg: the size and the rate
  force,        \* force_curr_frame_type
  headerMode,   \* i4_header_mode
  genHeader,    \* i4_gen_header
  headed,       \* u4_header_generated
  called,       \* i4_encode_api_call_cnt >= 0
  bufs,         \* the buffer managers have been given their buffers
  picCnt,       \* i4_pic_cnt
  gop,          \* i4_pic_disp_order_no: the place of the next picture in its GOP
  stamp,        \* the time stamp of the next picture
  made,         \* the number of control calls
  open,         \* history: the requests that are not due yet, nor overwritten
  start,        \* history: a sequence has to start with the next picture
  header,       \* history: the size in the last header of the stream
  pic           \* history: the last picture coded

codec == <<cfg, force, headerMode, genHeader, headed, called, bufs, picCnt, gop>>
history == <<open, start, header, pic>>
vars == <<table, codec, stamp, made, history>>

NONE == "none"
Now == -1
SlotIds == 1..Slots
Free == [cmd |-> NONE]

\* The requests, by kind.  FLUSH stands for the commands that are served at once
\* (FLUSH, GETBUFINFO, GETVERSION, SETDEFAULT and any that is not known).
Wishes ==
  [cmd : {"SIZE"}, val : Sizes] \cup [cmd : {"RATE"}, val : Rates]
    \cup [cmd : {"TYPE"}, val : Types]
    \cup [cmd : {"MODE"}, val : {"header", "picture"}]

Request(w, ts) == [cmd |-> w.cmd, val |-> w.val, ts |-> ts, id |-> made]

Init ==
  /\ table = [i \in SlotIds |-> Free]
  /\ cfg \in [size : Sizes, rate : Rates]
  /\ force = "NA" /\ headerMode = FALSE /\ genHeader = FALSE /\ headed = FALSE
  /\ called = FALSE /\ bufs = FALSE /\ picCnt = -1 /\ gop = 0
  /\ stamp = 0 /\ made = 0
  /\ open = {} /\ start = TRUE /\ header = NONE
  /\ pic = [stamp |-> -1, type |-> NONE, size |-> NONE]

-----------------------------------------------------------------------------
(* Control calls. *)

FreeSlots == {i \in SlotIds : table[i] = Free}
TableFull == FreeSlots = {}

\* The first free slot, and the head of the table if there is none.
Slot == IF TableFull THEN 1
        ELSE CHOOSE i \in FreeSlots : \A j \in FreeSlots : i <= j

CtlCall == made < MaxRequests /\ made' = made + 1

\* Mutant of Store: the search for a free slot ends one slot early.
StoreEarly(r) ==
  LET i == IF FreeSlots \ {Slots} = {} THEN 1 ELSE Slot
  IN table' = [table EXCEPT ![i] = r]

Store(r) == table' = [table EXCEPT ![Slot] = r]

Overwritten == IF TableFull THEN {table[1]} ELSE {}

\* A request to be served by a later call of ih264e_encode.
Set(w, ts) ==
  LET r == Request(w, ts)
  IN /\ CtlCall
     /\ Store(r)
     /\ open' = (open \ Overwritten) \cup {r}
     /\ UNCHANGED <<codec, stamp, start, header, pic>>

\* A command that is served at once: its slot is freed again.  With a full table
\* the slot that is freed is one past the end; the head keeps its parameters
\* and its time stamp, but not its command.
AtOnce ==
  /\ table' = IF TableFull THEN [table EXCEPT ![1].cmd = "FLUSH"] ELSE table
  /\ open' = open \ Overwritten

Flush ==
  /\ CtlCall /\ AtOnce
  /\ UNCHANGED <<codec, stamp, start, header, pic>>

\* IVE_CMD_CTL_RESET: what ih264e_init sets.  The parameters and the table of
\* requests stay.
Reset ==
  /\ CtlCall /\ AtOnce
  /\ force' = "NA" /\ headerMode' = FALSE /\ genHeader' = FALSE
  /\ headed' = FALSE /\ called' = FALSE /\ bufs' = FALSE /\ picCnt' = -1
  /\ start' = TRUE
  /\ UNCHANGED <<cfg, gop, stamp, header, pic>>

-----------------------------------------------------------------------------
(* A call of ih264e_encode. *)

IsDue(r) == r # Free /\ r.ts \in {stamp, Now}

\* Mutant of Update: a new size does not force an IDR picture.
UpdateUnforced(c, r) ==
  CASE r.cmd = "SIZE" /\ r.val # c.size ->
         [c EXCEPT !.size = r.val, !.gen = TRUE, !.gop = 0]
    [] r.cmd = "RATE" -> [c EXCEPT !.rate = r.val]
    [] r.cmd = "TYPE" -> [c EXCEPT !.force = r.val]
    [] r.cmd = "MODE" -> [c EXCEPT !.mode = (r.val = "header")]
    [] OTHER -> c

\* ih264e_codec_update_config on what it changes.  A new size starts the rate
\* control, and with it the GOP, again.
Update(c, r) ==
  CASE r.cmd = "SIZE" /\ r.val # c.size ->
         [c EXCEPT !.size = r.val, !.force = "IDR", !.gen = TRUE, !.gop = 0]
    [] r.cmd = "RATE" -> [c EXCEPT !.rate = r.val]
    [] r.cmd = "TYPE" -> [c EXCEPT !.force = r.val]
    [] r.cmd = "MODE" -> [c EXCEPT !.mode = (r.val = "header")]
    [] OTHER -> c

\* The codec before the requests are served; the first call initialises the rate
\* control before.
Unserved ==
  [size |-> cfg.size, rate |-> cfg.rate, force |-> force, gen |-> genHeader,
   mode |-> headerMode, gop |-> IF called THEN gop ELSE 0]

\* The codec once the requests of the first i slots that are due have been served.
Serve(c, r) == IF IsDue(r) THEN Update(c, r) ELSE c
ServedTo[i \in 0..Slots] ==
  IF i = 0 THEN Unserved ELSE Serve(ServedTo[i - 1], table[i])

\* Mutant of Served: with the requests of later pictures.
ServedAll ==
  LET to[i \in 0..Slots] ==
        IF i = 0 THEN Unserved
        ELSE IF table[i] # Free THEN Update(to[i - 1], table[i]) ELSE to[i - 1]
  IN to[Slots]

Served == ServedTo[Slots]

\* History: the requests that take effect with this call.
Due == {r \in open : r.ts \in {stamp, Now}}

ServeRequests ==
  /\ table' = [i \in SlotIds |-> IF IsDue(table[i]) THEN Free ELSE table[i]]
  /\ cfg' = [size |-> Served.size, rate |-> Served.rate]
  /\ open' = open \ Due
  /\ UNCHANGED made

\* History: a picture of a new size, or one that is to be an IDR picture.
StartsNow ==
  \/ start \/ Served.size # cfg.size
  \/ \E r \in Due : r.cmd = "TYPE" /\ r.val = "IDR"

\* Headers instead of a picture: the call is not counted, the picture comes again.
EncodeHeader ==
  /\ ServeRequests /\ Served.mode
  /\ force' = "IDR" /\ headerMode' = FALSE /\ genHeader' = FALSE
  /\ headed' = TRUE /\ bufs' = (bufs \/ ~called) /\ gop' = Served.gop
  /\ header' = Served.size /\ start' = TRUE
  /\ UNCHANGED <<called, picCnt, stamp, pic>>

\* Any other call; "gen" and "given" are what it leaves of the header that is due
\* and of the buffers.
Encode(gen, given) ==
  /\ ServeRequests /\ ~Served.mode
  /\ headerMode' = FALSE /\ genHeader' = gen
  /\ called' = TRUE /\ bufs' = given
  /\ UNCHANGED headed

\* A picture of another size is refused, before a first call has done the rest
\* of what only a first call does.
EncodeRefused(size) ==
  /\ Encode(Served.gen, bufs) /\ size # Served.size
  /\ force' = Served.force /\ gop' = Served.gop /\ start' = StartsNow
  /\ UNCHANGED <<picCnt, stamp, header, pic>>

\* The first call asks for a header, unless there is one, and adds the buffers.
Gen == Served.gen \/ (~called /\ ~headed)
Given == bufs \/ ~called

\* No picture comes, or it is skipped for the frame rate.
EncodeNothing(skipped) ==
  /\ Encode(Gen, Given)
  /\ stamp' = IF skipped THEN stamp + 1 ELSE stamp
  /\ force' = Served.force /\ gop' = Served.gop /\ start' = StartsNow
  /\ UNCHANGED <<picCnt, header, pic>>

\* The picture's type: irc_add_picture_to_stack and ih264e_input_queue_update
\* without B pictures.
Cnt == picCnt + 1
IdrDue == Served.force = "IDR" \/ Cnt % IdrInterval = 0
Place == IF Cnt > 0 /\ (IdrDue \/ Served.force = "I") THEN 0 ELSE Served.gop
Type == IF Place # 0 THEN "P" ELSE IF IdrDue THEN "IDR" ELSE "I"

TakePicture ==
  /\ picCnt' = Cnt /\ force' = "NA" /\ gop' = (Place + 1) % Intra
  /\ stamp' = stamp + 1

EncodePicture ==
  /\ Encode(FALSE, Given) /\ Given
  /\ TakePicture
  /\ header' = IF Gen THEN Served.size ELSE header
  /\ pic' = [stamp |-> stamp, type |-> Type, size |-> Served.size]
  /\ start' = (StartsNow /\ Type # "IDR")

\* The first call was refused: there never are any buffers.
EncodeFails ==
  /\ Encode(Gen, Given) /\ ~Given
  /\ TakePicture
  /\ start' = StartsNow
  /\ UNCHANGED <<header, pic>>

VideoEncode ==
  /\ stamp <= LastStamp
  /\ \/ EncodeHeader
     \/ \E size \in Sizes : EncodeRefused(size)
     \/ \E skipped \in BOOLEAN : EncodeNothing(skipped)
     \/ EncodePicture \/ EncodeFails

Next ==
  \/ \E w \in Wishes, ts \in {Now} \cup 0..LastStamp : Set(w, ts)
  \/ Flush \/ Reset
  \/ VideoEncode

Spec == Init /\ [][Next]_vars
-----------------------------------------------------------------------------
\* The requests the table holds.
Held == {table[i] : i \in {j \in SlotIds : table[j].cmd \notin {NONE, "FLUSH"}}}

(* A request that was made is in the table, with its own parameters and time
   stamp, until the call it is due at; then it is in the table no more.  Only a
   full table loses one, that of its head: neither a command that is served at
   once nor a reset, a refused picture or a header touches another. *)
RequestsHeld == Held = open

(* "Lower 32bits of time stamp corresponding to input buffer, from which this
   command takes effect": a call changes a parameter only to what is asked for
   the picture it brings, or for the next one, and if anything is asked for
   then one of these values is in force; with none, what was in force stays. *)
InForce(cmd, old, new) ==
  LET asked == {r.val : r \in {q \in Due : q.cmd = cmd}}
  IN IF made' # made \/ asked = {} THEN new = old ELSE new \in asked

TakesEffect ==
  [][InForce("SIZE", cfg.size, cfg'.size) /\ InForce("RATE", cfg.rate, cfg'.rate)]_vars

(* "since dimension changed, start new sequence by forcing IDR", "a sequence
   needs to be started with IDR": the picture after a new size, a header or a
   reset, and one that an IDR picture was asked for, is an IDR picture, however
   many calls without a picture come in between; and the last header in the
   stream has the size of the picture. *)
SequenceStarts ==
  [][pic' # pic => /\ header' = pic'.size
                   /\ StartsNow => pic'.type = "IDR"]_vars
=============================================================================
