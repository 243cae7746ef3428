----------------------------- MODULE RkvencH264 -----------------------------
(***************************************************************************)
(* The H.264 stream of one encoder context (rkvenc-h264.c): the two        *)
(* reconstruction buffers used in turn, the frame and GOP counters, the    *)
(* parameter sets written once per session, and what user space may change *)
(* in between: controls, formats, buffers and streaming of either queue.   *)
(*                                                                         *)
(* Abstractions:                                                           *)
(*  - a format is its size, a number s, and stands for a square picture of *)
(*    2s x 2s; a buffer is the size of the format it was made for; a queue *)
(*    holds one buffer at a time;                                          *)
(*  - Params stands for the control values that both the PPS and every     *)
(*    slice header depend on (entropy mode, I-frame QP);                   *)
(*  - the contents of a reconstruction buffer are "last" (what a decoder   *)
(*    of the frames delivered so far has as its reference), "old" or       *)
(*    "junk";                                                              *)
(*  - when a job ends, and how, is decided by RkvencJob.                   *)
(***************************************************************************)
EXTENDS Naturals

CONSTANTS
  FrameNumMod,  \* 2^8: RKVENC_H264_LOG2_MAX_FRAME_NUM + 4 bits
  PocMod,       \* 2^8: RKVENC_H264_LOG2_MAX_POC_LSB + 4 bits
  IdrPidMod,    \* 2^16: the width of synt_sli1.idr_pid
  GopSizes,     \* values user space gives to the GOP_SIZE control
  Params,       \* values of the controls the PPS is made of
  Sizes         \* formats of both queues

ASSUME StreamConstantsOK ==
  /\ FrameNumMod \in Nat /\ FrameNumMod >= 2 /\ FrameNumMod % 2 = 0
  /\ PocMod \in Nat /\ PocMod >= 2
  /\ IdrPidMod \in Nat /\ IdrPidMod >= 2
  /\ GopSizes \subseteq Nat \ {0} /\ GopSizes # {}
  /\ Sizes \subseteq Nat \ {0} /\ Sizes # {}
  /\ Params # {}

None  == [none |-> TRUE]
Slots == {0, 1}
Queues == {"cap", "out"}
Parts == {"recn0", "recn1", "meiw"}   \* the buffers ops->start() allocates
AllocOrder == <<"recn0", "recn1", "meiw">>

VARIABLES
  \* struct rkvenc_ctx and its queues
  fmt,          \* ctx->coded_fmt ("cap") and ctx->src_fmt ("out")
  bufs,         \* bufs[q]: vb2_is_busy(), q has buffers
  queued,       \* queued[q]: size of the buffer user space has queued, or 0
  capOn, outOn, \* streaming queues
  \* controls
  params, gopSize,
  \* struct rkvenc_h264_ctx
  frameNum, pocLsb, gopPos, idrPicId, lastFrameWasIdr,
  spsPps,       \* format and controls sps_pps_nal was generated from
  alloc,        \* alloc[p]: length of part p in coherent memory, 0 when freed
  ptr,          \* ptr[p]: recn_buf_cpu[], meiw_buf_cpu is not NULL
  bufSize,      \* pixel, thumb and smear sizes: the format they are for
  recn,         \* recn[i]: contents of reconstruction buffer i
  \* the frame the core is working on
  busy, cur,
  \* history: last frame delivered, last IDR delivered in this session; a
  \* part was freed that was not allocated, or with another length
  sent, sentIdr, misfreed

ctrlVars == <<params, gopSize>>
ctxVars  == <<fmt, bufs, queued>>
h264Vars == <<frameNum, pocLsb, gopPos, idrPicId, lastFrameWasIdr>>
bufVars  == <<spsPps, alloc, ptr, bufSize, misfreed>>
sentVars == <<sent, sentIdr>>
vars == <<ctxVars, capOn, outOn, ctrlVars, h264Vars, bufVars, recn, busy, cur,
          sentVars>>

Headers == [params : Params, size : Sizes]
Frames  == [idr : BOOLEAN, num : 0 .. FrameNumMod - 1,
            pid : 0 .. IdrPidMod - 1, params : Params, size : Sizes,
            src : Sizes, write : Slots, read : Slots]

TypeOK ==
  /\ fmt \in [Queues -> Sizes]
  /\ bufs \in [Queues -> BOOLEAN]
  /\ queued \in [Queues -> Sizes \cup {0}]
  /\ capOn \in BOOLEAN /\ outOn \in BOOLEAN
  /\ params \in Params /\ gopSize \in GopSizes
  /\ frameNum \in 0 .. FrameNumMod - 1
  /\ pocLsb \in 0 .. PocMod - 1
  /\ gopPos \in Nat
  /\ idrPicId \in 0 .. IdrPidMod - 1
  /\ lastFrameWasIdr \in BOOLEAN
  /\ spsPps \in Headers \cup {None}
  /\ alloc \in [Parts -> Nat]
  /\ ptr \in [Parts -> BOOLEAN] /\ misfreed \in BOOLEAN
  /\ bufSize \in Sizes \cup {0}
  /\ recn \in [Slots -> {"last", "old", "junk"}]
  /\ busy \in BOOLEAN
  /\ cur \in Frames \cup {None}
  /\ sent \in Frames \cup {None} /\ sentIdr \in Frames \cup {None}

(* rkvenc_open(): a zeroed context with a default format on both queues. *)
Init ==
  /\ \E size \in Sizes : fmt = [q \in Queues |-> size]
  /\ bufs = [q \in Queues |-> FALSE] /\ queued = [q \in Queues |-> 0]
  /\ capOn = FALSE /\ outOn = FALSE
  /\ params \in Params /\ gopSize \in GopSizes
  /\ frameNum = 0 /\ pocLsb = 0 /\ gopPos = 0 /\ idrPicId = 0
  /\ lastFrameWasIdr = FALSE
  /\ spsPps = None /\ alloc = [p \in Parts |-> 0] /\ bufSize = 0
  /\ ptr = [p \in Parts |-> FALSE] /\ misfreed = FALSE
  /\ recn = [i \in Slots |-> "junk"]
  /\ busy = FALSE /\ cur = None
  /\ sent = None /\ sentIdr = None

-----------------------------------------------------------------------------
(* User space *)

(* rkvenc_h264_s_ctrl() accepts every value at any time. *)
SetControls ==
  /\ params' \in Params
  /\ gopSize' \in GopSizes
  /\ UNCHANGED <<ctxVars, capOn, outOn, h264Vars, bufVars, recn, busy, cur,
                 sentVars>>

(* rkvenc_s_fmt_vid_cap(), rkvenc_s_fmt_vid_out(): refused only while the
   queue itself has buffers. *)
SFmt(q) ==
  /\ ~bufs[q]
  /\ \E size \in Sizes : fmt' = [fmt EXCEPT ![q] = size]
  /\ UNCHANGED <<bufs, queued, capOn, outOn, ctrlVars, h264Vars, bufVars, recn,
                 busy, cur, sentVars>>

(* VIDIOC_REQBUFS: allocate buffers, or free them when the queue does not
   stream; a buffer that was queued is taken back. *)
ReqBufs(q) ==
  /\ ~(IF q = "cap" THEN capOn ELSE outOn)
  /\ bufs' = [bufs EXCEPT ![q] = ~@]
  /\ queued' = [queued EXCEPT ![q] = 0]
  /\ UNCHANGED <<fmt, capOn, outOn, ctrlVars, h264Vars, bufVars, recn, busy,
                 cur, sentVars>>

(* Mutant of QBuf: an imported buffer is taken as it is. *)
QBufUnchecked(q) ==
  /\ bufs[q] /\ queued[q] = 0
  /\ \E size \in Sizes : queued' = [queued EXCEPT ![q] = size]
  /\ UNCHANGED <<fmt, bufs, capOn, outOn, ctrlVars, h264Vars, bufVars, recn,
                 busy, cur, sentVars>>

(* VIDIOC_QBUF of a buffer that was allocated or imported, of any size
   rkvenc_queue_setup() and rkvenc_buf_prepare() let pass. *)
QBuf(q) ==
  /\ bufs[q] /\ queued[q] = 0
  /\ \E size \in Sizes : /\ size >= fmt[q]
                         /\ queued' = [queued EXCEPT ![q] = size]
  /\ UNCHANGED <<fmt, bufs, capOn, outOn, ctrlVars, h264Vars, bufVars, recn,
                 busy, cur, sentVars>>

(* STREAMON and STREAMOFF of CAPTURE; streamoff waits for the running job and
   rkvenc_stop_streaming() returns what is queued. *)
StreamCap ==
  /\ bufs["cap"] /\ ~busy
  /\ capOn' = ~capOn
  /\ queued' = IF capOn THEN [queued EXCEPT !["cap"] = 0] ELSE queued
  /\ UNCHANGED <<fmt, bufs, outOn, ctrlVars, h264Vars, bufVars, recn, busy, cur,
                 sentVars>>

(* Length of a part: both reconstruction buffers have total_size, the
   motion information SZ_4K. *)
Length(p, size) == IF p = "meiw" THEN 1 ELSE size

(* rkvenc_h264_start() has got its first n parts. *)
Got(n) == {AllocOrder[i] : i \in 1 .. n}

(* Mutant of Unwind: only the error path of the last part frees. *)
UnwindLast(n) == IF n = 2 THEN {"recn0", "recn1"} ELSE {}

(* What it frees again when the part after them fails: nothing before the
   first, "if (i)" buffer 0, both buffers; the last is followed by no other. *)
Unwind(n) ==
  CASE n = 1 -> {"recn0"} [] n = 2 -> {"recn0", "recn1"} [] OTHER -> {}

(* memset() from frame_num to the end of struct rkvenc_h264_ctx. *)
ResetStream ==
  /\ frameNum' = 0 /\ pocLsb' = 0 /\ gopPos' = 0 /\ idrPicId' = 0
  /\ lastFrameWasIdr' = FALSE

(* STREAMON of OUTPUT, rkvenc_h264_start(). A new session starts a new stream:
   nothing has been delivered of it. Any of the three allocations may fail:
   its pointer is NULL, those of the parts freed again dangle until the next
   memset(). Queued buffers then go back to vb2, which still counts them as
   queued. *)
Start ==
  /\ bufs["out"] /\ ~outOn
  /\ ResetStream
  /\ bufSize' = fmt["cap"]
  /\ sent' = None /\ sentIdr' = None
  /\ recn' = [i \in Slots |-> "junk"]
  /\ \E n \in 0 .. 3 :
       /\ ptr' = [p \in Parts |-> p \in Got(n)]
       /\ alloc' = [p \in Parts |-> IF p \in Unwind(n) THEN 0
                                    ELSE IF p \in Got(n) THEN Length(p, fmt["cap"])
                                    ELSE alloc[p]]
       /\ misfreed' = (misfreed \/ ~(Unwind(n) \subseteq Got(n)))
       /\ spsPps' = IF n = 3 THEN [params |-> params, size |-> fmt["cap"]] ELSE None
       /\ outOn' = (n = 3)
  /\ UNCHANGED <<ctxVars, capOn, ctrlVars, busy, cur>>

(* STREAMOFF of OUTPUT: waits for the running job, returns what is queued;
   rkvenc_h264_stop() frees what its pointers say is there, with the length
   computed from the sizes that start() stored. *)
Stop ==
  /\ outOn /\ ~busy
  /\ outOn' = FALSE
  /\ queued' = [queued EXCEPT !["out"] = 0]
  /\ misfreed' = (misfreed \/ \E p \in Parts :
                                ptr[p] /\ alloc[p] # Length(p, bufSize))
  /\ alloc' = [p \in Parts |-> IF ptr[p] THEN 0 ELSE alloc[p]]
  /\ ptr' = [p \in Parts |-> FALSE]
  /\ UNCHANGED <<fmt, bufs, capOn, ctrlVars, h264Vars, spsPps, bufSize, recn,
                 busy, cur, sentVars>>

-----------------------------------------------------------------------------
(* One frame *)

(* (x + step) & GENMASK(..., 0), the mask being modulus - 1. *)
Wrap(x, step, modulus) ==
  IF x + step < modulus THEN x + step ELSE x + step - modulus

(* rkvenc_h264_run(): what the slice header and the core are given. Controls
   and formats are read again for every frame: the picture the core reads has
   the size of the coded format, the strides and the place of the chroma are
   those of the source format. *)
Slice ==
  [idr    |-> gopPos = 0,
   num    |-> frameNum,
   pid    |-> idrPicId,
   params |-> params,
   size   |-> fmt["cap"],
   src    |-> fmt["out"],
   write  |-> frameNum % 2,
   read   |-> IF frameNum = 0 THEN frameNum % 2 ELSE 1 - (frameNum % 2)]

(* The next buffer of either queue is coded, when both stream. *)
Run ==
  /\ outOn /\ capOn /\ ~busy
  /\ \A q \in Queues : queued[q] # 0
  /\ busy' = TRUE
  /\ cur' = Slice
  /\ UNCHANGED <<ctxVars, capOn, outOn, ctrlVars, h264Vars, bufVars, recn,
                 sentVars>>

(* Mutant of NextGopPos: the end of the GOP is found by equality. *)
NextGopPosEqual == IF gopPos + 1 = gopSize THEN 0 ELSE gopPos + 1

(* if (++gop_pos >= gop_size) gop_pos = 0, gop_size being read now. *)
NextGopPos == IF gopPos + 1 >= gopSize THEN 0 ELSE gopPos + 1

(* Mutant of NextIdrPid: only a GOP of several frames gets a new id. *)
NextIdrPidLate ==
  IF NextGopPos = 0 /\ gopPos # 0 THEN Wrap(idrPicId, 1, IdrPidMod)
  ELSE idrPicId

NextIdrPid ==
  IF NextGopPos = 0 THEN Wrap(idrPicId, 1, IdrPidMod) ELSE idrPicId

(* rkvenc_h264_done() of a frame that was encoded: its reconstruction is the
   reference a decoder now has. *)
DoneGood ==
  /\ busy
  /\ busy' = FALSE /\ cur' = None
  /\ queued' = [q \in Queues |-> 0]
  /\ frameNum' = Wrap(frameNum, 1, FrameNumMod)
  /\ pocLsb' = Wrap(pocLsb, 2, PocMod)
  /\ lastFrameWasIdr' = (gopPos = 0)
  /\ gopPos' = NextGopPos
  /\ idrPicId' = NextIdrPid
  /\ recn' = [i \in Slots |-> IF i = cur.write THEN "last"
                              ELSE IF recn[i] = "last" THEN "old" ELSE recn[i]]
  /\ sent' = cur
  /\ sentIdr' = IF cur.idr THEN cur ELSE sentIdr
  /\ UNCHANGED <<fmt, bufs, capOn, outOn, ctrlVars, bufVars>>

(* Mutant of DoneError: the counters are not looked after in one place. *)
DoneErrorAdvances ==
  /\ busy
  /\ busy' = FALSE /\ cur' = None
  /\ queued' = [q \in Queues |-> 0]
  /\ frameNum' = Wrap(frameNum, 1, FrameNumMod)
  /\ recn' \in {recn, [recn EXCEPT ![cur.write] = "junk"]}
  /\ UNCHANGED <<fmt, bufs, capOn, outOn, ctrlVars, pocLsb, gopPos, idrPicId,
                 lastFrameWasIdr, bufVars, sentVars>>

(* rkvenc_h264_done() of a frame that failed: no counter moves; the buffer it
   was being reconstructed into may hold anything. *)
DoneError ==
  /\ busy
  /\ busy' = FALSE /\ cur' = None
  /\ queued' = [q \in Queues |-> 0]
  /\ recn' \in {recn, [recn EXCEPT ![cur.write] = "junk"]}
  /\ UNCHANGED <<fmt, bufs, capOn, outOn, ctrlVars, h264Vars, bufVars,
                 sentVars>>

Next ==
  \/ SetControls \/ StreamCap
  \/ \E q \in Queues : SFmt(q) \/ ReqBufs(q) \/ QBuf(q)
  \/ Start \/ Stop
  \/ Run \/ DoneGood \/ DoneError

Spec == Init /\ [][Next]_vars

-----------------------------------------------------------------------------
(* Properties *)

Inter == busy /\ ~cur.idr

(* Every P frame predicts from the reconstruction of the last frame that was
   delivered, which is the decoder's reference, and does not overwrite it;
   frames that failed in between change nothing. Frame number 0 is left out:
   see AlwaysReadsReference. *)
ReadsReference ==
  Inter /\ cur.num # 0 => /\ cur.read # cur.write
                          /\ recn[cur.read] = "last"

(* The same of every P frame. "From frame 1 on, buf[write_idx ^ 1] genuinely
   holds the previous frame's real reconstruction": frame_num is 0 again
   after 256 frames, and that frame reads the buffer it writes. *)
AlwaysReadsReference ==
  Inter => cur.read # cur.write /\ recn[cur.read] = "last"

(* What the syntax elements must satisfy for a decoder: a P frame follows a
   delivered frame and carries its number plus one (no gaps are allowed by the
   SPS, failed frames included), and two IDR frames in a row differ in
   idr_pic_id. *)
DecoderInStep ==
  /\ Inter => sent # None /\ cur.num = Wrap(sent.num, 1, FrameNumMod)
  /\ busy /\ cur.idr /\ sentIdr # None => cur.pid # sentIdr.pid

(* However often GOP_SIZE changes, a GOP never outgrows the largest value the
   control was given. *)
GopEnds == \E g \in GopSizes : gopPos < g

(* The reconstruction buffers exist exactly while OUTPUT streams, with
   pointers to all of them and the length that rkvenc_h264_stop() will free,
   whichever allocation of rkvenc_h264_start() failed and whatever S_FMT does
   in between; nothing is freed that is not there or with another length. *)
BuffersBalanced ==
  /\ \A p \in Parts : alloc[p] = IF outOn THEN Length(p, bufSize) ELSE 0
  /\ outOn => \A p \in Parts : ptr[p]
  /\ ~misfreed

(* Bytes of a source buffer: rkvenc_nv12_sizeimage() of 2s x 2s (twice the
   pixels, where NV12 needs one and a half). *)
SourceBytes(s) == 8 * s * s

(* Where the core stops reading a coded picture of 2c x 2c: 2c rows of luma and
   c rows of chroma, 2c bytes of each row, the rows 2s apart and the chroma
   after 2s of them. *)
LumaEnd(s, c)   == 2 * s * (2 * c - 1) + 2 * c
ChromaEnd(s, c) == 4 * s * s + 2 * s * (c - 1) + 2 * c

SourceOverrun ==
  LET room == SourceBytes(queued["out"]) IN
  LumaEnd(cur.src, cur.size) > room \/ ChromaEnd(cur.src, cur.size) > room

(* When the core works past the end of a buffer of user space, whatever S_FMT,
   REQBUFS, QBUF and STREAMON did since STREAMON of the other queue: never past
   the destination; past the source only when the coded picture is at least
   twice as wide and high as the source picture, and then always, if the
   buffer has the size the driver asks for. Nothing compares the two formats. *)
QueueBuffersFit ==
  busy => /\ queued["cap"] >= cur.size
          /\ SourceOverrun => cur.size >= 2 * cur.src
          /\ cur.size >= 2 * cur.src /\ queued["out"] = cur.src => SourceOverrun

(* "parameter sets are a per-stream, not per-frame, concept": a slice is
   coded with the parameters of the SPS/PPS of its stream. False as soon as
   SetControls runs between Start and Run; no run checks it. *)
SliceMatchesHeaders == busy => cur.params = spsPps.params

(* The reconstruction buffers, "sizes are mpp's exact [...] formulas", are
   those of the format the core is programmed for. *)
BuffersFitFrame == busy => bufSize >= cur.size

(* The cover letter's "valid H.264 stream": an IDR picture has frame_num 0. *)
IdrRestartsFrameNum == busy /\ cur.idr => cur.num = 0
=============================================================================
