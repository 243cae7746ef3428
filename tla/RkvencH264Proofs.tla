-------------------------- MODULE RkvencH264Proofs --------------------------
(***************************************************************************)
(* Proofs about RkvencH264 for every even frame number modulus, every set  *)
(* of GOP sizes, control values and formats.                               *)
(***************************************************************************)
EXTENDS RkvencH264, Integers, TLAPS

(* The frame under way was programmed from the counters, which stand still
   while the core is busy. *)
CurFromCounters ==
  busy => /\ outOn /\ cur \in Frames
          /\ cur.idr = (gopPos = 0)
          /\ cur.num = frameNum
          /\ cur.pid = idrPicId
          /\ cur.write = frameNum % 2
          /\ frameNum # 0 => cur.read = 1 - (frameNum % 2)

(* The counters follow the last frame delivered, and the buffer that is not
   written next holds its reconstruction. *)
ReferenceKept ==
  /\ gopPos # 0 => sent # None
  /\ sent # None => /\ frameNum = Wrap(sent.num, 1, FrameNumMod)
                    /\ recn[1 - (frameNum % 2)] = "last"

(* idr_pic_id changes with the end of a GOP. *)
IdrPidKept ==
  sentIdr # None => IF gopPos = 0 THEN idrPicId # sentIdr.pid
                                  ELSE idrPicId = sentIdr.pid

StreamInv == /\ TypeOK
             /\ CurFromCounters /\ ReferenceKept /\ IdrPidKept
             /\ GopEnds /\ BuffersBalanced

(* A frame is not the absence of one. *)
LEMMA FrameNotNone == \A f \in Frames : f # None
<1> SUFFICES ASSUME NEW f \in Frames, f = None PROVE FALSE OBVIOUS
<1>1. DOMAIN f = {"idr", "num", "pid", "params", "size", "src",
                  "write", "read"}
  BY DEF Frames
<1>2. DOMAIN None = {"none"} BY DEF None
<1> QED BY <1>1, <1>2

(* A wrapped counter stays in its range. *)
LEMMA WrapRange ==
  ASSUME NEW m \in Nat, m >= 2, NEW x \in 0 .. m - 1, NEW s \in {1, 2}
  PROVE  Wrap(x, s, m) \in 0 .. m - 1
BY DEF Wrap

(* A step of one is a change. *)
LEMMA WrapChanges ==
  ASSUME NEW m \in Nat, m >= 2, NEW x \in 0 .. m - 1
  PROVE  Wrap(x, 1, m) # x
BY DEF Wrap

(* An even modulus keeps the parity of frame_num alternating, wrap included. *)
LEMMA WrapParity ==
  ASSUME NEW m \in Nat, m >= 2, m % 2 = 0, NEW x \in 0 .. m - 1
  PROVE  Wrap(x, 1, m) % 2 = 1 - (x % 2)
BY DEF Wrap

(* frame_num & 1 and its complement are the two buffers. *)
LEMMA Parity ==
  ASSUME NEW x \in Nat
  PROVE  x % 2 \in Slots /\ 1 - (x % 2) \in Slots /\ 1 - (x % 2) # x % 2
BY DEF Slots

(* The parts rkvenc_h264_start() has after n allocations. *)
LEMMA GotParts ==
  /\ Got(0) = {} /\ Got(1) = {"recn0"} /\ Got(2) = {"recn0", "recn1"}
  /\ Got(3) = Parts
<1>1. AllocOrder[1] = "recn0" /\ AllocOrder[2] = "recn1" /\ AllocOrder[3] = "meiw"
  BY DEF AllocOrder
<1>2. 1 .. 0 = {} /\ 1 .. 1 = {1} /\ 1 .. 2 = {1, 2} /\ 1 .. 3 = {1, 2, 3}
  OBVIOUS
<1>3. Got(0) = {} BY <1>2 DEF Got
<1>4. Got(1) = {"recn0"} BY <1>1, <1>2 DEF Got
<1>5. Got(2) = {"recn0", "recn1"} BY <1>1, <1>2 DEF Got
<1>6. Got(3) = Parts BY <1>1, <1>2 DEF Got, Parts
<1> QED BY <1>3, <1>4, <1>5, <1>6

(* A failed start frees exactly what it got, a successful one nothing. *)
LEMMA UnwindParts ==
  ASSUME NEW n \in 0 .. 3
  PROVE  Unwind(n) = IF n = 3 THEN {} ELSE Got(n)
<1>1. n \in {0, 1, 2, 3} OBVIOUS
<1> QED BY <1>1, GotParts DEF Unwind

(* A length is a number. *)
LEMMA LengthType == ASSUME NEW p, NEW s \in Sizes PROVE Length(p, s) \in Nat
BY StreamConstantsOK DEF Length

(* Nothing has been programmed or delivered. *)
LEMMA InitStream == Init => StreamInv
<1> SUFFICES ASSUME Init PROVE StreamInv OBVIOUS
<1> USE StreamConstantsOK DEF Init
<1>1. TypeOK
  <2>1. /\ frameNum \in 0 .. FrameNumMod - 1 /\ pocLsb \in 0 .. PocMod - 1
        /\ idrPicId \in 0 .. IdrPidMod - 1 /\ gopPos \in Nat
    OBVIOUS
  <2>2. /\ alloc \in [Parts -> Nat] /\ ptr \in [Parts -> BOOLEAN]
        /\ misfreed \in BOOLEAN
        /\ recn \in [Slots -> {"last", "old", "junk"}]
    OBVIOUS
  <2>3. /\ spsPps \in Headers \cup {None} /\ cur \in Frames \cup {None}
        /\ sent \in Frames \cup {None} /\ sentIdr \in Frames \cup {None}
    OBVIOUS
  <2>4. /\ fmt \in [Queues -> Sizes] /\ bufs \in [Queues -> BOOLEAN]
        /\ queued \in [Queues -> Sizes \cup {0}]
    OBVIOUS
  <2> HIDE StreamConstantsOK
  <2> QED BY <2>1, <2>2, <2>3, <2>4 DEF TypeOK
<1>2. CurFromCounters /\ ReferenceKept /\ IdrPidKept
  BY DEF CurFromCounters, ReferenceKept, IdrPidKept
<1>3. GopEnds BY DEF GopEnds
<1>4. BuffersBalanced BY DEF BuffersBalanced
<1> QED BY <1>1, <1>2, <1>3, <1>4 DEF StreamInv

(* What user space does to controls, formats, buffers and the CAPTURE queue. *)
UserStep ==
  SetControls \/ StreamCap \/ \E q \in Queues : SFmt(q) \/ ReqBufs(q) \/ QBuf(q)

(* It touches no counter and no buffer of the stream. *)
LEMMA UserStream == StreamInv /\ UserStep => StreamInv'
<1> SUFFICES ASSUME StreamInv, UserStep PROVE StreamInv' OBVIOUS
<1>1. UNCHANGED <<outOn, h264Vars, bufVars, recn, busy, cur, sentVars>>
  BY DEF UserStep, SetControls, SFmt, ReqBufs, QBuf, StreamCap
<1>2. /\ fmt' \in [Queues -> Sizes] /\ bufs' \in [Queues -> BOOLEAN]
      /\ queued' \in [Queues -> Sizes \cup {0}] /\ capOn' \in BOOLEAN
      /\ params' \in Params /\ gopSize' \in GopSizes
  <2> USE DEF StreamInv, TypeOK, ctxVars, ctrlVars
  <2>1. CASE SetControls BY <2>1 DEF SetControls
  <2>2. CASE StreamCap BY <2>2 DEF StreamCap
  <2>3. ASSUME NEW q \in Queues, SFmt(q) PROVE <1>2 BY <2>3 DEF SFmt
  <2>4. ASSUME NEW q \in Queues, ReqBufs(q) PROVE <1>2 BY <2>4 DEF ReqBufs
  <2>5. ASSUME NEW q \in Queues, QBuf(q) PROVE <1>2 BY <2>5 DEF QBuf
  <2> QED BY <2>1, <2>2, <2>3, <2>4, <2>5 DEF UserStep
<1> USE <1>1 DEF StreamInv, h264Vars, bufVars, sentVars
<1>3. TypeOK' BY <1>2 DEF TypeOK
<1>4. CurFromCounters' /\ ReferenceKept' /\ IdrPidKept'
  BY DEF CurFromCounters, ReferenceKept, IdrPidKept
<1>5. GopEnds' /\ BuffersBalanced' BY DEF GopEnds, BuffersBalanced
<1> QED BY <1>3, <1>4, <1>5

(* STREAMON and STREAMOFF of OUTPUT: the stream begins again, the buffers come
   and go together. *)
LEMMA StartStopStream == StreamInv /\ (Start \/ Stop) => StreamInv'
<1> SUFFICES ASSUME StreamInv, Start \/ Stop PROVE StreamInv' OBVIOUS
<1> USE DEF StreamInv
<1>1. CASE Start
  <2>1. /\ frameNum' = 0 /\ pocLsb' = 0 /\ gopPos' = 0 /\ idrPicId' = 0
        /\ lastFrameWasIdr' = FALSE /\ sent' = None /\ sentIdr' = None
        /\ UNCHANGED <<ctxVars, capOn, ctrlVars, busy, cur>>
    BY <1>1 DEF Start, ResetStream
  <2> PICK n \in 0 .. 3 :
        /\ ptr' = [p \in Parts |-> p \in Got(n)]
        /\ alloc' = [p \in Parts |-> IF p \in Unwind(n) THEN 0
                                     ELSE IF p \in Got(n) THEN Length(p, fmt["cap"])
                                     ELSE alloc[p]]
        /\ misfreed' = (misfreed \/ ~(Unwind(n) \subseteq Got(n)))
        /\ spsPps' = IF n = 3 THEN [params |-> params, size |-> fmt["cap"]] ELSE None
        /\ outOn' = (n = 3)
    BY <1>1 DEF Start
  <2>2. /\ alloc' \in [Parts -> Nat] /\ ptr' \in [Parts -> BOOLEAN]
        /\ misfreed' \in BOOLEAN /\ bufSize' \in Sizes
        /\ recn' \in [Slots -> {"last", "old", "junk"}]
        /\ spsPps' \in Headers \cup {None} /\ outOn' \in BOOLEAN
    <3>1. /\ fmt["cap"] \in Sizes /\ params \in Params /\ outOn \in BOOLEAN
          /\ spsPps \in Headers \cup {None}
      BY DEF TypeOK, Queues
    <3>2. [params |-> params, size |-> fmt["cap"]] \in Headers
      BY <3>1 DEF Headers
    <3>3. spsPps' \in Headers \cup {None} /\ outOn' \in BOOLEAN
      BY <3>1, <3>2
    <3>4. /\ alloc' \in [Parts -> Nat] /\ ptr' \in [Parts -> BOOLEAN]
          /\ misfreed' \in BOOLEAN
      BY <3>1, LengthType DEF TypeOK
    <3>5. bufSize' \in Sizes /\ recn' \in [Slots -> {"last", "old", "junk"}]
      BY <1>1, <3>1 DEF Start
    <3> QED BY <3>3, <3>4, <3>5
  <2>3. TypeOK'
    <3>1. /\ frameNum' \in 0 .. FrameNumMod - 1 /\ pocLsb' \in 0 .. PocMod - 1
          /\ idrPicId' \in 0 .. IdrPidMod - 1 /\ gopPos' \in Nat
      BY <2>1, StreamConstantsOK
    <3>2. /\ fmt' \in [Queues -> Sizes] /\ bufs' \in [Queues -> BOOLEAN]
          /\ queued' \in [Queues -> Sizes \cup {0}] /\ capOn' \in BOOLEAN
          /\ params' \in Params /\ gopSize' \in GopSizes /\ busy' \in BOOLEAN
          /\ cur' \in Frames \cup {None}
      BY <2>1 DEF TypeOK, ctxVars, ctrlVars
    <3> HIDE DEF StreamInv
    <3> QED BY <2>1, <2>2, <3>1, <3>2 DEF TypeOK
  <2>4. ~busy BY <1>1 DEF Start, CurFromCounters
  <2>5. CurFromCounters' /\ ReferenceKept' /\ IdrPidKept'
    BY <2>1, <2>4 DEF CurFromCounters, ReferenceKept, IdrPidKept
  <2>6. GopEnds' BY <2>1, StreamConstantsOK DEF GopEnds
  <2>7. BuffersBalanced'
    <3>1. ~outOn /\ bufSize' = fmt["cap"] BY <1>1 DEF Start
    <3>2. (\A p \in Parts : alloc[p] = 0) /\ ~misfreed
      BY <3>1 DEF BuffersBalanced
    <3>3. ~misfreed' BY <3>2, UnwindParts
    <3>4. CASE n = 3
      <4>1. Unwind(n) = {} /\ Got(n) = Parts BY <3>4, UnwindParts, GotParts
      <4>2. outOn' /\ \A p \in Parts : ptr'[p] /\ alloc'[p] = Length(p, bufSize')
        BY <3>1, <3>4, <4>1
      <4> QED BY <3>3, <4>2 DEF BuffersBalanced
    <3>5. CASE n # 3
      <4>1. Unwind(n) = Got(n) BY <3>5, UnwindParts
      <4>2. ~outOn' /\ \A p \in Parts : alloc'[p] = 0 BY <3>2, <3>5, <4>1
      <4> QED BY <3>3, <4>2 DEF BuffersBalanced
    <3> QED BY <3>4, <3>5
  <2> QED BY <2>3, <2>5, <2>6, <2>7
<1>2. CASE Stop
  <2>1. /\ UNCHANGED <<fmt, bufs, capOn, ctrlVars, h264Vars, spsPps, bufSize,
                       recn, busy, cur, sentVars>>
        /\ outOn' = FALSE /\ ~busy
        /\ queued' \in [Queues -> Sizes \cup {0}]
    BY <1>2 DEF Stop, TypeOK
  <2>2. /\ \A p \in Parts : ptr[p] /\ alloc[p] = Length(p, bufSize)
        /\ ~misfreed
    BY <1>2 DEF Stop, BuffersBalanced
  <2>3. /\ alloc' = [p \in Parts |-> 0] /\ ptr' = [p \in Parts |-> FALSE]
        /\ misfreed' = FALSE
    BY <1>2, <2>2 DEF Stop
  <2>4. TypeOK'
    <3>1. /\ alloc' \in [Parts -> Nat] /\ ptr' \in [Parts -> BOOLEAN]
          /\ misfreed' \in BOOLEAN /\ outOn' \in BOOLEAN
      BY <2>1, <2>3
    <3>2. TypeOK BY DEF StreamInv
    <3> HIDE DEF StreamInv
    <3> QED BY <2>1, <3>1, <3>2 DEF TypeOK, ctrlVars, h264Vars, sentVars
  <2>5. CurFromCounters' /\ ReferenceKept' /\ IdrPidKept' /\ GopEnds'
    BY <2>1 DEF CurFromCounters, ReferenceKept, IdrPidKept, GopEnds, h264Vars,
       sentVars
  <2>6. BuffersBalanced' BY <2>1, <2>3 DEF BuffersBalanced
  <2> QED BY <2>4, <2>5, <2>6
<1> QED BY <1>1, <1>2

(* Programming a frame copies the counters. *)
LEMMA RunStream == StreamInv /\ Run => StreamInv'
<1> SUFFICES ASSUME StreamInv, Run PROVE StreamInv' OBVIOUS
<1> USE DEF StreamInv
<1>1. UNCHANGED <<ctxVars, capOn, outOn, ctrlVars, h264Vars, bufVars, recn,
                  sentVars>> /\ busy' = TRUE /\ cur' = Slice
  BY DEF Run
<1>2. Slice \in Frames
  <2>1. frameNum \in Nat BY StreamConstantsOK DEF TypeOK
  <2>2. frameNum % 2 \in Slots /\ 1 - (frameNum % 2) \in Slots BY <2>1, Parity
  <2>3. fmt["cap"] \in Sizes /\ fmt["out"] \in Sizes BY DEF TypeOK, Queues
  <2> QED BY <2>2, <2>3 DEF Slice, Frames, TypeOK
<1>3. TypeOK'
  BY <1>1, <1>2 DEF TypeOK, ctxVars, ctrlVars, h264Vars, bufVars, sentVars
<1>4. CurFromCounters'
  <2>1. outOn' BY <1>1 DEF Run
  <2>2. UNCHANGED <<gopPos, frameNum, idrPicId>> BY <1>1 DEF h264Vars
  <2>3. /\ Slice.idr = (gopPos = 0) /\ Slice.num = frameNum
        /\ Slice.pid = idrPicId /\ Slice.write = frameNum % 2
        /\ frameNum # 0 => Slice.read = 1 - (frameNum % 2)
    BY DEF Slice
  <2> HIDE DEF StreamInv
  <2> QED BY <1>1, <1>2, <2>1, <2>2, <2>3 DEF CurFromCounters
<1>5. ReferenceKept' /\ IdrPidKept' /\ GopEnds' /\ BuffersBalanced'
  BY <1>1 DEF ReferenceKept, IdrPidKept, GopEnds, BuffersBalanced, h264Vars,
     bufVars, sentVars
<1> QED BY <1>3, <1>4, <1>5

(* A delivered frame becomes the reference: with an even modulus the parity of
   frame_num alternates even where it wraps. *)
LEMMA DoneGoodStream == StreamInv /\ DoneGood => StreamInv'
<1> SUFFICES ASSUME StreamInv, DoneGood PROVE StreamInv' OBVIOUS
<1> USE DEF StreamInv
<1>1. /\ cur \in Frames /\ cur # None
      /\ cur.idr = (gopPos = 0) /\ cur.num = frameNum /\ cur.pid = idrPicId
      /\ cur.write = frameNum % 2
  BY FrameNotNone DEF DoneGood, CurFromCounters
<1>2. /\ frameNum' = Wrap(frameNum, 1, FrameNumMod)
      /\ frameNum' \in 0 .. FrameNumMod - 1
      /\ frameNum' % 2 = 1 - (frameNum % 2)
  BY WrapRange, WrapParity, StreamConstantsOK DEF DoneGood, TypeOK
<1>3. pocLsb' \in 0 .. PocMod - 1
  BY WrapRange, StreamConstantsOK DEF DoneGood, TypeOK
<1>4. /\ gopPos' = NextGopPos /\ gopPos' \in Nat
      /\ \E g \in GopSizes : gopPos' < g
  BY StreamConstantsOK DEF DoneGood, NextGopPos, TypeOK
<1>5. /\ idrPicId' = IF gopPos' = 0 THEN Wrap(idrPicId, 1, IdrPidMod)
                     ELSE idrPicId
      /\ idrPicId' \in 0 .. IdrPidMod - 1
      /\ Wrap(idrPicId, 1, IdrPidMod) # idrPicId
  <2>1. /\ Wrap(idrPicId, 1, IdrPidMod) \in 0 .. IdrPidMod - 1
        /\ Wrap(idrPicId, 1, IdrPidMod) # idrPicId
    BY WrapRange, WrapChanges, StreamConstantsOK DEF TypeOK
  <2> QED BY <2>1, <1>4 DEF DoneGood, NextIdrPid, TypeOK
<1>6. recn' \in [Slots -> {"last", "old", "junk"}] /\ recn'[frameNum % 2] = "last"
  <2>1. frameNum \in Nat BY StreamConstantsOK DEF TypeOK
  <2>2. frameNum % 2 \in Slots BY <2>1, Parity
  <2> QED BY <1>1, <2>2 DEF DoneGood, TypeOK
<1>7. /\ busy' = FALSE /\ cur' = None /\ lastFrameWasIdr' \in BOOLEAN
      /\ sent' = cur /\ sentIdr' = IF cur.idr THEN cur ELSE sentIdr
      /\ queued' \in [Queues -> Sizes \cup {0}]
      /\ UNCHANGED <<fmt, bufs, capOn, outOn, ctrlVars, bufVars>>
  BY DEF DoneGood
<1>8. TypeOK'
  <2>1. sent' \in Frames \cup {None} /\ sentIdr' \in Frames \cup {None}
    BY <1>1, <1>7 DEF TypeOK
  <2> QED BY <1>2, <1>3, <1>4, <1>5, <1>6, <1>7, <2>1
      DEF TypeOK, ctrlVars, bufVars
<1>9. CurFromCounters' BY <1>7 DEF CurFromCounters
<1>10. ReferenceKept'
  <2>1. frameNum \in Nat BY StreamConstantsOK DEF TypeOK
  <2>2. frameNum % 2 \in Slots BY <2>1, Parity
  <2>3. 1 - (frameNum' % 2) = frameNum % 2 BY <1>2, <2>2 DEF Slots
  <2> QED BY <1>1, <1>2, <1>6, <1>7, <2>3 DEF ReferenceKept
<1>11. IdrPidKept'
  <2>1. CASE cur.idr BY <2>1, <1>1, <1>5, <1>7 DEF IdrPidKept
  <2>2. CASE ~cur.idr BY <2>2, <1>1, <1>5, <1>7 DEF IdrPidKept
  <2> QED BY <2>1, <2>2
<1>12. GopEnds' /\ BuffersBalanced'
  BY <1>4, <1>7 DEF GopEnds, BuffersBalanced, bufVars
<1> QED BY <1>8, <1>9, <1>10, <1>11, <1>12

(* A failed frame leaves the reference alone: only the other buffer may be
   spoilt. *)
LEMMA DoneErrorStream == StreamInv /\ DoneError => StreamInv'
<1> SUFFICES ASSUME StreamInv, DoneError PROVE StreamInv' OBVIOUS
<1> USE DEF StreamInv
<1>1. /\ UNCHANGED <<fmt, bufs, capOn, outOn, ctrlVars, h264Vars, bufVars,
                     sentVars>>
      /\ busy' = FALSE /\ cur' = None
      /\ queued' \in [Queues -> Sizes \cup {0}]
  BY DEF DoneError
<1>2. frameNum \in Nat BY StreamConstantsOK DEF TypeOK
<1>3. /\ recn' \in [Slots -> {"last", "old", "junk"}]
      /\ recn'[1 - (frameNum % 2)] = recn[1 - (frameNum % 2)]
  <2>1. cur.write = frameNum % 2 BY DEF DoneError, CurFromCounters
  <2>2. /\ frameNum % 2 \in Slots /\ 1 - (frameNum % 2) \in Slots
        /\ 1 - (frameNum % 2) # frameNum % 2
    BY <1>2, Parity
  <2> QED BY <2>1, <2>2 DEF DoneError, TypeOK
<1>4. TypeOK'
  BY <1>1, <1>3 DEF TypeOK, ctrlVars, h264Vars, bufVars, sentVars
<1>5. CurFromCounters' BY <1>1 DEF CurFromCounters
<1>6. ReferenceKept' BY <1>1, <1>3 DEF ReferenceKept, h264Vars, sentVars
<1>7. IdrPidKept' /\ GopEnds' /\ BuffersBalanced'
  BY <1>1 DEF IdrPidKept, GopEnds, BuffersBalanced, h264Vars, bufVars, sentVars
<1> QED BY <1>4, <1>5, <1>6, <1>7

(* The inductive invariant of the stream. *)
THEOREM StreamInvariance == Spec => []StreamInv
<1>1. StreamInv /\ [Next]_vars => StreamInv'
  <2> SUFFICES ASSUME StreamInv, [Next]_vars PROVE StreamInv' OBVIOUS
  <2>1. CASE UNCHANGED vars
    <3> USE <2>1 DEF StreamInv, vars, ctxVars, ctrlVars, h264Vars, bufVars,
            sentVars
    <3>1. TypeOK' BY DEF TypeOK
    <3>2. CurFromCounters' /\ ReferenceKept' /\ IdrPidKept'
      BY DEF CurFromCounters, ReferenceKept, IdrPidKept
    <3>3. GopEnds' /\ BuffersBalanced' BY DEF GopEnds, BuffersBalanced
    <3> QED BY <3>1, <3>2, <3>3
  <2> QED BY <2>1, UserStream, StartStopStream, RunStream, DoneGoodStream,
      DoneErrorStream DEF Next, UserStep
<1> QED BY InitStream, <1>1, PTL DEF Spec

(* Type correctness; in particular every counter stays within the width of the
   register field it is written to. *)
THEOREM StreamTypes == Spec => []TypeOK
<1>1. StreamInv => TypeOK BY DEF StreamInv
<1> QED BY <1>1, StreamInvariance, PTL

(* Every P frame with a non-zero frame number predicts from the last frame
   delivered, for any GOP sizes, control changes, failed frames and stream
   restarts, as long as the frame number modulus is even: this is what the two
   buffers in turn rest on. *)
THEOREM ReferenceTheorem == Spec => []ReadsReference
<1>1. StreamInv => ReadsReference
  <2> SUFFICES ASSUME StreamInv, Inter, cur.num # 0
               PROVE  cur.read # cur.write /\ recn[cur.read] = "last"
    BY DEF ReadsReference
  <2>1. /\ gopPos # 0 /\ frameNum # 0
        /\ cur.write = frameNum % 2 /\ cur.read = 1 - (frameNum % 2)
    BY DEF StreamInv, CurFromCounters, Inter
  <2>2. frameNum \in Nat BY StreamConstantsOK DEF StreamInv, TypeOK
  <2>3. 1 - (frameNum % 2) # frameNum % 2 BY <2>2, Parity
  <2>4. recn[1 - (frameNum % 2)] = "last"
    BY <2>1 DEF StreamInv, ReferenceKept
  <2> QED BY <2>1, <2>3, <2>4
<1> QED BY <1>1, StreamInvariance, PTL

(* Frame numbers have no gap, whatever fails in between, and consecutive IDR
   frames have different ids. *)
THEOREM InStepTheorem == Spec => []DecoderInStep
<1>1. StreamInv => DecoderInStep
  BY DEF StreamInv, CurFromCounters, ReferenceKept, IdrPidKept, DecoderInStep,
     Inter
<1> QED BY <1>1, StreamInvariance, PTL

(* A GOP ends however often its size is changed. *)
THEOREM GopTheorem == Spec => []GopEnds
<1>1. StreamInv => GopEnds BY DEF StreamInv
<1> QED BY <1>1, StreamInvariance, PTL

(* No reconstruction buffer leaks, is freed twice or with another length than
   it was allocated with, whichever allocations fail in however many sessions. *)
THEOREM BuffersTheorem == Spec => []BuffersBalanced
<1>1. StreamInv => BuffersBalanced BY DEF StreamInv
<1> QED BY <1>1, StreamInvariance, PTL

-----------------------------------------------------------------------------
(* A buffer that is queued is large enough for the format of its queue, which
   the queue's buffers protect from S_FMT; the frame under way was programmed
   from these formats and keeps both buffers. *)
QueuesInv ==
  /\ \A q \in Queues : queued[q] # 0 => bufs[q] /\ queued[q] >= fmt[q]
  /\ busy => /\ capOn /\ outOn
             /\ \A q \in Queues : queued[q] # 0
             /\ cur.size = fmt["cap"] /\ cur.src = fmt["out"]

(* User space leaves the buffers of the running frame alone. *)
LEMMA UserQueues == TypeOK /\ QueuesInv /\ UserStep => QueuesInv'
<1> SUFFICES ASSUME TypeOK, QueuesInv, UserStep PROVE QueuesInv' OBVIOUS
<1> USE DEF TypeOK, QueuesInv, Queues
<1>1. CASE SetControls BY <1>1 DEF SetControls, ctxVars
<1>2. CASE StreamCap BY <1>2 DEF StreamCap
<1>3. ASSUME NEW q \in Queues, SFmt(q) PROVE QueuesInv' BY <1>3 DEF SFmt
<1>4. ASSUME NEW q \in Queues, ReqBufs(q) PROVE QueuesInv' BY <1>4 DEF ReqBufs
<1>5. ASSUME NEW q \in Queues, QBuf(q) PROVE QueuesInv'
  BY <1>5, StreamConstantsOK DEF QBuf
<1> QED BY <1>1, <1>2, <1>3, <1>4, <1>5 DEF UserStep

(* The driver takes buffers only from the queues and returns both. *)
LEMMA StepQueues ==
  TypeOK /\ QueuesInv /\ [Next]_vars => QueuesInv'
<1> SUFFICES ASSUME TypeOK, QueuesInv, [Next]_vars PROVE QueuesInv' OBVIOUS
<1> USE DEF QueuesInv
<1>1. CASE UserStep BY <1>1, UserQueues
<1>2. CASE Start BY <1>2 DEF Start, ctxVars, Queues
<1>3. CASE Stop BY <1>3 DEF Stop, TypeOK, Queues
<1>4. CASE Run BY <1>4 DEF Run, Slice, ctxVars, Queues
<1>5. CASE DoneGood BY <1>5 DEF DoneGood
<1>6. CASE DoneError BY <1>6 DEF DoneError
<1>7. CASE UNCHANGED vars BY <1>7 DEF vars, ctxVars
<1> QED BY <1>1, <1>2, <1>3, <1>4, <1>5, <1>6, <1>7 DEF Next, UserStep

(* A coded picture less than twice as large as its source ends inside a buffer
   of at least the source's size: the driver allocates two bytes per pixel
   where NV12 needs one and a half. *)
LEMMA SmallerFits ==
  ASSUME NEW s \in Nat \ {0}, NEW c \in Nat \ {0}, NEW b \in Nat,
         c < 2 * s, s <= b
  PROVE  LumaEnd(s, c) <= SourceBytes(b) /\ ChromaEnd(s, c) <= SourceBytes(b)
<1>1. s * s <= b * b
  <2>1. s * s <= s * b OBVIOUS
  <2>2. s * b <= b * b OBVIOUS
  <2> QED BY <2>1, <2>2
<1>2. PICK d \in Nat : c + d = 2 * s - 1
  <2>1. 2 * s - 1 - c \in Nat /\ c + (2 * s - 1 - c) = 2 * s - 1 OBVIOUS
  <2> QED BY <2>1
<1>3. s * c + s * d = 2 * (s * s) - s
  <2>1. s * (c + d) = s * (2 * s - 1) BY <1>2
  <2> QED BY <2>1
<1>4. s * d \in Nat /\ s * c \in Nat /\ s * s \in Nat /\ b * b \in Nat OBVIOUS
<1>5. LumaEnd(s, c) = 4 * (s * c) - 2 * s + 2 * c BY DEF LumaEnd
<1>6. ChromaEnd(s, c) = 4 * (s * s) + 2 * (s * c) - 2 * s + 2 * c BY DEF ChromaEnd
<1>7. SourceBytes(b) = 8 * (b * b) BY DEF SourceBytes
<1> QED BY <1>1, <1>3, <1>4, <1>5, <1>6, <1>7

(* One at least twice as large does not. *)
LEMMA TwiceOverruns ==
  ASSUME NEW s \in Nat \ {0}, NEW c \in Nat \ {0}, c >= 2 * s
  PROVE  ChromaEnd(s, c) > SourceBytes(s)
<1>1. s * c >= s * (2 * s) OBVIOUS
<1>2. s * (2 * s) = 2 * (s * s) OBVIOUS
<1>3. s * c \in Nat /\ s * s \in Nat OBVIOUS
<1>4. ChromaEnd(s, c) = 4 * (s * s) + 2 * (s * c) - 2 * s + 2 * c BY DEF ChromaEnd
<1>5. SourceBytes(s) = 8 * (s * s) BY DEF SourceBytes
<1> QED BY <1>1, <1>2, <1>3, <1>4, <1>5

(* The core never passes the end of the destination buffer; it passes the end
   of the source buffer only when the coded picture is at least twice as wide
   and high as the source, and then always if the buffer has the size the
   driver asks for: for any formats, buffer sizes and order of S_FMT, REQBUFS,
   QBUF and STREAMON. A format changes only while its own queue has no
   buffers; nothing compares the two. *)
THEOREM QueueBuffersTheorem == Spec => []QueueBuffersFit
<1>1. Init => QueuesInv BY DEF Init, QueuesInv
<1>2. TypeOK /\ QueuesInv => QueueBuffersFit
  <2> SUFFICES ASSUME TypeOK, QueuesInv, busy
               PROVE  /\ queued["cap"] >= cur.size
                      /\ SourceOverrun => cur.size >= 2 * cur.src
                      /\ cur.size >= 2 * cur.src /\ queued["out"] = cur.src
                         => SourceOverrun
    BY DEF QueueBuffersFit
  <2> DEFINE c == cur.size
             s == cur.src
             b == queued["out"]
  <2>1. /\ queued["cap"] >= c /\ b >= s
        /\ c \in Nat \ {0} /\ s \in Nat \ {0} /\ b \in Nat
    BY StreamConstantsOK DEF QueuesInv, TypeOK, Queues
  <2>2. SourceOverrun <=> LumaEnd(s, c) > SourceBytes(b) \/ ChromaEnd(s, c) > SourceBytes(b)
    BY DEF SourceOverrun
  <2>3. /\ LumaEnd(s, c) \in Int /\ ChromaEnd(s, c) \in Int /\ SourceBytes(b) \in Int
    BY <2>1 DEF LumaEnd, ChromaEnd, SourceBytes
  <2> HIDE DEF c, s, b
  <2>4. c < 2 * s => ~SourceOverrun BY <2>1, <2>2, <2>3, SmallerFits
  <2>5. c >= 2 * s /\ b = s => SourceOverrun BY <2>1, <2>2, TwiceOverruns
  <2>6. /\ queued["cap"] >= c
        /\ SourceOverrun => c >= 2 * s
        /\ c >= 2 * s /\ b = s => SourceOverrun
    BY <2>1, <2>4, <2>5
  <2> QED BY <2>6 DEF c, s, b
<1> QED BY <1>1, <1>2, StepQueues, StreamTypes, PTL DEF Spec
=============================================================================
