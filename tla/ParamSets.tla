----------------------------- MODULE ParamSets -----------------------------
(***************************************************************************)
(* From the format and the controls user space sets to what decoder and    *)
(* core are told: S_FMT on CAPTURE, rkvenc_h264_gen_sps_pps() with the SPS *)
(* and the PPS that go in front of every IDR frame, a reference parser for *)
(* them, and the watchdog and rate control of rkvenc_h264_run().           *)
(*                                                                         *)
(* An RBSP is a sequence of bits until it is packed; u32 arithmetic does   *)
(* not overflow for the values written here.                               *)
(***************************************************************************)
EXTENDS Integers, Nal, FrameSetup

CONSTANTS
  Widths, Heights,  \* sizes user space asks for
  Levels,           \* level_idc values of rkvenc_h264_level_idc[]
  Qps,              \* H264_I_FRAME_QP
  Bitrates,         \* BITRATE
  ClkRates          \* core_clk_rate, in Hz

ASSUME ParamConstantsOK ==
  /\ Widths \subseteq Nat /\ Heights \subseteq Nat
  /\ Levels \subseteq 0 .. 255
  /\ Qps \subseteq 0 .. 51
  /\ \A b \in Bitrates : b \in Nat /\ b >= 64000 /\ b <= 100000000
  /\ \A clk \in ClkRates : /\ clk \in Nat /\ clk >= 1000
                           /\ clk \div 1000 <= 4294967   \* unsigned int

RbspSize   == 32   \* u8 rbsp[32]
NalBufSizeShort == 24   \* mutant of NalBufSize
NalBufSize == 64   \* u8 sps_pps_nal[64]
Log2MaxFrameNum == 4   \* RKVENC_H264_LOG2_MAX_FRAME_NUM (minus 4)
Log2MaxPocLsb   == 4   \* RKVENC_H264_LOG2_MAX_POC_LSB (minus 4)

-----------------------------------------------------------------------------
(* struct rkvenc_bitwriter *)

U(val, n) == [i \in 1 .. n |-> (val \div 2 ^ (n - i)) % 2]

Fls(code) == CHOOSE n \in 1 .. 32 : 2 ^ (n - 1) <= code /\ code < 2 ^ n

Ue(val) == U(0, Fls(val + 1) - 1) \o U(val + 1, Fls(val + 1))

Se(val) == Ue(IF val <= 0 THEN (-val) * 2 ELSE val * 2 - 1)

(* rbsp_trailing_bits, and the bytes: a bit past the buffer is dropped. *)
Trailing(bits) == U(1, 1) \o U(0, (8 - ((Len(bits) + 1) % 8)) % 8)

(* The number that bits stand for, the first one its highest. *)
Numbers(bits) ==
  LET v[n \in 0 .. Len(bits)] == IF n = 0 THEN 0 ELSE 2 * v[n - 1] + bits[n]
  IN v

Number(bits) == Numbers(bits)[Len(bits)]

Pack(bits) ==
  LET b == bits \o Trailing(bits)
      n == Len(b) \div 8
  IN [i \in 1 .. (IF n < RbspSize THEN n ELSE RbspSize) |->
        Number(SubSeq(b, 8 * i - 7, 8 * i))]

-----------------------------------------------------------------------------
(* The two parameter sets of a set of controls c *)

MbW(c) == Align(c.width, 16) \div 16
MbH(c) == Align(c.height, 16) \div 16

Crop(c) ==
  LET right  == 16 * MbW(c) - c.width
      bottom == 16 * MbH(c) - c.height
  IN IF right # 0 \/ bottom # 0
     THEN U(1, 1) \o Ue(0) \o Ue(right \div 2) \o Ue(0) \o Ue(bottom \div 2)
     ELSE U(0, 1)

(* Mutant of Sps: the height in macroblocks is not the count minus one. *)
SpsTaller(c) ==
  U(IF c.main THEN 77 ELSE 66, 8) \o U(0, 8) \o U(c.level, 8)
  \o Ue(0) \o Ue(Log2MaxFrameNum) \o Ue(0) \o Ue(Log2MaxPocLsb) \o Ue(1)
  \o U(0, 1) \o Ue(MbW(c) - 1) \o Ue(MbH(c)) \o U(1, 1) \o U(1, 1)
  \o Crop(c) \o U(0, 1)

Sps(c) ==
  U(IF c.main THEN 77 ELSE 66, 8) \o U(0, 8) \o U(c.level, 8)
  \o Ue(0) \o Ue(Log2MaxFrameNum) \o Ue(0) \o Ue(Log2MaxPocLsb) \o Ue(1)
  \o U(0, 1) \o Ue(MbW(c) - 1) \o Ue(MbH(c) - 1) \o U(1, 1) \o U(1, 1)
  \o Crop(c) \o U(0, 1)

Pps(c) ==
  Ue(0) \o Ue(0) \o U(IF c.cabac THEN 1 ELSE 0, 1) \o U(0, 1)
  \o Ue(0) \o Ue(0) \o Ue(0) \o U(0, 1) \o U(0, 2)
  \o Se(c.qp - 26) \o Se(0) \o Se(0) \o U(1, 1) \o U(0, 1) \o U(0, 1)

SpsHeader == 32 + 7   \* nal_ref_idc 1, nal_unit_type 7
PpsHeader == 32 + 8

-----------------------------------------------------------------------------
VARIABLES
  ctrl,   \* coded format and controls
  nals,   \* sps_pps_nal[0 .. sps_pps_len - 1]
  regs,   \* the registers of a frame that depend on arithmetic
  step

paramVars == <<ctrl, nals, regs, step>>

Controls == [width : Widths, height : Heights, main : BOOLEAN,
             cabac : BOOLEAN, level : Levels, qp : Qps]

Off == [wdg |-> 0, tgt |-> 0, thd |-> <<0, 0, 0, 0>>, clk |-> 0]

ParamInit == ctrl \in Controls /\ nals = <<>> /\ regs = Off /\ step = "fmt"

(* rkvenc_s_fmt_vid_cap() *)
SFmtCap ==
  /\ step = "fmt" /\ step' = "sps"
  /\ ctrl' = [ctrl EXCEPT !.width = CodedWidth(@), !.height = CodedHeight(@)]
  /\ UNCHANGED <<nals, regs>>

(* A unit after those already in sps_pps_nal. *)
Put(header, bits) ==
  nals' = nals \o WriteNal(NalBufSize - Len(nals), header, Pack(bits))

PutSps ==
  /\ step = "sps" /\ step' = "pps"
  /\ Put(SpsHeader, Sps(ctrl))
  /\ UNCHANGED <<ctrl, regs>>

PutPps ==
  /\ step = "pps" /\ step' = "done"
  /\ Put(PpsHeader, Pps(ctrl))
  /\ UNCHANGED <<ctrl, regs>>

(* rkvenc_h264_run(): the registers of any later frame. *)
Program ==
  /\ step = "done" /\ step' = "run"
  /\ \E bitrate \in Bitrates, clk \in ClkRates :
       regs' = [wdg |-> CalcWdg(ctrl.width, ctrl.height, clk),
                tgt |-> MbTarget16(MbW(ctrl) * MbH(ctrl), bitrate),
                thd |-> Ladder(MbW(ctrl), MbW(ctrl) * MbH(ctrl), bitrate),
                clk |-> clk]
  /\ UNCHANGED <<ctrl, nals>>

ParamNext == SFmtCap \/ PutSps \/ PutPps \/ Program
ParamSpec == ParamInit /\ [][ParamNext]_paramVars

-----------------------------------------------------------------------------
(* Reference parser: clauses 7.3.2.1.1 and 7.3.2.2 of H.264. *)

Bits(bytes) ==
  [i \in 1 .. 8 * Len(bytes) |-> U(bytes[1 + (i - 1) \div 8], 8)[1 + ((i - 1) % 8)]]

(* One syntax element: its value is appended, the reader moves on. An ue(v)
   code is z zeros and then z + 1 bits that start with a one. *)
Took(r, value, n) == [r EXCEPT !.val = Append(@, value), !.pos = @ + n]

Peek(r, n) == Number(SubSeq(r.bits, r.pos, r.pos + n - 1))

ReadU(r, n) == Took(r, Peek(r, n), n)

LeadingZeros(r) == CHOOSE n \in 0 .. 31 : /\ r.bits[r.pos + n] = 1
                                   /\ \A k \in 0 .. n - 1 : r.bits[r.pos + k] = 0

CodeNum(r) == Peek(r, 2 * LeadingZeros(r) + 1) - 1

ReadUe(r) == Took(r, CodeNum(r), 2 * LeadingZeros(r) + 1)

ReadSe(r) ==
  LET k == CodeNum(r)
  IN Took(r, IF k % 2 = 1 THEN (k + 1) \div 2 ELSE -(k \div 2), 2 * LeadingZeros(r) + 1)

(* A syntax is a sequence of ue(v), se(v) and u(n), written n. *)
ue == 0
se == -1

ReadOne(r, e) == CASE e = ue -> ReadUe(r) [] e = se -> ReadSe(r) [] OTHER -> ReadU(r, e)

(* The reader after each number of elements, and after all of them. *)
Readers(r, syntax) ==
  LET q[n \in 0 .. Len(syntax)] == IF n = 0 THEN r ELSE ReadOne(q[n - 1], syntax[n])
  IN q

Read(r, syntax) == Readers(r, syntax)[Len(syntax)]

Reader(nal) == [bits |-> Bits(Unescape(Payload(nal))), pos |-> 1, val |-> <<>>]

(* Nothing but rbsp_trailing_bits is left. *)
AtEnd(r) == SubSeq(r.bits, r.pos, Len(r.bits)) =
            U(1, 1) \o U(0, Len(r.bits) - r.pos)

SpsSyntax  == <<8, 8, 8, ue, ue, ue, ue, ue, 1, ue, ue, 1, 1, 1>>
CropSyntax == <<ue, ue, ue, ue>>
PpsSyntax  == <<ue, ue, 1, 1, ue, ue, ue, 1, 2, se, se, se, 1, 1, 1>>

(* The second unit starts where the second start code is. *)
PpsStart == CHOOSE i \in 2 .. Len(nals) - 3 :
              SubSeq(nals, i, i + 3) = StartCode
SpsUnit == SubSeq(nals, 1, PpsStart - 1)
PpsUnit == SubSeq(nals, PpsStart, Len(nals))

SpsRead ==
  LET fixed == Read(Reader(SpsUnit), SpsSyntax)
      crop  == IF fixed.val[14] = 1 THEN Read(fixed, CropSyntax)
               ELSE [fixed EXCEPT !.val = @ \o <<0, 0, 0, 0>>]
  IN ReadU(crop, 1)
PpsRead == Read(Reader(PpsUnit), PpsSyntax)

-----------------------------------------------------------------------------
(* Properties *)

(* A decoder gets from the SPS the frame size of the format, cropping
   included, the level, and the 8-bit frame_num and POC that
   rkvenc_h264_done() counts with; nothing is left over. *)
SpsDescribesFrame ==
  step = "done" =>
    LET s == SpsRead.val IN
    /\ AtEnd(SpsRead)
    /\ s[1] = (IF ctrl.main THEN 77 ELSE 66) /\ s[3] = ctrl.level
    /\ 2 ^ (s[5] + 4) = 256 /\ 2 ^ (s[7] + 4) = 256
    /\ 16 * (s[10] + 1) - 2 * (s[15] + s[16]) = ctrl.width
    /\ 16 * (s[11] + 1) - 2 * (s[17] + s[18]) = ctrl.height

(* A decoder gets from the PPS the entropy mode and the QP of I frames. *)
PpsDescribesControls ==
  step = "done" =>
    LET p == PpsRead.val IN
    /\ AtEnd(PpsRead)
    /\ p[3] = (IF ctrl.cabac THEN 1 ELSE 0)
    /\ 26 + p[10] = ctrl.qp
    /\ p[13] = 1   \* deblocking_filter_control: run() writes its syntax

(* A decoder is told what the core is programmed for, by the two units
   rkvenc_h264_gen_sps_pps() puts in front of an IDR frame: the frame and the
   counters by the SPS, the controls by the PPS. *)
DescribesStream == SpsDescribesFrame /\ PpsDescribesControls

(* Whatever the format and the controls, both parameter sets fit in
   sps_pps_nal and in the RBSP buffer: rkvenc_write_nal() truncates nothing. *)
HeadersFit ==
  step # "fmt" => /\ Len(nals) < NalBufSize
                  /\ (Len(Sps(ctrl)) + 1) \div 8 < RbspSize
                  /\ (Len(Pps(ctrl)) + 1) \div 8 < RbspSize

(* A core that stops by itself says so before rkvenc_watchdog() takes the frame
   from it, so that the soft reset and not the hard one recovers it, and it
   says so no earlier than the table of rkvenc_calc_wdg() allows. *)
HardwareWatchdogFirst ==
  step = "run" =>
    LET ms == HardwareMs(regs.wdg, regs.clk) IN
    /\ ms < SoftwareMs
    /\ ms + 1 >= WdgMs(ctrl.width * ctrl.height)

(* "The exact value only needs to be sane and non-degenerate": a ladder of
   zeros is what stalled the core. *)
RcNotDegenerate ==
  step = "run" => regs.tgt > 0 /\ regs.thd[2] < 0 /\ regs.thd[3] > 0
=============================================================================
