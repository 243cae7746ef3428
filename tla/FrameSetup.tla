----------------------------- MODULE FrameSetup -----------------------------
(***************************************************************************)
(* The arithmetic between what user space asks for and what the encoder    *)
(* core is programmed with: format negotiation, the threshold of the       *)
(* core's own watchdog and the rate-control ladder of rkvenc_h264_run().   *)
(* The C expressions neither overflow nor divide negative numbers for the  *)
(* values the controls and formats admit.                                  *)
(***************************************************************************)
EXTENDS Integers

Clamp(x, lo, hi) == IF x < lo THEN lo ELSE IF x > hi THEN hi ELSE x
Align(x, a)      == ((x + a - 1) \div a) * a

(* rkvenc_fill_coded_fmt() with the limits of rkvenc_h264_fmt_desc. *)
MinWidth  == 176
MaxWidth  == 4096
MinHeight == 144
MaxHeight == 2560

CodedWidth(w)  == Align(Clamp(w, MinWidth, MaxWidth), 2)
CodedHeight(h) == Align(Clamp(h, MinHeight, MaxHeight), 2)

(* The core's watchdog, in units of 256 cycles of its clock; 24 bits. *)
SoftwareMs == 800   \* RKVENC_WATCHDOG_TIMEOUT_MS

WdgTable == {<<1920 * 1088, 50>>, <<2560 * 1440, 100>>, <<4096 * 2304, 200>>,
             <<8192 * 8192, 400>>, <<15360 * 8640, 800>>}

(* The first entry that is large enough; the largest frame finds one. *)
WdgMs(pixels) ==
  LET rows == {r \in WdgTable : pixels <= r[1]}
  IN (CHOOSE r \in rows : \A q \in rows : r[1] <= q[1])[2]

(* Mutant of CalcWdg: cycles instead of units of 256 cycles. *)
CalcWdgCycles(w, h, clk) ==
  Clamp(WdgMs(w * h) * (clk \div 1000), 0, 2 ^ 24 - 1)

CalcWdg(w, h, clk) ==
  Clamp((WdgMs(w * h) * (clk \div 1000)) \div 256, 0, 2 ^ 24 - 1)

(* The milliseconds after which the core gives up. *)
HardwareMs(thd, clk) ==
  LET perMs == clk \div 1000
  IN (thd \div perMs) * 256 + ((thd % perMs) * 256) \div perMs

(* Rate control: bits per macroblock, times 16, from the bitrate at 30 frames
   per second; the row target; the thresholds 0 to 3. *)
MbTarget16(mbs, bitrate) ==
  LET t == (16 * (bitrate \div 30)) \div mbs
  IN IF t >= 2 ^ 20 THEN 5 * 2 ^ 16 ELSE t

RowTarget(mbw, mbs, bitrate) == (MbTarget16(mbs, bitrate) * mbw) \div 16

Ladder(mbw, mbs, bitrate) ==
  LET thd == (5 * RowTarget(mbw, mbs, bitrate)) \div 16
  IN <<-4 * thd, -thd, thd, 4 * thd>>
=============================================================================
