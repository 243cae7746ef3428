------------------------------ MODULE NalWriter ------------------------------
(***************************************************************************)
(* The loop of rkvenc_write_nal(), one RBSP byte per step: every RBSP over *)
(* Bytes is a behaviour.                                                   *)
(***************************************************************************)
EXTENDS Nal

CONSTANTS
  Bytes,      \* byte values of the RBSP
  OutSizes,   \* sizes of the output buffer
  MaxRbsp     \* longest RBSP; bounds the model

ASSUME NalConstantsOK ==
  /\ Bytes \subseteq 0 .. 255
  /\ OutSizes \subseteq Nat
  /\ MaxRbsp \in Nat

-----------------------------------------------------------------------------
VARIABLES rbsp, writer

nalVars == <<rbsp, writer>>

NalInit ==
  /\ rbsp = <<>>
  /\ writer \in {Begin(size, 103) : size \in OutSizes}

NalNext ==
  \E b \in Bytes :
    /\ Len(rbsp) < MaxRbsp
    /\ rbsp' = Append(rbsp, b)
    /\ writer' = PutByte(writer, b)

NalSpec == NalInit /\ [][NalNext]_nalVars

(* Escaping: nothing in the unit looks like a start code, wherever the zeros
   fall and whatever the escapes before them were. *)
NoStartCodeInside ==
  LET p == Payload(writer.out) IN
  \A i \in 3 .. Len(p) : p[i - 2] = 0 /\ p[i - 1] = 0 => p[i] >= 3

(* A decoder reads back the RBSP; when the buffer was too small, a prefix of
   it, also when the buffer ends between an escape and its byte, and nothing
   was written past its end. *)
DecodesBack ==
  LET p == Unescape(Payload(writer.out)) IN
  /\ IsPrefix(p, rbsp)
  /\ HasRoom(writer) => p = rbsp
  /\ Len(writer.out) <= writer.size
=============================================================================
