--------------------------------- MODULE Nal ---------------------------------
(***************************************************************************)
(* rkvenc_write_nal() as an operator: one Annex-B NAL unit, its RBSP       *)
(* escaped with emulation prevention bytes and cut off where the output    *)
(* buffer ends; and what a decoder makes of such a unit.                   *)
(***************************************************************************)
EXTENDS Naturals, Sequences, SequencesExt

StartCode == <<0, 0, 0, 1>>
Prefix(header) == Append(StartCode, header)

(* A writer is what is in out[] and the run of zeros that ends it. *)
Begin(size, header) ==
  [out |-> IF size < Len(StartCode) + 1 THEN <<>> ELSE Prefix(header),
   zeros |-> 0, size |-> size]

HasRoom(w) == w.out # <<>> /\ Len(w.out) < w.size

PutRaw(w, b) ==
  [out |-> Append(w.out, b), zeros |-> IF b = 0 THEN w.zeros + 1 ELSE 0, size |-> w.size]

PutEscape(w) == [out |-> Append(w.out, 3), zeros |-> 0, size |-> w.size]

(* Mutant of PutByte: the escape does not start a new run of zeros. *)
PutByteKeepsRun(w, b) ==
  IF ~HasRoom(w) THEN w
  ELSE IF w.zeros >= 2 /\ b <= 3
  THEN LET e == [PutEscape(w) EXCEPT !.zeros = w.zeros]
       IN IF HasRoom(e) THEN PutRaw(e, b) ELSE e
  ELSE PutRaw(w, b)

(* Mutant of PutByte: the run has to be longer than two. *)
PutByteLate(w, b) ==
  IF ~HasRoom(w) THEN w
  ELSE IF w.zeros > 2 /\ b <= 3
  THEN LET e == PutEscape(w) IN IF HasRoom(e) THEN PutRaw(e, b) ELSE e
  ELSE PutRaw(w, b)

(* The body of the loop. *)
PutByte(w, b) ==
  IF ~HasRoom(w) THEN w
  ELSE IF w.zeros >= 2 /\ b <= 3
  THEN LET e == PutEscape(w) IN IF HasRoom(e) THEN PutRaw(e, b) ELSE e
  ELSE PutRaw(w, b)

(* The writer after each number of bytes, and the unit after all of them. *)
Written(size, header, rbsp) ==
  LET w[n \in 0 .. Len(rbsp)] ==
        IF n = 0 THEN Begin(size, header) ELSE PutByte(w[n - 1], rbsp[n])
  IN w

WriteNal(size, header, rbsp) == Written(size, header, rbsp)[Len(rbsp)].out

(* Reference: what a decoder makes of the bytes after the NAL header. *)
Payload(out) == SubSeq(out, Len(StartCode) + 2, Len(out))

IsEscape(p, i) == i > 2 /\ p[i] = 3 /\ p[i - 1] = 0 /\ p[i - 2] = 0

(* What it has read after each number of bytes, and after all of them. *)
Decoded(p) ==
  LET u[n \in 0 .. Len(p)] ==
        IF n = 0 THEN <<>>
        ELSE IF IsEscape(p, n) THEN u[n - 1] ELSE Append(u[n - 1], p[n])
  IN u

Unescape(p) == Decoded(p)[Len(p)]
=============================================================================
