----------------------------- MODULE HeaderProofs -----------------------------
(***************************************************************************)
(* What rkvenc_h264_run() sends ahead of an IDR frame and programs for any *)
(* frame, for all parameters: rkvenc_write_nal() leaves no start code in a *)
(* unit, writes nothing past the buffer, and a decoder reads the RBSP      *)
(* back; both parameter sets fit in their buffers, and a decoder reads the *)
(* format and the controls in them; and the core's own watchdog expires    *)
(* when it should.                                                         *)
(***************************************************************************)
EXTENDS NalWriter, ParamSets, TLAPS, WellFoundedInduction

Writers == [out : Seq(Nat), zeros : Nat, size : Nat]

(* The unit on its own: start code and header, then no start code. *)
Clean(out) ==
  \A i \in 8 .. Len(out) : out[i - 2] = 0 /\ out[i - 1] = 0 => out[i] >= 3

(* zero_run counts the zeros that end the payload, up to two. *)
Counted(w) ==
  LET n == Len(w.out) IN
  /\ w.zeros >= 1 <=> n > 5 /\ w.out[n] = 0
  /\ w.zeros >= 2 <=> n > 6 /\ w.out[n] = 0 /\ w.out[n - 1] = 0

Within(w) == Len(w.out) <= w.size /\ (w.out # <<>> => Len(w.out) >= 5)

WriterInv(w) == w \in Writers /\ Within(w) /\ Clean(w.out) /\ Counted(w)
-------------------------------------------------------------------------------
(* A non-empty set of numbers has a least element. *)
LEMMA Least ==
  ASSUME NEW S, S \subseteq Nat, S # {}
  PROVE  \E m \in S : \A k \in S : m <= k
<1>1. IsWellFoundedOn(OpToRel(<, Nat), Nat) BY NatLessThanWellFounded, Zenon
<1>2. PICK m \in S : \A k \in S : ~ (<<k, m>> \in OpToRel(<, Nat))
  BY <1>1, WFMin, Zenon
<1>3. \A k \in S : ~ (k < m) BY <1>2, Zenon DEF OpToRel
<1> QED BY <1>3

(* One byte appended, with the run of zeros it leaves. *)
LEMMA OneMore ==
  ASSUME NEW w, WriterInv(w), HasRoom(w), NEW b \in Nat, NEW z \in Nat,
         w.zeros >= 2 => b >= 3,
         b = 0 => z = w.zeros + 1, b # 0 => z = 0
  PROVE  WriterInv([out |-> Append(w.out, b), zeros |-> z, size |-> w.size])
<1> DEFINE n == Len(w.out)
           v == [out |-> Append(w.out, b), zeros |-> z, size |-> w.size]
<1>1. /\ w.out \in Seq(Nat) /\ w.zeros \in Nat /\ w.size \in Nat
      /\ n \in Nat /\ n >= 5 /\ n < w.size
  BY DEF WriterInv, Writers, HasRoom, Within
<1>2. v.out = Append(w.out, b) /\ v.zeros = z /\ v.size = w.size /\ v \in Writers
  BY <1>1, SMTT(60) DEF Writers
<1>3. /\ Len(v.out) = n + 1 /\ v.out[n + 1] = b
      /\ \A i \in 1 .. n : v.out[i] = w.out[i]
  BY <1>1, <1>2
<1> HIDE DEF n, v
<1>4. Within(v)
  BY <1>1, <1>2, <1>3 DEF Within
<1>5. Clean(v.out)
  <2> SUFFICES ASSUME NEW i \in 8 .. (n + 1), v.out[i - 2] = 0, v.out[i - 1] = 0
               PROVE  v.out[i] >= 3
    BY <1>3 DEF Clean
  <2>1. CASE i = n + 1
    <3>1. n > 6 /\ w.out[n] = 0 /\ w.out[n - 1] = 0
      <4>1. /\ n >= 7 /\ i - 1 = n /\ i - 2 = n - 1
            /\ n \in 1 .. n /\ n - 1 \in 1 .. n
        BY <2>1, <1>1
      <4>2. v.out[n] = 0 /\ v.out[n - 1] = 0
        BY <4>1
      <4> QED
        BY <4>1, <4>2, <1>1, <1>3, SMTT(60)
    <3>2. w.zeros >= 2
      BY <3>1 DEF WriterInv, Counted, n
    <3> QED
      BY <2>1, <3>2, <1>3
  <2>2. CASE i <= n
    <3>1. i \in 8 .. n /\ i \in 1 .. n /\ i - 1 \in 1 .. n /\ i - 2 \in 1 .. n
      BY <2>2, <1>1
    <3>2. v.out[i] = w.out[i] /\ v.out[i - 1] = w.out[i - 1] /\ v.out[i - 2] = w.out[i - 2]
      BY <3>1, <1>3
    <3> QED
      BY <3>1, <3>2 DEF WriterInv, Clean, n
  <2> QED
    BY <2>1, <2>2, <1>1
<1>6. Counted(v)
  <2>1. /\ w.zeros >= 1 <=> n > 5 /\ w.out[n] = 0
    BY DEF WriterInv, Counted, n
  <2>2. v.out[n] = w.out[n] /\ Len(v.out) = n + 1 /\ (n + 1) - 1 = n
    BY <1>1, <1>3
  <2>3. /\ z >= 1 <=> b = 0
        /\ z >= 2 <=> b = 0 /\ w.zeros >= 1
    BY <1>1
  <2>4. n + 1 > 5 /\ (n + 1 > 6 <=> n > 5)
    BY <1>1
  <2> QED
    BY <1>2, <1>3, <2>1, <2>2, <2>3, <2>4 DEF Counted
<1> QED
  BY <1>2, <1>4, <1>5, <1>6 DEF WriterInv, v

(* The escape in front of a byte. *)
LEMMA EscapeKeeps ==
  ASSUME NEW w, WriterInv(w), HasRoom(w)
  PROVE  WriterInv(PutEscape(w)) /\ PutEscape(w).zeros = 0
<1> DEFINE b3 == 3
           z0 == 0
<1>1. /\ b3 \in Nat /\ z0 \in Nat /\ b3 >= 3 /\ ~ (b3 = 0) /\ z0 = 0
  OBVIOUS
<1> HIDE DEF b3, z0
<1>2. WriterInv([out |-> Append(w.out, b3), zeros |-> z0, size |-> w.size])
  BY <1>1, OneMore
<1>3. PutEscape(w) = [out |-> Append(w.out, b3), zeros |-> z0, size |-> w.size]
  BY DEF PutEscape, b3, z0
<1> QED
  BY <1>1, <1>2, <1>3

(* Every byte keeps the invariant. *)
LEMMA PutByteKeeps ==
  ASSUME NEW w, WriterInv(w), NEW b \in Nat
  PROVE  WriterInv(PutByte(w, b))
<1>1. CASE ~HasRoom(w)
  BY <1>1 DEF PutByte
<1>2. CASE HasRoom(w) /\ w.zeros >= 2 /\ b <= 3
  <2> DEFINE e == PutEscape(w)
  <2>1. w.zeros \in Nat
    BY DEF WriterInv, Writers
  <2>2. WriterInv(e) /\ e.zeros = 0
    BY <1>2, EscapeKeeps
  <2> HIDE DEF e
  <2>3. CASE HasRoom(e)
    <3>1. WriterInv(PutRaw(e, b))
      <4> DEFINE z == IF b = 0 THEN e.zeros + 1 ELSE 0
      <4>1. z \in Nat /\ (b = 0 => z = e.zeros + 1) /\ (b # 0 => z = 0) /\ (e.zeros >= 2 => b >= 3)
        BY <2>2
      <4> HIDE DEF z
      <4>2. WriterInv([out |-> Append(e.out, b), zeros |-> z, size |-> e.size])
        BY <4>1, <2>2, <2>3, OneMore
      <4> QED
        BY <4>2 DEF PutRaw, z
    <3> QED
      BY <1>2, <2>3, <3>1 DEF PutByte, e
  <2>4. CASE ~HasRoom(e)
    BY <1>2, <2>2, <2>4 DEF PutByte, e
  <2> QED
    BY <2>3, <2>4
<1>3. CASE HasRoom(w) /\ ~(w.zeros >= 2 /\ b <= 3)
  <2>1. w.zeros \in Nat
    BY DEF WriterInv, Writers
  <2>2. WriterInv(PutRaw(w, b))
    <3> DEFINE z == IF b = 0 THEN w.zeros + 1 ELSE 0
    <3>1. z \in Nat /\ (b = 0 => z = w.zeros + 1) /\ (b # 0 => z = 0) /\ (w.zeros >= 2 => b >= 3)
      BY <1>3, <2>1
    <3> HIDE DEF z
    <3>2. WriterInv([out |-> Append(w.out, b), zeros |-> z, size |-> w.size])
      BY <3>1, <1>3, OneMore
    <3> QED
      BY <3>2 DEF PutRaw, z
  <2> QED
    BY <1>3, <2>2 DEF PutByte
<1> QED
  BY <1>1, <1>2, <1>3

(* Start code and header, or nothing in a buffer too small for them. *)
LEMMA BeginKeeps ==
  ASSUME NEW size \in Nat, NEW header \in Nat
  PROVE  WriterInv(Begin(size, header))
<1>1. CASE size < 5
  BY <1>1 DEF Begin, StartCode, WriterInv, Writers, Within, Clean, Counted
<1>2. CASE size >= 5
  <2> DEFINE w == Begin(size, header)
  <2>1. Prefix(header) \in Seq(Nat) /\ Len(Prefix(header)) = 5
    BY DEF Prefix, StartCode
  <2>2. w = [out |-> Prefix(header), zeros |-> 0, size |-> size]
    BY <1>2 DEF Begin, StartCode
  <2>3. w \in Writers /\ Len(w.out) = 5 /\ w.size = size /\ w.zeros = 0
    BY <2>1, <2>2 DEF Writers
  <2> HIDE DEF w
  <2>4. Within(w) /\ Clean(w.out)
    BY <1>2, <2>3 DEF Within, Clean
  <2>5. Counted(w)
    BY <2>3 DEF Counted
  <2> QED
    BY <2>3, <2>4, <2>5 DEF WriterInv, w
<1> QED
  BY <1>1, <1>2

(* The payload starts behind the header. *)
LEMMA PayloadBytes ==
  ASSUME NEW o \in Seq(Nat), Len(o) >= 5
  PROVE  /\ Payload(o) \in Seq(Nat) /\ Len(Payload(o)) = Len(o) - 5
         /\ \A i \in 1 .. (Len(o) - 5) : Payload(o)[i] = o[i + 5]
<1>1. Payload(o) = SubSeq(o, 6, Len(o))
  BY DEF Payload, StartCode
<1> DEFINE n == Len(o)
<1>2. n \in Nat /\ n >= 5
  OBVIOUS
<1>3. Len(Payload(o)) = n - 5 /\ \A i \in 1 .. (n - 5) : Payload(o)[i] = o[i + 5]
  <2>1. \A i \in 1 .. (n - 5) : SubSeq(o, 6, n)[i] = o[i + 5]
    BY <1>2
  <2>2. Len(SubSeq(o, 6, n)) = n - 5
    <3>1. CASE n = 5
      BY <3>1
    <3>2. CASE n > 5
      BY <3>2, <1>2
    <3> HIDE DEF n
    <3>3. n = 5 \/ n > 5
      BY <1>2
    <3> QED
      BY <3>1, <3>2, <3>3, Zenon
  <2> QED
    BY <1>1, <2>1, <2>2
<1>4. Payload(o) \in Seq(Nat)
  <2>1. \A i \in 6 .. n : o[i] \in Nat
    BY <1>2
  <2> QED
    BY <1>1, <1>2, <2>1
<1> QED
  BY <1>3, <1>4

(* A clean unit has a clean payload. *)
LEMMA CleanPayload ==
  ASSUME NEW w, WriterInv(w)
  PROVE  \A i \in 3 .. Len(Payload(w.out)) :
            Payload(w.out)[i - 2] = 0 /\ Payload(w.out)[i - 1] = 0 => Payload(w.out)[i] >= 3
<1>1. w.out \in Seq(Nat) /\ Len(w.out) \in Nat /\ (w.out = <<>> \/ Len(w.out) >= 5)
  BY DEF WriterInv, Writers, Within
<1>3. CASE w.out = <<>>
  BY <1>3 DEF Payload, StartCode
<1>4. CASE Len(w.out) >= 5
  <2>1. /\ Len(Payload(w.out)) = Len(w.out) - 5
        /\ \A i \in 1 .. (Len(w.out) - 5) : Payload(w.out)[i] = w.out[i + 5]
    BY <1>1, <1>4, PayloadBytes
  <2> QED
    <3> TAKE i \in 3 .. Len(Payload(w.out))
    <3>1. i + 5 \in 8 .. Len(w.out) /\ (i + 5) - 2 = (i - 2) + 5 /\ (i + 5) - 1 = (i - 1) + 5
      BY <2>1, <1>1
    <3>2. /\ Payload(w.out)[i] = w.out[i + 5]
          /\ Payload(w.out)[i - 1] = w.out[(i + 5) - 1]
          /\ Payload(w.out)[i - 2] = w.out[(i + 5) - 2]
      BY <2>1, <3>1, <1>1, SMTT(60)
    <3> QED
      BY <3>1, <3>2 DEF WriterInv, Clean
<1> QED
  BY <1>1, <1>3, <1>4

(* The invariant of the writer. *)
LEMMA WriterInvariance == NalSpec => []WriterInv(writer)
<1>1. NalInit => WriterInv(writer)
  BY BeginKeeps, NalConstantsOK DEF NalInit
<1>2. WriterInv(writer) /\ [NalNext]_nalVars => WriterInv(writer)'
  <2>1. ASSUME WriterInv(writer), NEW b \in Bytes, writer' = PutByte(writer, b)
        PROVE  WriterInv(writer')
    BY <2>1, PutByteKeeps, NalConstantsOK
  <2> QED
    BY <2>1 DEF NalNext, nalVars, WriterInv, Writers, Within, Clean, Counted
<1> QED
  BY <1>1, <1>2, PTL DEF NalSpec

(* Whatever the RBSP and wherever the buffer ends, nothing in the unit looks
   like a start code: rkvenc_write_nal() escapes every run of zeros. *)
THEOREM NoStartCodeTheorem == NalSpec => []NoStartCodeInside
<1>1. WriterInv(writer) => NoStartCodeInside
  BY CleanPayload DEF NoStartCodeInside
<1> QED
  BY <1>1, WriterInvariance, PTL

(* pos never passes out_size. *)
THEOREM NoOverrun == NalSpec => [](Len(writer.out) <= writer.size)
<1>1. WriterInv(writer) => Len(writer.out) <= writer.size
  BY DEF WriterInv, Within
<1> QED
  BY <1>1, WriterInvariance, PTL

-------------------------------------------------------------------------------
(* What a decoder reads back *)

(* The equation that defines Decoded has a solution. *)
LEMMA DecodedDef ==
  ASSUME NEW p, Len(p) \in Nat
  PROVE  Decoded(p) = [n \in 0 .. Len(p) |->
           IF n = 0 THEN <<>>
           ELSE IF IsEscape(p, n) THEN Decoded(p)[n - 1]
           ELSE Append(Decoded(p)[n - 1], p[n])]
<1> DEFINE Next1(s, n) == IF IsEscape(p, n) THEN s ELSE Append(s, p[n])
           Fits(f, n) == f = [i \in 0 .. n |-> IF i = 0 THEN <<>> ELSE Next1(f[i - 1], i)]
           Bad == {n \in Nat : ~ \E f : Fits(f, n)}
<1> HIDE DEF Next1
<1>1. ASSUME Bad # {} PROVE FALSE
  <2>1. PICK m \in Bad : \A k \in Bad : m <= k
    BY <1>1, Least
  <2>2. m # 0
    <3>1. Fits([i \in 0 .. 0 |-> <<>>], 0)
      OBVIOUS
    <3> QED
      BY <3>1
  <2>3. PICK f : Fits(f, m - 1)
    <3>1. m \in Nat /\ m - 1 \in Nat /\ ~ (m <= m - 1)
      BY <2>2
    <3> HIDE DEF Fits
    <3>2. m - 1 \notin Bad
      BY <2>1, <3>1
    <3> QED
      BY <3>1, <3>2
  <2> DEFINE g == [i \in 0 .. m |-> IF i = m THEN Next1(f[m - 1], m) ELSE f[i]]
  <2>4. ASSUME NEW i \in 0 .. m
        PROVE  g[i] = IF i = 0 THEN <<>> ELSE Next1(g[i - 1], i)
    <3>1. CASE i = m
      BY <3>1, <2>2
    <3>2. CASE i # m
      <4>1. i \in 0 .. (m - 1) /\ g[i] = f[i] /\ (i # 0 => g[i - 1] = f[i - 1])
        BY <3>2, <2>2
      <4>2. f[i] = IF i = 0 THEN <<>> ELSE Next1(f[i - 1], i)
        BY <4>1, <2>3
      <4> QED
        BY <4>1, <4>2
    <3> QED
      BY <3>1, <3>2
  <2>5. Fits(g, m)
    BY <2>4
  <2> QED
    BY <2>1, <2>5
<1>2. PICK f : Fits(f, Len(p))
  BY <1>1
<1>3. f = [n \in 0 .. Len(p) |-> IF n = 0 THEN <<>>
             ELSE IF IsEscape(p, n) THEN f[n - 1] ELSE Append(f[n - 1], p[n])]
  BY <1>2 DEF Next1
<1> QED
  BY <1>3, Zenon DEF Decoded

(* One more byte: an escape is dropped, anything else is appended. *)
LEMMA UnescapeOne ==
  ASSUME NEW p \in Seq(Nat), NEW b \in Nat
  PROVE  Unescape(Append(p, b)) =
           IF IsEscape(Append(p, b), Len(p) + 1) THEN Unescape(p)
           ELSE Append(Unescape(p), b)
<1> DEFINE q == Append(p, b)
           n == Len(p)
           Diff == {i \in 0 .. n : Decoded(q)[i] # Decoded(p)[i]}
<1>1. /\ n \in Nat /\ Len(q) = n + 1 /\ q[n + 1] = b
      /\ \A i \in 1 .. n : q[i] = p[i]
  OBVIOUS
<1>2. \A i \in 1 .. n : IsEscape(q, i) <=> IsEscape(p, i)
  BY <1>1 DEF IsEscape
<1>3. \A i \in 0 .. n : Decoded(p)[i] =
        IF i = 0 THEN <<>> ELSE IF IsEscape(p, i) THEN Decoded(p)[i - 1]
        ELSE Append(Decoded(p)[i - 1], p[i])
  BY <1>1, DecodedDef
<1> HIDE DEF q
<1>4. \A i \in 0 .. n + 1 : Decoded(q)[i] =
        IF i = 0 THEN <<>> ELSE IF IsEscape(q, i) THEN Decoded(q)[i - 1]
        ELSE Append(Decoded(q)[i - 1], q[i])
  <2>1. Len(q) \in Nat /\ 0 .. Len(q) = 0 .. n + 1
    BY <1>1
  <2> HIDE DEF n
  <2> QED
    BY <2>1, DecodedDef
<1> HIDE DEF n
<1>5. ASSUME Diff # {} PROVE FALSE
  <2>1. Diff \subseteq Nat
    BY <1>1
  <2>2. PICK m \in Diff : \A k \in Diff : m <= k
    BY <2>1, <1>5, Least
  <2>3. m # 0
    BY <1>1, <1>3, <1>4
  <2>4. m \in 1 .. n /\ m - 1 \in 0 .. n /\ Decoded(q)[m - 1] = Decoded(p)[m - 1]
    BY <2>2, <2>3, <1>1
  <2>5. Decoded(q)[m] = Decoded(p)[m]
    BY <2>3, <2>4, <1>1, <1>2, <1>3, <1>4
  <2> QED
    BY <2>2, <2>5
<1>6. Decoded(q)[n] = Decoded(p)[n]
  BY <1>1, <1>5
<1>7. Decoded(q)[n + 1] = IF IsEscape(q, n + 1) THEN Decoded(p)[n] ELSE Append(Decoded(p)[n], b)
  BY <1>1, <1>4, <1>6
<1> QED
  BY <1>1, <1>7 DEF Unescape, q, n

(* The payload grows with the unit. *)
LEMMA PayloadOne ==
  ASSUME NEW o \in Seq(Nat), Len(o) >= 5, NEW b \in Nat
  PROVE  Payload(Append(o, b)) = Append(Payload(o), b)
<1> DEFINE q == Append(o, b)
           n == Len(o)
           P == Payload(q)
           S == Append(Payload(o), b)
<1>1. q \in Seq(Nat) /\ n \in Nat /\ Len(q) = n + 1 /\ q[n + 1] = b /\ \A i \in 1 .. n : q[i] = o[i]
  OBVIOUS
<1>2. n >= 5
  OBVIOUS
<1> HIDE DEF q
<1>3. P \in Seq(Nat) /\ Len(P) = n - 4 /\ \A i \in 1 .. (n - 4) : P[i] = q[i + 5]
  <2>1. Len(q) >= 5 /\ Len(q) - 5 = n - 4
    BY <1>1, <1>2
  <2> HIDE DEF n
  <2>2. P \in Seq(Nat) /\ Len(P) = Len(q) - 5 /\ \A i \in 1 .. (Len(q) - 5) : P[i] = q[i + 5]
    BY <1>1, <2>1, PayloadBytes
  <2> QED
    BY <2>1, <2>2
<1>4. /\ S \in Seq(Nat) /\ Len(S) = n - 4 /\ S[n - 4] = b
      /\ \A i \in 1 .. (n - 5) : S[i] = o[i + 5]
  <2>1. /\ Payload(o) \in Seq(Nat) /\ Len(Payload(o)) = n - 5
        /\ \A i \in 1 .. (n - 5) : Payload(o)[i] = o[i + 5]
    BY <1>1, <1>2, PayloadBytes
  <2> DEFINE p == Payload(o)
  <2> HIDE DEF p, n
  <2>2. p \in Seq(Nat) /\ Len(p) = n - 5 /\ S = Append(p, b)
    BY <2>1 DEF p
  <2>3. (n - 5) + 1 = n - 4
    BY <1>1
  <2> QED
    BY <1>1, <1>2, <2>1, <2>2, <2>3 DEF p
<1> HIDE DEF n, P, S
<1>5. \A i \in 1 .. (n - 4) : P[i] = S[i]
  <2> TAKE i \in 1 .. (n - 4)
  <2>1. CASE i = n - 4
    <3>1. P[i] = q[i + 5] /\ i + 5 = n + 1 /\ S[i] = b
      BY <2>1, <1>1, <1>3, <1>4
    <3> QED
      BY <3>1, <1>1
  <2>2. CASE i # n - 4
    <3>1. i \in 1 .. (n - 5) /\ i + 5 \in 1 .. n
      BY <2>2, <1>1, <1>2
    <3> QED
      BY <3>1, <1>1, <1>3, <1>4
  <2> QED
    BY <2>1, <2>2
<1>6. P = S
  BY <1>3, <1>4, <1>5
<1> QED
  BY <1>6 DEF P, S, q

(* A decoder takes a byte for an escape exactly if the writer meant it as one. *)
LEMMA ReadsOne ==
  ASSUME NEW w, WriterInv(w), HasRoom(w), NEW b \in Nat
  PROVE  Unescape(Payload(Append(w.out, b))) =
           IF b = 3 /\ w.zeros >= 2 THEN Unescape(Payload(w.out))
           ELSE Append(Unescape(Payload(w.out)), b)
<1> DEFINE o == w.out
           p == Payload(o)
           q == Append(p, b)
<1>1. o \in Seq(Nat) /\ Len(o) \in Nat /\ Len(o) >= 5
  BY DEF WriterInv, Writers, HasRoom, Within
<1>2. Payload(Append(o, b)) = q
  BY <1>1, PayloadOne
<1>3. /\ p \in Seq(Nat) /\ Len(p) = Len(o) - 5
      /\ \A i \in 1 .. (Len(o) - 5) : p[i] = o[i + 5]
  BY <1>1, PayloadBytes
<1>4. w.zeros >= 2 <=> Len(o) > 6 /\ o[Len(o)] = 0 /\ o[Len(o) - 1] = 0
  BY DEF WriterInv, Counted
<1> HIDE DEF o, p
<1>5. Len(p) \in Nat /\ q[Len(p) + 1] = b /\ \A i \in 1 .. Len(p) : q[i] = p[i]
  BY <1>3
<1> HIDE DEF q
<1>6. IsEscape(q, Len(p) + 1) <=> b = 3 /\ w.zeros >= 2
  <2>1. CASE Len(p) >= 2
    <3>1. /\ q[(Len(p) + 1) - 1] = o[Len(o)] /\ q[(Len(p) + 1) - 2] = o[Len(o) - 1]
          /\ Len(o) > 6
      <4>1. /\ (Len(p) + 1) - 1 \in 1 .. Len(p) /\ (Len(p) + 1) - 2 \in 1 .. Len(p)
            /\ (Len(p) + 1) - 1 = Len(o) - 5 /\ (Len(p) + 1) - 2 = Len(o) - 6
        BY <2>1, <1>1, <1>3
      <4>2. /\ q[(Len(p) + 1) - 1] = p[Len(o) - 5] /\ q[(Len(p) + 1) - 2] = p[Len(o) - 6]
        BY <4>1, <1>5
      <4>3. /\ p[Len(o) - 5] = o[(Len(o) - 5) + 5] /\ p[Len(o) - 6] = o[(Len(o) - 6) + 5]
        BY <4>1, <1>3
      <4>4. /\ (Len(o) - 5) + 5 = Len(o) /\ (Len(o) - 6) + 5 = Len(o) - 1 /\ Len(o) > 6
        BY <2>1, <1>1, <1>3
      <4> QED
        BY <4>2, <4>3, <4>4
    <3> QED
      BY <3>1, <2>1, <1>4, <1>5 DEF IsEscape
  <2>2. CASE ~ (Len(p) >= 2)
    BY <2>2, <1>1, <1>3, <1>4, <1>5 DEF IsEscape
  <2> QED
    BY <2>1, <2>2
<1>7. Unescape(q) = IF IsEscape(q, Len(p) + 1) THEN Unescape(p) ELSE Append(Unescape(p), b)
  BY <1>3, UnescapeOne DEF q
<1> QED
  BY <1>2, <1>6, <1>7 DEF o, p

(* PutByte adds its byte for the decoder, or only an escape at the end of the
   buffer, which adds nothing. *)
LEMMA PutByteReads ==
  ASSUME NEW w, WriterInv(w), HasRoom(w), NEW b \in Nat,
         NEW got, got = Unescape(Payload(w.out)),
         NEW v, v = PutByte(w, b)
  PROVE  \/ Unescape(Payload(v.out)) = Append(got, b)
         \/ Unescape(Payload(v.out)) = got /\ ~ HasRoom(v)
<1>1. CASE w.zeros >= 2 /\ b <= 3
  <2> DEFINE e == PutEscape(w)
  <2>1. WriterInv(e) /\ e.zeros = 0
    BY EscapeKeeps
  <2>2. Unescape(Payload(e.out)) = got
    BY <1>1, ReadsOne DEF PutEscape
  <2>3. v = IF HasRoom(e) THEN PutRaw(e, b) ELSE e
    BY <1>1 DEF PutByte
  <2> HIDE DEF e
  <2>4. CASE HasRoom(e)
    <3>1. Unescape(Payload(Append(e.out, b))) = Append(got, b)
      <4>1. ~ (e.zeros >= 2)
        BY <2>1
      <4> QED
        BY <4>1, <2>1, <2>2, <2>4, ReadsOne
    <3> QED
      BY <3>1, <2>3, <2>4 DEF PutRaw
  <2>5. CASE ~ HasRoom(e)
    BY <2>2, <2>3, <2>5
  <2> QED
    BY <2>4, <2>5
<1>2. CASE ~ (w.zeros >= 2 /\ b <= 3)
  <2>1. Unescape(Payload(Append(w.out, b))) = Append(got, b)
    <3>1. ~ (b = 3 /\ w.zeros >= 2)
      BY <1>2
    <3> QED
      BY <3>1, ReadsOne
  <2> QED
    BY <1>2, <2>1 DEF PutByte, PutRaw
<1> QED
  BY <1>1, <1>2

(* The RBSP is what has been read back so far, up to the end of the buffer. *)
ReadBack(w, r) ==
  /\ r \in Seq(Nat) /\ Unescape(Payload(w.out)) \in Seq(Nat)
  /\ IsPrefix(Unescape(Payload(w.out)), r)
  /\ HasRoom(w) => Unescape(Payload(w.out)) = r

(* Every byte keeps what a decoder reads back. *)
LEMMA PutByteReadsBack ==
  ASSUME NEW w, WriterInv(w), NEW r, ReadBack(w, r), NEW b \in Nat
  PROVE  ReadBack(PutByte(w, b), Append(r, b))
<1> DEFINE got == Unescape(Payload(w.out))
           v == PutByte(w, b)
           V == Unescape(Payload(v.out))
           s == Append(r, b)
<1>1. s \in Seq(Nat) /\ r \in Seq(Nat)
  BY DEF ReadBack
<1>2. CASE ~ HasRoom(w)
  <2>1. v = w
    BY <1>2 DEF PutByte
  <2>2. got \in Seq(Nat) /\ Len(got) <= Len(r) /\ SubSeq(got, 1, Len(got)) = SubSeq(r, 1, Len(got))
    BY DEF ReadBack, IsPrefix
  <2> HIDE DEF got
  <2>3. Len(got) <= Len(s) /\ SubSeq(s, 1, Len(got)) = SubSeq(r, 1, Len(got))
    BY <1>1, <2>2
  <2> QED
    BY <1>1, <1>2, <2>1, <2>2, <2>3 DEF ReadBack, IsPrefix, got
<1>3. CASE HasRoom(w)
  <2>1. got = r
    BY <1>3 DEF ReadBack
  <2>2. V = s \/ (V = r /\ ~ HasRoom(v))
    <3> HIDE DEF v
    <3>1. V = Append(got, b) \/ (V = got /\ ~ HasRoom(v))
      BY <1>3, PutByteReads DEF v
    <3> HIDE DEF V, got
    <3> QED
      BY <3>1, <2>1
  <2> HIDE DEF V
  <2>3. V \in Seq(Nat) /\ Len(V) <= Len(s) /\ SubSeq(V, 1, Len(V)) = SubSeq(s, 1, Len(V))
    <3>1. CASE V = s
      BY <3>1, <1>1
    <3>2. CASE V = r
      BY <3>2, <1>1
    <3> QED
      BY <3>1, <3>2, <2>2
  <2> QED
    BY <2>2, <2>3, <1>1 DEF ReadBack, IsPrefix, V
<1> QED
  BY <1>2, <1>3

(* Nothing is read back of a unit without payload. *)
LEMMA BeginReadsBack ==
  ASSUME NEW size \in Nat, NEW header \in Nat
  PROVE  ReadBack(Begin(size, header), <<>>)
<1> DEFINE w == Begin(size, header)
<1>1. Payload(w.out) = <<>>
  <2>1. CASE size < 5
    BY <2>1 DEF Begin, StartCode, Payload
  <2>2. CASE ~ (size < 5)
    BY <2>2 DEF Begin, StartCode, Payload, Prefix
  <2> QED
    BY <2>1, <2>2
<1>2. Unescape(<<>>) = <<>>
  BY DecodedDef DEF Unescape
<1>3. Len(<<>>) <= Len(<<>>) /\ SubSeq(<<>>, 1, Len(<<>>)) = SubSeq(<<>>, 1, Len(<<>>)) /\ <<>> \in Seq(Nat)
  OBVIOUS
<1> HIDE DEF w
<1> QED
  BY <1>1, <1>2, <1>3, Zenon DEF ReadBack, IsPrefix, w

(* What a decoder reads back, at every byte. *)
LEMMA ReadBackInvariance == NalSpec => []ReadBack(writer, rbsp)
<1>1. NalInit => ReadBack(writer, rbsp)
  BY BeginReadsBack, NalConstantsOK DEF NalInit
<1>2. WriterInv(writer) /\ ReadBack(writer, rbsp) /\ [NalNext]_nalVars => ReadBack(writer, rbsp)'
  <2>1. ASSUME WriterInv(writer), ReadBack(writer, rbsp), NEW b \in Bytes
        PROVE  ReadBack(PutByte(writer, b), Append(rbsp, b))
    <3>1. b \in Nat
      BY NalConstantsOK
    <3> QED
      BY <2>1, <3>1, PutByteReadsBack
  <2>2. ASSUME ReadBack(writer, rbsp), UNCHANGED nalVars PROVE ReadBack(writer, rbsp)'
    <3>1. writer' = writer /\ rbsp' = rbsp
      BY <2>2 DEF nalVars
    <3>2. ReadBack(writer', rbsp')
      BY <2>2, <3>1
    <3> QED
      BY <3>2
  <2>3. ASSUME WriterInv(writer), ReadBack(writer, rbsp), NalNext PROVE ReadBack(writer, rbsp)'
    <3>1. ReadBack(writer', rbsp')
      BY <2>3, <2>1 DEF NalNext
    <3> QED
      BY <3>1
  <2> QED
    BY <2>2, <2>3
<1> QED
  BY <1>1, <1>2, WriterInvariance, PTL DEF NalSpec

(* A decoder reads back the RBSP, or the part of it that the buffer holds: the
   escapes it removes are the ones rkvenc_write_nal() put in, for every RBSP
   and wherever the buffer ends. *)
THEOREM DecodesBackTheorem == NalSpec => []DecodesBack
<1>1. WriterInv(writer) /\ ReadBack(writer, rbsp) => DecodesBack
  BY DEF ReadBack, WriterInv, Within, DecodesBack
<1> QED
  BY <1>1, WriterInvariance, ReadBackInvariance, PTL

-------------------------------------------------------------------------------
(* The length of a parameter set *)

(* A sequence of at most n elements, whatever they are. *)
Short(s, n) == (\E X : s \in Seq(X)) /\ Len(s) <= n

(* Bits are functions on 1 .. n, *)
LEMMA ShortFcn ==
  ASSUME NEW n \in Nat, NEW s, s = [i \in 1 .. n |-> s[i]]
  PROVE  Short(s, n)
<1> DEFINE X == {s[i] : i \in 1 .. n}
<1>1. s \in [1 .. n -> X]
  OBVIOUS
<1>2. s \in Seq(X) /\ Len(s) = n
  BY <1>1
<1> QED
  BY <1>2 DEF Short

(* joined one after another, *)
LEMMA ShortJoin ==
  ASSUME NEW s, NEW m \in Nat, Short(s, m), NEW t, NEW n \in Nat, Short(t, n)
  PROVE  Short(s \o t, m + n)
<1>1. PICK X : s \in Seq(X)
  BY DEF Short
<1>2. PICK Y : t \in Seq(Y)
  BY DEF Short
<1> DEFINE Z == X \cup Y
<1>3. s \in Seq(Z) /\ t \in Seq(Z)
  BY <1>1, <1>2
<1> HIDE DEF Z
<1>4. s \o t \in Seq(Z) /\ Len(s \o t) = Len(s) + Len(t)
  BY <1>3
<1>5. Len(s) \in Nat /\ Len(t) \in Nat
  BY <1>3
<1> QED
  BY <1>4, <1>5 DEF Short

(* and four at a time. *)
LEMMA ShortJoin4 ==
  ASSUME NEW a, NEW k \in Nat, Short(a, k), NEW b, NEW l \in Nat, Short(b, l),
         NEW c, NEW m \in Nat, Short(c, m), NEW d, NEW n \in Nat, Short(d, n)
  PROVE  Short(a \o b \o c \o d, k + l + m + n)
<1>1. Short(a \o b, k + l) /\ k + l \in Nat
  BY ShortJoin
<1>2. Short(a \o b \o c, k + l + m) /\ k + l + m \in Nat
  BY <1>1, ShortJoin
<1> QED
  BY <1>2, ShortJoin

(* bw_put_bits() puts n bits. *)
LEMMA ShortBits ==
  ASSUME NEW val, NEW n \in Nat
  PROVE  Short(U(val, n), n)
<1> DEFINE s == U(val, n)
<1>1. s = [i \in 1 .. n |-> s[i]]
  BY DEF U
<1> HIDE DEF s
<1>2. Short(s, n)
  BY <1>1, ShortFcn
<1> QED
  BY <1>2 DEF s

(* The numbers coded here have at most 9 bits. *)
LEMMA FlsBound ==
  ASSUME NEW code \in 1 .. 256
  PROVE  /\ Fls(code) \in 1 .. 9 /\ (code = 1 => Fls(code) = 1)
         /\ 2 ^ (Fls(code) - 1) <= code /\ code < 2 ^ Fls(code)
<1> DEFINE Low(n) == 2 ^ (n - 1)
           Top(n) == 2 ^ (n - 1) <= code /\ code < 2 ^ n
           f == CHOOSE n \in 1 .. 32 : Top(n)
<1>1. \/ Top(1) \/ Top(2) \/ Top(3) \/ Top(4) \/ Top(5) \/ Top(6) \/ Top(7)
      \/ Top(8) \/ Top(9)
  BY SMT
<1>2. code = 1 =>
      /\ ~ (Low(2) <= code) /\ ~ (Low(3) <= code) /\ ~ (Low(4) <= code)
      /\ ~ (Low(5) <= code) /\ ~ (Low(6) <= code) /\ ~ (Low(7) <= code)
      /\ ~ (Low(8) <= code) /\ ~ (Low(9) <= code)
  BY SMT
<1>3. /\ ~ (Low(10) <= code) /\ ~ (Low(11) <= code) /\ ~ (Low(12) <= code)
      /\ ~ (Low(13) <= code) /\ ~ (Low(14) <= code) /\ ~ (Low(15) <= code)
      /\ ~ (Low(16) <= code) /\ ~ (Low(17) <= code) /\ ~ (Low(18) <= code)
      /\ ~ (Low(19) <= code) /\ ~ (Low(20) <= code) /\ ~ (Low(21) <= code)
      /\ ~ (Low(22) <= code) /\ ~ (Low(23) <= code) /\ ~ (Low(24) <= code)
      /\ ~ (Low(25) <= code) /\ ~ (Low(26) <= code) /\ ~ (Low(27) <= code)
      /\ ~ (Low(28) <= code) /\ ~ (Low(29) <= code) /\ ~ (Low(30) <= code)
      /\ ~ (Low(31) <= code) /\ ~ (Low(32) <= code)
  BY SMT
<1>4. \A n : Top(n) => Low(n) <= code
  OBVIOUS
<1> HIDE DEF Low, Top
<1>5. f \in 1 .. 32 /\ Top(f)
  <2>1. \E n \in 1 .. 32 : Top(n)
    BY <1>1
  <2> QED
    BY <2>1
<1>6. f \in 1 .. 9 /\ (code = 1 => f = 1)
  <2> HIDE DEF f
  <2>1. Low(f) <= code
    BY <1>4, <1>5
  <2>2. ~ (f \in 10 .. 32)
    BY <1>3, <2>1
  <2>3. code = 1 => ~ (f \in 2 .. 9)
    BY <1>2, <2>1
  <2> QED
    BY <1>5, <2>2, <2>3
<1>7. Fls(code) = f
  BY DEF Fls, f, Top
<1>8. 2 ^ (f - 1) <= code /\ code < 2 ^ f
  BY <1>5 DEF Top
<1> QED
  BY <1>6, <1>7, <1>8

(* bw_put_ue() puts at most 17 bits, and one for 0. *)
LEMMA ShortUe ==
  ASSUME NEW val \in 0 .. 255
  PROVE  Short(Ue(val), 17) /\ (val = 0 => Short(Ue(val), 1))
<1> DEFINE f == Fls(val + 1)
<1>1. f \in 1 .. 9 /\ (val = 0 => f = 1)
  <2>1. val + 1 \in 1 .. 256 /\ (val = 0 => val + 1 = 1)
    OBVIOUS
  <2> QED
    BY <2>1, FlsBound
<1>2. Ue(val) = U(0, f - 1) \o U(val + 1, f)
  BY DEF Ue
<1> HIDE DEF f
<1>3. Short(Ue(val), (f - 1) + f)
  <2>1. f \in Nat /\ f - 1 \in Nat
    BY <1>1
  <2>2. Short(U(0, f - 1), f - 1) /\ Short(U(val + 1, f), f)
    BY <2>1, ShortBits
  <2> QED
    BY <1>2, <2>1, <2>2, ShortJoin
<1>4. (f - 1) + f <= 17 /\ (val = 0 => (f - 1) + f <= 1)
  BY <1>1
<1> DEFINE b == (f - 1) + f
<1>5. b \in Int
  BY <1>1
<1> HIDE DEF b
<1> QED
  BY <1>3, <1>4, <1>5 DEF Short, b

(* Bytes: the trailing bits are at most 8. *)
LEMMA ShortPack ==
  ASSUME NEW bits, NEW n \in Nat, Short(bits, n)
  PROVE  \E k \in Nat : Short(Pack(bits), k) /\ 8 * k <= n + 8
<1> DEFINE L == Len(bits)
           z == (8 - ((L + 1) % 8)) % 8
           t == Trailing(bits)
           b == bits \o t
           bytes == Len(b) \div 8
           k == IF bytes < RbspSize THEN bytes ELSE RbspSize
<1>1. L \in Nat /\ L <= n
  BY DEF Short
<1> HIDE DEF L
<1>2. z \in 0 .. 7
  BY <1>1
<1>3. t = U(1, 1) \o U(0, z)
  BY DEF Trailing, L
<1> HIDE DEF z
<1>4. Short(t, 8)
  <2>1. Short(U(1, 1), 1) /\ Short(U(0, z), z) /\ z \in Nat
    BY <1>2, ShortBits
  <2>2. Short(t, 1 + z)
    BY <1>3, <2>1, ShortJoin
  <2> HIDE DEF t
  <2> QED
    BY <1>2, <2>2 DEF Short
<1> HIDE DEF t
<1>5. Short(b, n + 8)
  BY <1>4, ShortJoin
<1> HIDE DEF b
<1>6. k \in Nat /\ 8 * k <= n + 8
  BY <1>5 DEF Short, RbspSize
<1>7. Pack(bits) = [i \in 1 .. k |-> Pack(bits)[i]]
  BY DEF Pack, b, t
<1> HIDE DEF k
<1>8. Short(Pack(bits), k)
  BY <1>6, <1>7, ShortFcn
<1> QED
  BY <1>6, <1>8

(* A byte of the RBSP is at most two bytes of the unit. *)
LEMMA ShortAppend ==
  ASSUME NEW s, NEW n \in Nat, Short(s, n), NEW x
  PROVE  Short(Append(s, x), n + 1)
<1>1. PICK X : s \in Seq(X)
  BY DEF Short
<1> DEFINE Y == X \cup {x}
<1>2. s \in Seq(Y) /\ x \in Y
  BY <1>1
<1> HIDE DEF Y
<1> QED
  BY <1>2 DEF Short

(* One step of the loop, with its escape. *)
LEMMA ShortPut ==
  ASSUME NEW w, NEW n \in Nat, Short(w.out, n), NEW b
  PROVE  Short(PutByte(w, b).out, n + 2)
<1>1. Short(w.out, n + 2)
  BY DEF Short
<1>2. Short(PutRaw(w, b).out, n + 2)
  <2>1. Short(Append(w.out, b), n + 1)
    BY ShortAppend
  <2>2. Short(Append(w.out, b), n + 2)
    BY <2>1 DEF Short
  <2> QED
    BY <2>2 DEF PutRaw
<1> DEFINE e == PutEscape(w)
<1>3. Short(e.out, n + 1) /\ Short(e.out, n + 2)
  <2>1. Short(Append(w.out, 3), n + 1)
    BY ShortAppend
  <2>2. Short(Append(w.out, 3), n + 2)
    BY <2>1 DEF Short
  <2> QED
    BY <2>1, <2>2 DEF PutEscape
<1> HIDE DEF e
<1>4. Short(PutRaw(e, b).out, n + 2)
  <2>1. Short(Append(e.out, b), (n + 1) + 1)
    BY <1>3, ShortAppend
  <2> QED
    BY <2>1 DEF PutRaw
<1>5. \/ PutByte(w, b) = w \/ PutByte(w, b) = PutRaw(w, b)
      \/ PutByte(w, b) = PutRaw(e, b) \/ PutByte(w, b) = e
  BY DEF PutByte, e
<1> QED
  BY <1>1, <1>2, <1>3, <1>4, <1>5

(* The equation that defines Written has a solution. *)
LEMMA WrittenDef ==
  ASSUME NEW size, NEW header, NEW r, Len(r) \in Nat
  PROVE  Written(size, header, r) = [n \in 0 .. Len(r) |->
           IF n = 0 THEN Begin(size, header)
           ELSE PutByte(Written(size, header, r)[n - 1], r[n])]
<1> DEFINE Base == Begin(size, header)
           Next1(w, n) == PutByte(w, r[n])
           Fits(f, n) == f = [i \in 0 .. n |-> IF i = 0 THEN Base ELSE Next1(f[i - 1], i)]
           Bad == {n \in Nat : ~ \E f : Fits(f, n)}
<1> HIDE DEF Base, Next1
<1>1. ASSUME Bad # {} PROVE FALSE
  <2>1. PICK m \in Bad : \A k \in Bad : m <= k
    BY <1>1, Least
  <2>2. m # 0
    <3>1. Fits([i \in 0 .. 0 |-> Base], 0)
      OBVIOUS
    <3> QED
      BY <3>1
  <2>3. PICK f : Fits(f, m - 1)
    <3>1. m \in Nat /\ m - 1 \in Nat /\ ~ (m <= m - 1)
      BY <2>2
    <3> HIDE DEF Fits
    <3>2. m - 1 \notin Bad
      BY <2>1, <3>1
    <3> QED
      BY <3>1, <3>2
  <2> DEFINE g == [i \in 0 .. m |-> IF i = m THEN Next1(f[m - 1], m) ELSE f[i]]
  <2>4. ASSUME NEW i \in 0 .. m
        PROVE  g[i] = IF i = 0 THEN Base ELSE Next1(g[i - 1], i)
    <3>1. CASE i = m
      BY <3>1, <2>2
    <3>2. CASE i # m
      <4>1. i \in 0 .. (m - 1) /\ g[i] = f[i] /\ (i # 0 => g[i - 1] = f[i - 1])
        BY <3>2, <2>2
      <4>2. f[i] = IF i = 0 THEN Base ELSE Next1(f[i - 1], i)
        BY <4>1, <2>3
      <4> QED
        BY <4>1, <4>2
    <3> QED
      BY <3>1, <3>2
  <2>5. Fits(g, m)
    BY <2>4
  <2> QED
    BY <2>1, <2>5
<1>2. PICK f : Fits(f, Len(r))
  BY <1>1
<1>3. f = [n \in 0 .. Len(r) |-> IF n = 0 THEN Begin(size, header)
             ELSE PutByte(f[n - 1], r[n])]
  BY <1>2, Zenon DEF Base, Next1
<1> QED
  BY <1>3, Zenon DEF Written

(* A unit has five bytes and at most two for each byte of the RBSP. *)
LEMMA ShortNal ==
  ASSUME NEW size \in Int, NEW header, NEW r, NEW k \in Nat, Short(r, k)
  PROVE  Short(WriteNal(size, header, r), 5 + 2 * k)
<1> DEFINE W == Written(size, header, r)
           n == Len(r)
           Bad == {i \in 0 .. n : ~ Short(W[i].out, 5 + 2 * i)}
<1>1. n \in Nat /\ n <= k
  BY DEF Short
<1>2. \A i \in 0 .. n : W[i] = IF i = 0 THEN Begin(size, header) ELSE PutByte(W[i - 1], r[i])
  BY <1>1, WrittenDef
<1> HIDE DEF W, n
<1>3. Short(W[0].out, 5)
  <2>1. CASE size < 5
    <3>1. W[0].out = <<>>
      BY <1>1, <1>2, <2>1 DEF Begin, StartCode
    <3>2. <<>> \in Seq({}) /\ Len(<<>>) <= 5
      OBVIOUS
    <3> QED
      BY <3>1, <3>2 DEF Short
  <2>2. CASE ~ (size < 5)
    <3>1. W[0].out = <<0, 0, 0, 1, header>>
      BY <1>1, <1>2, <2>2 DEF Begin, StartCode, Prefix
    <3>2. <<0, 0, 0, 1, header>> \in Seq({0, 1, header}) /\ Len(<<0, 0, 0, 1, header>>) <= 5
      OBVIOUS
    <3> QED
      BY <3>1, <3>2 DEF Short
  <2> QED
    BY <2>1, <2>2
<1>4. ASSUME Bad # {} PROVE FALSE
  <2>1. Bad \subseteq Nat
    BY <1>1
  <2>2. PICK m \in Bad : \A i \in Bad : m <= i
    BY <2>1, <1>4, Least
  <2>3. m # 0
    BY <1>3, <2>2
  <2>4. m \in 1 .. n /\ m - 1 \in 0 .. n /\ m - 1 \in Nat /\ ~ (m <= m - 1)
    BY <2>2, <2>3, <1>1
  <2>5. Short(W[m - 1].out, 5 + 2 * (m - 1))
    BY <2>2, <2>4
  <2>6. Short(PutByte(W[m - 1], r[m]).out, 5 + 2 * (m - 1) + 2)
    <3>1. 5 + 2 * (m - 1) \in Nat
      BY <2>4
    <3> QED
      BY <2>5, <3>1, ShortPut
  <2>7. W[m].out = PutByte(W[m - 1], r[m]).out /\ 5 + 2 * (m - 1) + 2 = 5 + 2 * m
    BY <1>2, <2>4
  <2> QED
    BY <2>2, <2>6, <2>7
<1>5. Short(W[n].out, 5 + 2 * n)
  BY <1>1, <1>4
<1>6. WriteNal(size, header, r) = W[n].out
  BY DEF WriteNal, W, n
<1> QED
  BY <1>1, <1>5, <1>6 DEF Short

-------------------------------------------------------------------------------
(* The parameter sets of any controls *)

LevelTypes   == 0 .. 255
QpTypes      == 0 .. 51
ControlTypes == [width : Nat, height : Nat, main : BOOLEAN, cabac : BOOLEAN,
                 level : LevelTypes, qp : QpTypes]

(* The limits of the format. *)
CodedSize(c) ==
  /\ c.width \in Nat /\ 176 <= c.width /\ c.width <= 4096
  /\ c.height \in Nat /\ 144 <= c.height /\ c.height <= 2560

(* Rounding up to whole macroblocks. *)
LEMMA RoundUp ==
  ASSUME NEW lim \in Nat, NEW x \in Nat, 1 <= x, x <= 16 * lim,
         NEW n, n = Align(x, 16) \div 16
  PROVE  n \in 1 .. lim /\ 16 * n - x \in 0 .. 15
<1> DEFINE m == (x + 15) \div 16
<1>2. m \in Nat /\ 16 * m <= x + 15 /\ x + 15 < 16 * m + 16
  BY SMT
<1>3. Align(x, 16) = m * 16
  <2>1. x + 16 - 1 = x + 15
    OBVIOUS
  <2> QED
    BY <2>1 DEF Align
<1> HIDE DEF m
<1>4. (m * 16) \div 16 = m
  BY <1>2
<1> QED
  BY <1>2, <1>3, <1>4

(* The frame in macroblocks, and what is cropped of them. *)
LEMMA Macroblocks ==
  ASSUME NEW c, CodedSize(c)
  PROVE  /\ MbW(c) \in 1 .. 256 /\ 16 * MbW(c) - c.width \in 0 .. 15
         /\ MbH(c) \in 1 .. 160 /\ 16 * MbH(c) - c.height \in 0 .. 15
<1> DEFINE m  == MbW(c)
           n  == MbH(c)
           lw == 256
           lh == 160
<1>1. /\ lw \in Nat /\ c.width \in Nat /\ 1 <= c.width /\ c.width <= 16 * lw
      /\ m = Align(c.width, 16) \div 16
  BY SMT DEF CodedSize, MbW
<1>2. /\ lh \in Nat /\ c.height \in Nat /\ 1 <= c.height /\ c.height <= 16 * lh
      /\ n = Align(c.height, 16) \div 16
  BY SMT DEF CodedSize, MbH
<1> HIDE DEF m, n, lw, lh
<1>3. m \in 1 .. lw /\ 16 * m - c.width \in 0 .. 15
  BY <1>1, RoundUp
<1>4. n \in 1 .. lh /\ 16 * n - c.height \in 0 .. 15
  BY <1>2, RoundUp
<1> QED
  BY <1>3, <1>4 DEF m, n, lw, lh

(* The cropping of the SPS. *)
LEMMA ShortCrop ==
  ASSUME NEW c, CodedSize(c)
  PROVE  Short(Crop(c), 37)
<1> DEFINE right  == (16 * MbW(c) - c.width) \div 2
           bottom == (16 * MbH(c) - c.height) \div 2
           b == U(1, 1) \o Ue(0) \o Ue(right) \o Ue(0)
<1>1. right \in 0 .. 255 /\ bottom \in 0 .. 255
  BY Macroblocks
<1>2. Crop(c) = b \o Ue(bottom) \/ Crop(c) = U(0, 1)
  BY DEF Crop
<1> HIDE DEF right, bottom
<1>3. /\ Short(U(1, 1), 1) /\ Short(U(0, 1), 1)
      /\ Short(Ue(0), 1) /\ Short(Ue(right), 17) /\ Short(Ue(bottom), 17)
  <2>1. 0 \in 0 .. 255 /\ 1 \in Nat
    OBVIOUS
  <2> QED
    BY <1>1, <2>1, ShortBits, ShortUe
<1>4. Short(b, 1 + 1 + 17 + 1)
  BY <1>3, ShortJoin4
<1> HIDE DEF b
<1>5. Short(b \o Ue(bottom), 1 + 1 + 17 + 1 + 17)
  BY <1>3, <1>4, ShortJoin
<1>6. Short(U(0, 1), 1 + 1 + 17 + 1 + 17)
  BY <1>3 DEF Short
<1> DEFINE n == 1 + 1 + 17 + 1 + 17
<1>7. n = 37
  OBVIOUS
<1> HIDE DEF n
<1>8. Short(Crop(c), n)
  BY <1>2, <1>5, <1>6 DEF n
<1> QED
  BY <1>7, <1>8

(* The longest SPS. *)
LEMMA ShortSps ==
  ASSUME NEW c, CodedSize(c)
  PROVE  Short(Sps(c), 152)
<1> DEFINE mbw == Ue(MbW(c) - 1)
           mbh == Ue(MbH(c) - 1)
           a1 == U(IF c.main THEN 77 ELSE 66, 8) \o U(0, 8) \o U(c.level, 8) \o Ue(0)
           a2 == a1 \o Ue(Log2MaxFrameNum) \o Ue(0) \o Ue(Log2MaxPocLsb)
           a3 == a2 \o Ue(1) \o U(0, 1) \o mbw
           a4 == a3 \o mbh \o U(1, 1) \o U(1, 1)
           a5 == a4 \o Crop(c)
<1>1. Sps(c) = a5 \o U(0, 1)
  BY DEF Sps
<1>2. Short(mbw, 17) /\ Short(mbh, 17)
  <2>1. MbW(c) - 1 \in 0 .. 255 /\ MbH(c) - 1 \in 0 .. 255
    BY Macroblocks
  <2> QED
    BY <2>1, ShortUe
<1>3. /\ Short(Ue(0), 1) /\ Short(Ue(1), 17)
      /\ Short(Ue(Log2MaxFrameNum), 17) /\ Short(Ue(Log2MaxPocLsb), 17)
  <2>1. /\ 0 \in 0 .. 255 /\ 1 \in 0 .. 255
        /\ Log2MaxFrameNum \in 0 .. 255 /\ Log2MaxPocLsb \in 0 .. 255
    BY DEF Log2MaxFrameNum, Log2MaxPocLsb
  <2> QED
    BY <2>1, ShortUe
<1>4. /\ Short(U(IF c.main THEN 77 ELSE 66, 8), 8) /\ Short(U(0, 8), 8)
      /\ Short(U(c.level, 8), 8) /\ Short(U(0, 1), 1) /\ Short(U(1, 1), 1)
  <2>1. 8 \in Nat /\ 1 \in Nat
    OBVIOUS
  <2> QED
    BY <2>1, ShortBits
<1> HIDE DEF mbw, mbh
<1>5. Short(a1, 25)
  <2>1. Short(a1, 8 + 8 + 8 + 1)
    BY <1>3, <1>4, ShortJoin4
  <2> QED
    BY <2>1
<1> HIDE DEF a1
<1>6. Short(a2, 60)
  <2>1. Short(a2, 25 + 17 + 1 + 17)
    BY <1>3, <1>5, ShortJoin4
  <2> QED
    BY <2>1
<1> HIDE DEF a2
<1>7. Short(a3, 95)
  <2>1. Short(a3, 60 + 17 + 1 + 17)
    BY <1>2, <1>3, <1>4, <1>6, ShortJoin4
  <2> QED
    BY <2>1
<1> HIDE DEF a3
<1>8. Short(a4, 114)
  <2>1. Short(a4, 95 + 17 + 1 + 1)
    BY <1>2, <1>4, <1>7, ShortJoin4
  <2> QED
    BY <2>1
<1> HIDE DEF a4
<1>9. Short(a5, 114 + 37)
  BY <1>8, ShortCrop, ShortJoin
<1> HIDE DEF a5
<1>10. Short(a5 \o U(0, 1), 114 + 37 + 1)
  BY <1>4, <1>9, ShortJoin
<1> QED
  BY <1>1, <1>10 DEF Short

(* The longest PPS. *)
LEMMA ShortPps ==
  ASSUME NEW c, c.qp \in 0 .. 51
  PROVE  Short(Pps(c), 32)
<1> DEFINE qp == Se(c.qp - 26)
           a1 == Ue(0) \o Ue(0) \o U(IF c.cabac THEN 1 ELSE 0, 1) \o U(0, 1)
           a2 == a1 \o Ue(0) \o Ue(0) \o Ue(0)
           a3 == a2 \o U(0, 1) \o U(0, 2) \o qp
           a4 == a3 \o Se(0) \o Se(0) \o U(1, 1)
           a5 == a4 \o U(0, 1)
<1>1. Pps(c) = a5 \o U(0, 1)
  BY DEF Pps
<1>2. Short(Ue(0), 1) /\ Short(Se(0), 1)
  <2>1. 0 \in 0 .. 255 /\ Se(0) = Ue(0)
    BY DEF Se
  <2> QED
    BY <2>1, ShortUe
<1>3. Short(qp, 17)
  <2> DEFINE v == c.qp - 26
             u == IF v <= 0 THEN (-v) * 2 ELSE v * 2 - 1
  <2>1. u \in 0 .. 255
    OBVIOUS
  <2>2. qp = Ue(u)
    BY DEF Se
  <2> HIDE DEF u
  <2> QED
    BY <2>1, <2>2, ShortUe
<1>4. /\ Short(U(IF c.cabac THEN 1 ELSE 0, 1), 1) /\ Short(U(0, 1), 1)
      /\ Short(U(1, 1), 1) /\ Short(U(0, 2), 2)
  <2>1. 1 \in Nat /\ 2 \in Nat
    OBVIOUS
  <2> QED
    BY <2>1, ShortBits
<1> HIDE DEF qp
<1>5. Short(a1, 4)
  <2>1. Short(a1, 1 + 1 + 1 + 1)
    BY <1>2, <1>4, ShortJoin4
  <2> QED
    BY <2>1
<1> HIDE DEF a1
<1>6. Short(a2, 7)
  <2>1. Short(a2, 4 + 1 + 1 + 1)
    BY <1>2, <1>5, ShortJoin4
  <2> QED
    BY <2>1
<1> HIDE DEF a2
<1>7. Short(a3, 27)
  <2>1. Short(a3, 7 + 1 + 2 + 17)
    BY <1>3, <1>4, <1>6, ShortJoin4
  <2> QED
    BY <2>1
<1> HIDE DEF a3
<1>8. Short(a4, 30)
  <2>1. Short(a4, 27 + 1 + 1 + 1)
    BY <1>2, <1>4, <1>7, ShortJoin4
  <2> QED
    BY <2>1
<1> HIDE DEF a4
<1>9. Short(a5, 30 + 1)
  BY <1>4, <1>8, ShortJoin
<1> HIDE DEF a5
<1>10. Short(a5 \o U(0, 1), 30 + 1 + 1)
  BY <1>4, <1>9, ShortJoin
<1> QED
  BY <1>1, <1>10 DEF Short

-------------------------------------------------------------------------------
(* The threshold of the core's watchdog *)

(* Quotient and remainder. *)
LEMMA DivMod ==
  ASSUME NEW a \in Nat, NEW p \in Nat, p > 0
  PROVE  /\ a \div p \in Nat /\ a % p \in Nat
         /\ a % p = a - p * (a \div p)
         /\ p * (a \div p) <= a /\ a < p * (a \div p) + p
<1> DEFINE q == a \div p
<1>1. a \in Int /\ p \in Int /\ q \in Int
  BY SMT
<1>2. p * q <= a /\ a < p * q + p
  BY <1>1, SMT
<1>3. a % p = a - p * q
  BY <1>1, SMT
<1>4. q \in Nat
  BY SMT
<1>5. a % p \in Nat
  BY SMT
<1> QED
  BY <1>2, <1>3, <1>4, <1>5

(* Dividing an inequality. *)
LEMMA Cancel ==
  ASSUME NEW x \in Int, NEW y \in Int, NEW p \in Nat, p > 0, p * x < p * y
  PROVE  x < y
<1>1. SUFFICES ASSUME y <= x PROVE FALSE
  OBVIOUS
<1>2. x - y \in Nat
  BY <1>1
<1>3. p * (x - y) \in Nat
  BY <1>2
<1>4. p * (x - y) = p * x - p * y
  OBVIOUS
<1> QED
  BY <1>3, <1>4

(* CHOOSE finds the first row, if there is one. *)
LEMMA FirstRow ==
  ASSUME NEW rows, NEW first \in rows, \A q \in rows : first[1] <= q[1],
         NEW row, row = CHOOSE r \in rows : \A q \in rows : r[1] <= q[1]
  PROVE  row \in rows /\ \A q \in rows : row[1] <= q[1]
BY Zenon

(* The first row of the table that is large enough, for any frame the format
   admits. *)
LEMMA WdgRows ==
  ASSUME NEW pixels \in Nat, pixels <= 4096 * 2560
  PROVE  WdgMs(pixels) \in {50, 100, 200, 400}
<1> DEFINE rows == {r \in WdgTable : pixels <= r[1]}
           First(r) == r \in rows /\ \A q \in rows : r[1] <= q[1]
<1>1. WdgTable = {<<2088960, 50>>, <<3686400, 100>>, <<9437184, 200>>,
                  <<67108864, 400>>, <<132710400, 800>>}
  BY SMT DEF WdgTable
<1>2. pixels <= 67108864
  BY SMT
<1>3. \E r : First(r)
  <2>1. CASE pixels <= 2088960
    <3>1. First(<<2088960, 50>>)
      BY <2>1, <1>1, SMT
    <3> QED
      BY <3>1, SMT
  <2>2. CASE pixels > 2088960 /\ pixels <= 3686400
    <3>1. First(<<3686400, 100>>)
      BY <2>2, <1>1, SMT
    <3> QED
      BY <3>1, SMT
  <2>3. CASE pixels > 3686400 /\ pixels <= 9437184
    <3>1. First(<<9437184, 200>>)
      BY <2>3, <1>1, SMT
    <3> QED
      BY <3>1, SMT
  <2>4. CASE pixels > 9437184
    <3>1. First(<<67108864, 400>>)
      BY <2>4, <1>1, <1>2, SMT
    <3> QED
      BY <3>1, SMT
  <2> QED
    BY <2>1, <2>2, <2>3, <2>4, SMT
<1> DEFINE row == CHOOSE r \in rows : \A q \in rows : r[1] <= q[1]
<1>4. First(row)
  <2> HIDE DEF rows
  <2> QED
    BY <1>3, FirstRow, SMT
<1>5. row[2] \in {50, 100, 200, 400}
  <2> HIDE DEF row
  <2>1. row \in WdgTable
    BY <1>4, SMT
  <2>2. <<67108864, 400>> \in rows
    BY <1>1, <1>2, SMT
  <2>3. row[1] <= <<67108864, 400>>[1]
    BY <1>4, <2>2, SMT
  <2> QED
    BY <2>1, <2>3, <1>1, SMT
<1>6. WdgMs(pixels) = row[2]
  BY SMT DEF WdgMs
<1> QED
  BY <1>5, <1>6, SMT

(* Cycles per millisecond of the largest unsigned int in Hz. *)
MaxPerMs == 4294967

(* The register, and its milliseconds, at p cycles per millisecond. *)
Threshold(t, p) == Clamp((t * p) \div 256, 0, 2 ^ 24 - 1)
Expires(thd, p) == (thd \div p) * 256 + ((thd % p) * 256) \div p

(* The threshold for t milliseconds at p cycles a millisecond is not clamped,
   and makes the core give up within the last millisecond of t. *)
LEMMA WdgArithmetic ==
  ASSUME NEW t \in {50, 100, 200, 400}, NEW p \in Nat, p >= 256, p <= MaxPerMs,
         NEW thd, thd = Threshold(t, p), NEW ms, ms = Expires(thd, p)
  PROVE  ms \in Nat /\ ms <= t /\ ms + 1 >= t
<1> DEFINE a == t * p
           v == a \div 256
           q == v \div p
           r == v % p
           s == (r * 256) \div p
<1>1. a \in Nat /\ a <= 400 * 4294967
  BY SMT DEF MaxPerMs
<1>2. v \in Nat /\ 256 * v <= a /\ a < 256 * v + 256
  BY <1>1
<1>3. thd = v
  <2>1. 2 ^ 24 - 1 = 16777215
    BY SMT
  <2>2. ~ (v < 0) /\ ~ (v > 16777215)
    BY <1>1, <1>2, SMT
  <2> HIDE DEF v
  <2>3. thd = Clamp(v, 0, 16777215)
    BY <2>1, SMT DEF v, Threshold
  <2> QED
    BY <2>2, <2>3, SMT DEF Clamp
<1> HIDE DEF v
<1>4. q \in Nat /\ r \in Nat /\ r = v - p * q
  BY <1>2, DivMod
<1> HIDE DEF q, r
<1>5. s \in Nat /\ p * s <= r * 256 /\ r * 256 < p * s + p
  <2>1. r * 256 \in Nat /\ p > 0
    BY <1>4
  <2> DEFINE x == r * 256
  <2> HIDE DEF x
  <2>2. x \div p \in Nat /\ p * (x \div p) <= x /\ x < p * (x \div p) + p
    BY <2>1, DivMod DEF x
  <2> QED
    BY <2>2 DEF x
<1> HIDE DEF s
<1>6. ms = 256 * q + s
  BY <1>3, <1>4, <1>5 DEF q, r, s, Expires
<1>7. ms \in Nat
  BY <1>4, <1>5, <1>6
<1> DEFINE pq == p * q
           ps == p * s
           pm == p * ms
<1>8. pm = 256 * pq + ps /\ pq \in Nat /\ ps \in Nat /\ pm \in Nat
  BY <1>4, <1>5, <1>6, <1>7
<1> HIDE DEF a
<1>9. pm <= 256 * v /\ 256 * v < pm + p
  <2> HIDE DEF pq, ps, pm
  <2>1. r = v - pq /\ ps <= r * 256 /\ r * 256 < ps + p
    BY <1>4, <1>5 DEF pq, ps
  <2> QED
    BY <2>1, <1>2, <1>8
<1>10. p * ms < p * (t + 1) /\ p * (t - 1) < p * (ms + 1)
  <2>1. p * (t + 1) = a + p /\ p * (t - 1) = a - p /\ p * (ms + 1) = pm + p
    BY <1>7 DEF a
  <2> HIDE DEF pm
  <2>2. pm < a + p /\ a - p < pm + p
    BY <1>1, <1>2, <1>8, <1>9
  <2> QED
    BY <2>1, <2>2 DEF pm
<1>11. ms < t + 1
  BY <1>7, <1>10, Cancel
<1>12. t - 1 < ms + 1
  BY <1>7, <1>10, Cancel
<1> QED
  BY <1>7, <1>11, <1>12

-------------------------------------------------------------------------------
(* Both parameter sets in sps_pps_nal, and the registers of a later frame. *)
HeaderInv ==
  /\ step \in {"fmt", "sps", "pps", "done", "run"}
  /\ ctrl \in ControlTypes
  /\ step # "fmt" => CodedSize(ctrl)
  /\ step \in {"fmt", "sps"} => nals = <<>>
  /\ step = "pps" => Short(nals, 45)
  /\ step \in {"done", "run"} => Short(nals, 60)
  /\ step = "run" => /\ regs.clk \in ClkRates
                     /\ regs.wdg = CalcWdg(ctrl.width, ctrl.height, regs.clk)

(* Rounding up to an even size does not leave even limits. *)
LEMMA StaysWithin ==
  ASSUME NEW lo \in Nat, NEW hi \in Nat, NEW x \in Nat, 2 * lo <= x, x <= 2 * hi
  PROVE  Align(x, 2) \in Nat /\ 2 * lo <= Align(x, 2) /\ Align(x, 2) <= 2 * hi
<1> DEFINE q == (x + 1) \div 2
<1>1. q \in Nat /\ 2 * q <= x + 1 /\ x + 1 < 2 * q + 2
  BY SMT
<1>2. Align(x, 2) = q * 2
  <2>1. x + 2 - 1 = x + 1
    OBVIOUS
  <2> QED
    BY <2>1 DEF Align
<1> HIDE DEF q
<1> QED
  BY <1>1, <1>2

(* rkvenc_fill_coded_fmt() keeps to the limits of the format. *)
LEMMA CodedSizes ==
  ASSUME NEW w \in Nat, NEW h \in Nat
  PROVE  /\ CodedWidth(w) \in Nat /\ 176 <= CodedWidth(w) /\ CodedWidth(w) <= 4096
         /\ CodedHeight(h) \in Nat /\ 144 <= CodedHeight(h) /\ CodedHeight(h) <= 2560
<1> DEFINE a == Clamp(w, 176, 4096)
           b == Clamp(h, 144, 2560)
<1>1. /\ a \in Nat /\ 176 <= a /\ a <= 4096
      /\ b \in Nat /\ 144 <= b /\ b <= 2560
  BY SMT DEF Clamp
<1>2. CodedWidth(w) = Align(a, 2) /\ CodedHeight(h) = Align(b, 2)
  BY SMT DEF CodedWidth, CodedHeight, MinWidth, MaxWidth, MinHeight, MaxHeight
<1> HIDE DEF a, b
<1> DEFINE l1 == 88
           h1 == 2048
           l2 == 72
           h2 == 1280
<1>3. /\ l1 \in Nat /\ h1 \in Nat /\ a \in Nat /\ 2 * l1 <= a /\ a <= 2 * h1
      /\ l2 \in Nat /\ h2 \in Nat /\ b \in Nat /\ 2 * l2 <= b /\ b <= 2 * h2
  BY <1>1, SMT
<1>4. /\ 2 * l1 = 176 /\ 2 * h1 = 4096 /\ 2 * l2 = 144 /\ 2 * h2 = 2560
  BY SMT
<1> HIDE DEF l1, h1, l2, h2
<1>5. Align(a, 2) \in Nat /\ 2 * l1 <= Align(a, 2) /\ Align(a, 2) <= 2 * h1
  BY <1>3, StaysWithin
<1>6. Align(b, 2) \in Nat /\ 2 * l2 <= Align(b, 2) /\ Align(b, 2) <= 2 * h2
  BY <1>3, StaysWithin
<1> QED
  BY <1>2, <1>4, <1>5, <1>6, SMT

(* S_FMT changes two fields and keeps the others. *)
LEMMA Resized ==
  ASSUME NEW L, NEW Q,
         NEW c \in [width : Nat, height : Nat, main : BOOLEAN, cabac : BOOLEAN,
                    level : L, qp : Q],
         NEW w \in Nat, NEW h \in Nat,
         NEW d, d = [c EXCEPT !.width = w, !.height = h]
  PROVE  /\ d \in [width : Nat, height : Nat, main : BOOLEAN, cabac : BOOLEAN,
                   level : L, qp : Q]
         /\ d.width = w /\ d.height = h
<1> DEFINE c1 == [c EXCEPT !.width = w]
           c2 == [c1 EXCEPT !.height = h]
<1>1. /\ c1 \in [width : Nat, height : Nat, main : BOOLEAN, cabac : BOOLEAN,
                 level : L, qp : Q]
      /\ c1.width = w
  OBVIOUS
<1>2. d = c2
  OBVIOUS
<1> HIDE DEF c1
<1>3. /\ c2 \in [width : Nat, height : Nat, main : BOOLEAN, cabac : BOOLEAN,
                 level : L, qp : Q]
      /\ c2.width = w /\ c2.height = h
  BY <1>1
<1> HIDE DEF c2
<1> QED
  BY <1>2, <1>3

(* The invariant, step by step. *)
LEMMA HeaderInit == ParamInit => HeaderInv
<1> SUFFICES ASSUME ParamInit PROVE HeaderInv
  OBVIOUS
<1>1. ctrl \in ControlTypes
  <2>1. /\ Widths \subseteq Nat /\ Heights \subseteq Nat
        /\ Levels \subseteq LevelTypes /\ Qps \subseteq QpTypes
    BY ParamConstantsOK DEF LevelTypes, QpTypes
  <2>2. ctrl \in [width : Widths, height : Heights, main : BOOLEAN,
                  cabac : BOOLEAN, level : Levels, qp : Qps]
    BY DEF ParamInit, Controls
  <2> QED
    BY <2>1, <2>2, Zenon DEF ControlTypes
<1> QED
  BY <1>1 DEF ParamInit, HeaderInv

(* S_FMT starts from empty parameter sets. *)
LEMMA SFmtCapKeeps == HeaderInv /\ SFmtCap => HeaderInv'
<1> SUFFICES ASSUME HeaderInv, SFmtCap PROVE HeaderInv'
  OBVIOUS
<1> DEFINE cw == CodedWidth(ctrl.width)
           ch == CodedHeight(ctrl.height)
<1>1. ctrl \in ControlTypes /\ nals = <<>>
  BY DEF HeaderInv, SFmtCap
<1>2. /\ cw \in Nat /\ 176 <= cw /\ cw <= 4096
      /\ ch \in Nat /\ 144 <= ch /\ ch <= 2560
  <2>1. ctrl.width \in Nat /\ ctrl.height \in Nat
    BY <1>1 DEF ControlTypes
  <2> QED
    BY <2>1, CodedSizes, SMT
<1>3. ctrl' = [ctrl EXCEPT !.width = cw, !.height = ch]
  BY DEF SFmtCap
<1> HIDE DEF cw, ch
<1>4. ctrl' \in ControlTypes /\ ctrl'.width = cw /\ ctrl'.height = ch
  <2>1. cw \in Nat /\ ch \in Nat
    BY <1>2, SMT
  <2> QED
    BY <1>1, <1>3, <2>1, Resized DEF ControlTypes
<1> QED
  BY <1>1, <1>2, <1>4, SMT DEF HeaderInv, SFmtCap, CodedSize

(* A unit of a short RBSP in what is left of sps_pps_nal. *)
LEMMA ShortUnit ==
  ASSUME NEW n \in Nat, Short(nals, n), NEW header, NEW bits, NEW m \in Nat, Short(bits, m),
         NEW l \in Nat, 4 * (l - 5) >= m + 8, Put(header, bits)
  PROVE  Short(nals', n + l)
<1>1. PICK k \in Nat : Short(Pack(bits), k) /\ 8 * k <= m + 8
  BY ShortPack
<1> DEFINE size == NalBufSize - Len(nals)
           unit == WriteNal(size, header, Pack(bits))
<1>2. size \in Int
  BY DEF Short, NalBufSize
<1> HIDE DEF size
<1>3. Short(unit, 5 + 2 * k)
  BY <1>1, <1>2, ShortNal
<1>4. 5 + 2 * k <= l
  BY <1>1
<1>5. nals' = nals \o unit
  BY DEF Put, size
<1> HIDE DEF unit
<1>6. Short(unit, l)
  BY <1>3, <1>4 DEF Short
<1> QED
  BY <1>5, <1>6, ShortJoin

(* The SPS takes at most 45 bytes of sps_pps_nal, *)
LEMMA PutSpsKeeps == HeaderInv /\ PutSps => HeaderInv'
<1> SUFFICES ASSUME HeaderInv, PutSps PROVE HeaderInv'
  OBVIOUS
<1> DEFINE bits == Sps(ctrl)
<1>1. CodedSize(ctrl) /\ nals = <<>> /\ Put(SpsHeader, bits)
  BY DEF HeaderInv, PutSps
<1>2. Short(bits, 152)
  BY <1>1, ShortSps
<1> HIDE DEF bits
<1>3. Short(nals, 0)
  <2>1. <<>> \in Seq({}) /\ Len(<<>>) <= 0
    OBVIOUS
  <2> QED
    BY <1>1, <2>1 DEF Short
<1>4. Short(nals', 0 + 45)
  BY <1>1, <1>2, <1>3, ShortUnit
<1> QED
  BY <1>4 DEF HeaderInv, PutSps

(* and the PPS 15 more. *)
LEMMA PutPpsKeeps == HeaderInv /\ PutPps => HeaderInv'
<1> SUFFICES ASSUME HeaderInv, PutPps PROVE HeaderInv'
  OBVIOUS
<1> DEFINE bits == Pps(ctrl)
<1>1. ctrl.qp \in 0 .. 51 /\ Short(nals, 45) /\ Put(PpsHeader, bits)
  BY DEF HeaderInv, PutPps, ControlTypes, QpTypes
<1>2. Short(bits, 32)
  BY <1>1, ShortPps
<1> HIDE DEF bits
<1>3. Short(nals', 45 + 15)
  BY <1>1, <1>2, ShortUnit
<1> QED
  BY <1>3 DEF HeaderInv, PutPps

(* A later frame keeps both. *)
LEMMA ProgramKeeps == HeaderInv /\ Program => HeaderInv'
<1> SUFFICES ASSUME HeaderInv, Program PROVE HeaderInv'
  OBVIOUS
<1>1. PICK clk \in ClkRates :
        regs'.clk = clk /\ regs'.wdg = CalcWdg(ctrl.width, ctrl.height, clk)
  BY DEF Program
<1> QED
  BY <1>1 DEF HeaderInv, Program

(* The invariant of the parameter sets. *)
LEMMA HeaderInvariance == ParamSpec => []HeaderInv
<1>1. HeaderInv /\ UNCHANGED paramVars => HeaderInv'
  BY DEF HeaderInv, paramVars
<1>2. HeaderInv /\ [ParamNext]_paramVars => HeaderInv'
  BY <1>1, SFmtCapKeeps, PutSpsKeeps, PutPpsKeeps, ProgramKeeps DEF ParamNext
<1> QED
  BY <1>2, HeaderInit, PTL DEF ParamSpec

(* No frame of the format is larger than 4096 by 2560. *)
LEMMA LargestFrame ==
  ASSUME NEW w \in Nat, NEW h \in Nat, w <= 4096, h <= 2560
  PROVE  w * h \in Nat /\ w * h <= 4096 * 2560
<1>1. (4096 - w) * h \in Nat
  BY SMT
<1>2. (4096 - w) * h = 4096 * h - w * h
  BY SMT
<1> QED
  BY <1>1, <1>2, SMT

(* Whatever sizes user space asks for and whatever the level and the QP, both
   parameter sets fit in sps_pps_nal and in the RBSP buffer, so that neither
   bw_put_bit() nor rkvenc_write_nal() drops anything. *)
THEOREM HeadersFitTheorem == ParamSpec => []HeadersFit
<1>1. HeaderInv => HeadersFit
  <2> SUFFICES ASSUME HeaderInv, step # "fmt" PROVE
        /\ Len(nals) < NalBufSize
        /\ (Len(Sps(ctrl)) + 1) \div 8 < RbspSize
        /\ (Len(Pps(ctrl)) + 1) \div 8 < RbspSize
    BY DEF HeadersFit
  <2>1. Short(nals, 60)
    <3>1. CASE step = "sps"
      <4>1. <<>> \in Seq({}) /\ Len(<<>>) <= 60
        OBVIOUS
      <4> QED
        BY <3>1, <4>1 DEF HeaderInv, Short
    <3>2. CASE step = "pps"
      BY <3>2 DEF HeaderInv, Short
    <3> QED
      BY <3>1, <3>2 DEF HeaderInv
  <2>2. Short(Sps(ctrl), 152) /\ Short(Pps(ctrl), 32)
    BY ShortSps, ShortPps DEF HeaderInv, ControlTypes, QpTypes
  <2> QED
    BY <2>1, <2>2 DEF Short, NalBufSize, RbspSize
<1> QED
  BY <1>1, HeaderInvariance, PTL

(* For every frame size and clock rate the core gives up in the last
   millisecond that the table of rkvenc_calc_wdg() allows, and before
   rkvenc_watchdog(): the rounding to units of 256 cycles costs less than a
   millisecond and the 24-bit field never clamps, if the core runs at 256 kHz
   or more. *)
THEOREM WatchdogTheorem ==
  (\A clk \in ClkRates : clk >= 256000) => (ParamSpec => []HardwareWatchdogFirst)
<1> SUFFICES ASSUME \A clk \in ClkRates : clk >= 256000
             PROVE  ParamSpec => []HardwareWatchdogFirst
  OBVIOUS
<1>1. HeaderInv => HardwareWatchdogFirst
  <2> SUFFICES ASSUME HeaderInv, step = "run"
               PROVE  LET ms == HardwareMs(regs.wdg, regs.clk) IN
                      ms < SoftwareMs /\ ms + 1 >= WdgMs(ctrl.width * ctrl.height)
    BY SMT DEF HardwareWatchdogFirst
  <2> DEFINE t  == WdgMs(ctrl.width * ctrl.height)
             p  == regs.clk \div 1000
             ms == HardwareMs(regs.wdg, regs.clk)
             thd == regs.wdg
  <2>1. t \in {50, 100, 200, 400}
    <3> DEFINE pixels == ctrl.width * ctrl.height
    <3>1. pixels \in Nat /\ pixels <= 4096 * 2560
      <4>1. /\ ctrl.width \in Nat /\ ctrl.width <= 4096
            /\ ctrl.height \in Nat /\ ctrl.height <= 2560
        BY SMT DEF HeaderInv, CodedSize
      <4> QED
        BY <4>1, LargestFrame, SMT
    <3> HIDE DEF pixels
    <3>2. WdgMs(pixels) \in {50, 100, 200, 400}
      BY <3>1, WdgRows, SMT
    <3> QED
      BY <3>2, SMT DEF pixels
  <2>2. p \in Nat /\ p >= 256 /\ p <= MaxPerMs
    <3> DEFINE clk == regs.clk
    <3>1. clk \in ClkRates
      BY SMT DEF HeaderInv
    <3> HIDE DEF clk
    <3>2. clk \in Nat /\ clk >= 256000 /\ clk \div 1000 <= 4294967
      BY <3>1, ParamConstantsOK, SMT
    <3>3. clk \div 1000 \in Nat /\ clk \div 1000 >= 256
      BY <3>2, SMT
    <3> QED
      BY <3>2, <3>3, SMT DEF clk, MaxPerMs
  <2>3. thd = Threshold(t, p)
    BY SMT DEF HeaderInv, CalcWdg, Threshold
  <2>4. ms = Expires(thd, p)
    BY SMT DEF HardwareMs, Expires
  <2> HIDE DEF t, p, ms, thd
  <2>5. ms \in Nat /\ ms <= t /\ ms + 1 >= t
    BY <2>1, <2>2, <2>3, <2>4, WdgArithmetic, SMT
  <2> QED
    BY <2>1, <2>5, SMT DEF SoftwareMs, t, ms
<1> QED
  BY <1>1, HeaderInvariance, PTL

(* The quotient is the one number it can be. *)
LEMMA Quotient ==
  ASSUME NEW a \in Nat, NEW p \in Nat, p > 0, NEW h \in Nat, p * h <= a, a < p * h + p
  PROVE  a \div p = h
<1> DEFINE q == a \div p
<1>1. q \in Nat /\ p * q <= a /\ a < p * q + p
  BY DivMod
<1> HIDE DEF q
<1>2. p * (q + 1) = p * q + p /\ p * (h + 1) = p * h + p
  BY <1>1
<1>3. p * h < p * (q + 1) /\ p * q < p * (h + 1)
  <2>1. p * h \in Int /\ p * q \in Int
    BY <1>1
  <2> QED
    BY <1>1, <1>2, <2>1
<1>4. h < q + 1 /\ q < h + 1
  BY <1>1, <1>3, Cancel
<1>5. q = h
  BY <1>1, <1>4
<1> QED
  BY <1>5 DEF q

(* Halving what has been divided. *)
LEMMA Halves ==
  ASSUME NEW a \in Nat, NEW p \in Nat, p > 0
  PROVE  a \div (2 * p) = (a \div p) \div 2
<1> DEFINE q == a \div p
           h == q \div 2
<1>1. q \in Nat /\ p * q <= a /\ a < p * q + p
  BY DivMod
<1> HIDE DEF q
<1>2. h \in Nat /\ (q = 2 * h \/ q = 2 * h + 1)
  BY <1>1
<1> HIDE DEF h
<1> DEFINE d == 2 * p
<1>3. d \in Nat /\ d > 0 /\ d * h = p * (2 * h) /\ p * (2 * h + 1) = p * (2 * h) + p
      /\ p * (2 * h) \in Int /\ d = p + p
  BY <1>2
<1>4. d * h <= a /\ a < d * h + d
  <2>1. CASE q = 2 * h
    BY <2>1, <1>1, <1>3
  <2>2. CASE q = 2 * h + 1
    BY <2>2, <1>1, <1>3
  <2> QED
    BY <1>2, <2>1, <2>2
<1> HIDE DEF d
<1>5. a \div d = h
  BY <1>2, <1>3, <1>4, Quotient
<1> QED
  BY <1>5 DEF d, h, q

-------------------------------------------------------------------------------
(* Bits and the numbers they stand for *)

Bit == {0, 1}

(* Powers of two, as far as the codes need them. *)
LEMMA Powers ==
  ASSUME NEW k \in 0 .. 17
  PROVE  2 ^ k \in Nat /\ 2 ^ k > 0 /\ 2 ^ (k + 1) = 2 * 2 ^ k
<1> DEFINE P == [n \in 0 .. 18 |-> 2 ^ n]
<1>1. /\ P[0] = 1 /\ P[1] = 2 /\ P[2] = 4 /\ P[3] = 8 /\ P[4] = 16 /\ P[5] = 32
      /\ P[6] = 64 /\ P[7] = 128 /\ P[8] = 256 /\ P[9] = 512 /\ P[10] = 1024
      /\ P[11] = 2048 /\ P[12] = 4096 /\ P[13] = 8192 /\ P[14] = 16384
      /\ P[15] = 32768 /\ P[16] = 65536 /\ P[17] = 131072 /\ P[18] = 262144
  BY SMT
<1>2. P[k] = 2 ^ k /\ P[k + 1] = 2 ^ (k + 1)
  BY SMT
<1> HIDE DEF P
<1>3. P[k] \in Nat /\ P[k] > 0 /\ P[k + 1] = 2 * P[k]
  BY <1>1, SMT
<1> QED
  BY <1>2, <1>3, Zenon

(* bw_put_bits(), bit by bit. *)
LEMMA BitsOf ==
  ASSUME NEW val \in Nat, NEW n \in 0 .. 17
  PROVE  /\ U(val, n) \in Seq(Bit) /\ Len(U(val, n)) = n
         /\ \A i \in 1 .. n : U(val, n)[i] = (val \div 2 ^ (n - i)) % 2
<1>1. ASSUME NEW i \in 1 .. n PROVE (val \div 2 ^ (n - i)) % 2 \in Bit
  <2> DEFINE k == n - i
             d == 2 ^ k
  <2>1. k \in 0 .. 17
    OBVIOUS
  <2> HIDE DEF k
  <2>2. d \in Nat /\ d > 0
    BY <2>1, Powers
  <2> HIDE DEF d
  <2>3. val \div d \in Nat
    BY <2>2, DivMod
  <2>4. (val \div d) % 2 \in Bit
    BY <2>3 DEF Bit
  <2> QED
    BY <2>4 DEF d, k
<1>2. U(val, n) = [i \in 1 .. n |-> (val \div 2 ^ (n - i)) % 2]
  BY DEF U
<1> DEFINE bits == U(val, n)
           V(i) == (val \div 2 ^ (n - i)) % 2
<1>3. bits = [i \in 1 .. n |-> V(i)] /\ \A i \in 1 .. n : V(i) \in Bit
  BY <1>1, <1>2
<1> HIDE DEF bits, V
<1>4. bits \in [1 .. n -> Bit] /\ \A i \in 1 .. n : bits[i] = V(i)
  BY <1>3
<1>5. bits \in Seq(Bit) /\ Len(bits) = n
  BY <1>4
<1> QED
  BY <1>4, <1>5 DEF bits, V

(* The equation that defines Numbers has a solution. *)
LEMMA NumbersDef ==
  ASSUME NEW bits, Len(bits) \in Nat
  PROVE  Numbers(bits) = [n \in 0 .. Len(bits) |->
           IF n = 0 THEN 0 ELSE 2 * Numbers(bits)[n - 1] + bits[n]]
<1> DEFINE Next1(v, n) == 2 * v + bits[n]
           Fits(f, n) == f = [i \in 0 .. n |-> IF i = 0 THEN 0 ELSE Next1(f[i - 1], i)]
           Bad == {n \in Nat : ~ \E f : Fits(f, n)}
<1> HIDE DEF Next1
<1>1. ASSUME Bad # {} PROVE FALSE
  <2>1. PICK m \in Bad : \A k \in Bad : m <= k
    BY <1>1, Least
  <2>2. m # 0
    <3>1. Fits([i \in 0 .. 0 |-> 0], 0)
      OBVIOUS
    <3> QED
      BY <3>1
  <2>3. PICK f : Fits(f, m - 1)
    <3>1. m \in Nat /\ m - 1 \in Nat /\ ~ (m <= m - 1)
      BY <2>2
    <3> HIDE DEF Fits
    <3>2. m - 1 \notin Bad
      BY <2>1, <3>1
    <3> QED
      BY <3>1, <3>2
  <2> DEFINE g == [i \in 0 .. m |-> IF i = m THEN Next1(f[m - 1], m) ELSE f[i]]
  <2>4. ASSUME NEW i \in 0 .. m
        PROVE  g[i] = IF i = 0 THEN 0 ELSE Next1(g[i - 1], i)
    <3>1. CASE i = m
      BY <3>1, <2>2
    <3>2. CASE i # m
      <4>1. i \in 0 .. (m - 1) /\ g[i] = f[i] /\ (i # 0 => g[i - 1] = f[i - 1])
        BY <3>2, <2>2
      <4>2. f[i] = IF i = 0 THEN 0 ELSE Next1(f[i - 1], i)
        BY <4>1, <2>3
      <4> QED
        BY <4>1, <4>2
    <3> QED
      BY <3>1, <3>2
  <2>5. Fits(g, m)
    BY <2>4
  <2> QED
    BY <2>1, <2>5
<1>2. PICK f : Fits(f, Len(bits))
  BY <1>1
<1>3. f = [n \in 0 .. Len(bits) |-> IF n = 0 THEN 0 ELSE 2 * f[n - 1] + bits[n]]
  BY <1>2, Zenon DEF Next1
<1> QED
  BY <1>3, Zenon DEF Numbers

(* The bits of a number stand for it. *)
LEMMA NumberBack ==
  ASSUME NEW n \in 0 .. 17, NEW val \in Nat, val < 2 ^ n
  PROVE  Number(U(val, n)) = val
<1> DEFINE bits == U(val, n)
           N == Numbers(bits)
           Top(k) == val \div 2 ^ (n - k)
           Diff == {k \in 0 .. n : N[k] # Top(k)}
<1>1. /\ bits \in Seq(Bit) /\ Len(bits) = n
      /\ \A i \in 1 .. n : bits[i] = Top(i) % 2
  BY BitsOf
<1>2. \A k \in 0 .. n : N[k] = IF k = 0 THEN 0 ELSE 2 * N[k - 1] + bits[k]
  <2>1. Len(bits) \in Nat /\ Len(bits) = n
    BY <1>1
  <2> HIDE DEF bits
  <2> QED
    BY <2>1, NumbersDef
<1> HIDE DEF N, bits
<1>3. Top(0) = 0
  <2> DEFINE d == 2 ^ n
  <2>1. d \in Nat /\ d > 0 /\ val < d
    BY Powers
  <2>2. 2 ^ (n - 0) = d
    BY SMT
  <2> HIDE DEF d
  <2>3. d * 0 <= val /\ val < d * 0 + d /\ 0 \in Nat
    BY <2>1
  <2>4. val \div d = 0
    BY <2>1, <2>3, Quotient
  <2> QED
    BY <2>2, <2>4
<1>4. ASSUME NEW k \in 1 .. n PROVE Top(k) = 2 * Top(k - 1) + (Top(k) % 2)
  <2> DEFINE m == n - k
             d == 2 ^ m
             q == val \div d
  <2>1. m \in 0 .. 17 /\ n - (k - 1) = m + 1
    OBVIOUS
  <2> HIDE DEF m
  <2>2. d \in Nat /\ d > 0 /\ 2 ^ (m + 1) = 2 * d
    BY <2>1, Powers
  <2> HIDE DEF d
  <2>3. val \div (2 * d) = q \div 2 /\ q \in Nat
    BY <2>2, Halves, DivMod
  <2> HIDE DEF q
  <2>4. q = 2 * (q \div 2) + (q % 2)
    <3>1. q % 2 = q - 2 * (q \div 2) /\ q \div 2 \in Nat
      BY <2>3, DivMod
    <3> DEFINE h == q \div 2
               b == q % 2
    <3>2. h \in Nat /\ b = q - 2 * h
      BY <3>1
    <3> HIDE DEF h, b
    <3>3. q = 2 * h + b
      BY <2>3, <3>2
    <3> QED
      BY <3>3 DEF h, b
  <2>5. Top(k) = q
    BY DEF m, d, q
  <2>6. Top(k - 1) = val \div (2 * d)
    BY <2>1, <2>2
  <2> QED
    BY <2>3, <2>4, <2>5, <2>6, Zenon
<1> HIDE DEF Top
<1>5. ASSUME Diff # {} PROVE FALSE
  <2>1. PICK m \in Diff : \A k \in Diff : m <= k
    <3>1. Diff \subseteq Nat
      OBVIOUS
    <3> QED
      BY <3>1, <1>5, Least
  <2>2. m # 0
    BY <1>2, <1>3
  <2>3. m \in 1 .. n /\ m - 1 \in 0 .. n /\ N[m - 1] = Top(m - 1)
    BY <2>1, <2>2
  <2>4. N[m] = 2 * Top(m - 1) + (Top(m) % 2)
    <3>1. N[m] = 2 * N[m - 1] + bits[m] /\ bits[m] = Top(m) % 2
      BY <2>2, <2>3, <1>1, <1>2
    <3>2. 2 * N[m - 1] + bits[m] = 2 * Top(m - 1) + (Top(m) % 2)
      BY <2>3, <3>1
    <3> QED
      BY <3>1, <3>2
  <2>5. N[m] = Top(m)
    BY <2>3, <2>4, <1>4
  <2> QED
    BY <2>1, <2>5
<1>6. N[n] = Top(n)
  BY <1>5
<1>7. Top(n) = val
  <2>1. 2 ^ (n - n) = 1
    BY SMT
  <2> QED
    BY <2>1 DEF Top
<1> QED
  BY <1>1, <1>6, <1>7 DEF Number, N, bits

LEMMA ElementOf ==
  ASSUME NEW S, NEW s \in Seq(S)
  PROVE  \A i \in 1 .. Len(s) : s[i] \in S
OBVIOUS

(* And bits are those of the number they stand for. *)
LEMMA BitsBack ==
  ASSUME NEW s \in Seq(Bit), NEW n \in 0 .. 17, Len(s) = n
  PROVE  /\ Number(s) \in Nat /\ Number(s) < 2 ^ n /\ U(Number(s), n) = s
         /\ (\E i \in 1 .. n : s[i] = 1) => Number(s) # 0
<1> DEFINE N == Numbers(s)
           v == Number(s)
<1>1. \A k \in 0 .. n : N[k] = IF k = 0 THEN 0 ELSE 2 * N[k - 1] + s[k]
  BY NumbersDef, SMTT(60)
<1>2. \A i \in 1 .. n : s[i] \in Nat /\ (s[i] = 0 \/ s[i] = 1)
  <2>1. \A i \in 1 .. n : s[i] \in Bit
    BY ElementOf
  <2> QED
    BY <2>1 DEF Bit
<1>3. v = N[n]
  BY DEF Number
<1> HIDE DEF N, v
<1>4. \A k \in 0 .. n : N[k] \in Nat /\ N[k] < 2 ^ k
  <2> DEFINE Small(k) == N[k] \in Nat /\ N[k] < 2 ^ k
             Bad == {k \in 0 .. n : ~ Small(k)}
  <2>1. ASSUME Bad # {} PROVE FALSE
    <3>1. PICK m \in Bad : \A k \in Bad : m <= k
      <4>1. Bad \subseteq Nat
        OBVIOUS
      <4> QED
        BY <4>1, <2>1, Least
    <3>2. m # 0
      <4>1. N[0] = 0 /\ 2 ^ 0 = 1
        BY <1>1, SMT
      <4>2. Small(0)
        BY <4>1
      <4> HIDE DEF Small
      <4> QED
        BY <3>1, <4>2
    <3> DEFINE l == m - 1
               d == 2 ^ l
               a == N[l]
               b == s[m]
    <3>3. m \in 1 .. n /\ l \in 0 .. n /\ l \in 0 .. 17 /\ m = l + 1
      BY <3>1, <3>2
    <3>4. a \in Nat /\ a < d
      <4> HIDE DEF Small
      <4>1. Small(l)
        BY <3>1, <3>3
      <4> QED
        BY <4>1 DEF Small
    <3>5. d \in Nat /\ 2 ^ (l + 1) = 2 * d
      <4> HIDE DEF l
      <4> QED
        BY <3>3, Powers
    <3>6. N[m] = 2 * a + b /\ b \in Nat /\ (b = 0 \/ b = 1)
      BY <1>1, <1>2, <3>2, <3>3
    <3> HIDE DEF a, b, d, l
    <3>7. 2 * a + b \in Nat /\ 2 * a + b < 2 * d
      BY <3>4, <3>5, <3>6
    <3>8. Small(m)
      BY <3>3, <3>5, <3>6, <3>7
    <3> QED
      BY <3>1, <3>8
  <2> QED
    BY <2>1
<1>5. ASSUME NEW i \in 1 .. n, NEW j \in 0 .. n, i = j + 1
      PROVE  N[i] \div 2 = N[j] /\ N[i] % 2 = s[i]
  <2> DEFINE a == N[j]
             b == s[i]
             c == N[i]
  <2>1. i # 0 /\ i - 1 = j /\ i \in 0 .. n
    BY <1>5
  <2>2. c = 2 * a + b
    BY <1>1, <2>1
  <2>3. a \in Nat /\ b \in Nat /\ (b = 0 \/ b = 1)
    BY <1>2, <1>4
  <2> HIDE DEF a, b, c
  <2>4. c \div 2 = a /\ c % 2 = b
    BY <2>2, <2>3
  <2> QED
    BY <2>4 DEF a, b, c
<1>6. v \in Nat /\ v < 2 ^ n
  BY <1>3, <1>4
<1> DEFINE Top(j) == v \div 2 ^ j
<1>7. \A j \in 0 .. n : Top(j) = N[n - j]
  <2> DEFINE Bad == {j \in 0 .. n : Top(j) # N[n - j]}
  <2>1. ASSUME Bad # {} PROVE FALSE
    <3>1. PICK m \in Bad : \A j \in Bad : m <= j
      <4>1. Bad \subseteq Nat
        OBVIOUS
      <4> QED
        BY <4>1, <2>1, Least
    <3>2. m # 0
      <4>1. 2 ^ 0 = 1 /\ v \div 1 = v /\ n - 0 = n
        BY <1>6, SMT
      <4> QED
        BY <3>1, <4>1, <1>3
    <3> DEFINE l == m - 1
               d == 2 ^ l
    <3>3. l \in 0 .. n /\ l \in 0 .. 17 /\ m = l + 1 /\ n - l \in 1 .. n /\ n - m \in 0 .. n
          /\ n - l = (n - m) + 1
      BY <3>1, <3>2
    <3>4. Top(l) = N[n - l]
      BY <3>1, <3>3
    <3>5. d \in Nat /\ d > 0 /\ 2 ^ (l + 1) = 2 * d
      <4> HIDE DEF l
      <4> QED
        BY <3>3, Powers
    <3> HIDE DEF d
    <3>6. v \div (2 * d) = (v \div d) \div 2
      BY <1>6, <3>5, Halves
    <3>7. N[n - l] \div 2 = N[n - m]
      <4> HIDE DEF l
      <4> QED
        BY <3>3, <1>5
    <3>8. Top(m) = v \div (2 * d)
      <4> HIDE DEF l
      <4> QED
        BY <3>3, <3>5
    <3>9. v \div d = Top(l)
      BY DEF d
    <3> HIDE DEF Top, l
    <3> QED
      BY <3>1, <3>4, <3>6, <3>7, <3>8, <3>9
  <2> QED
    BY <2>1
<1>8. /\ U(v, n) \in Seq(Bit) /\ Len(U(v, n)) = n
      /\ \A i \in 1 .. n : U(v, n)[i] = Top(n - i) % 2
  BY <1>6, BitsOf
<1> HIDE DEF Top
<1>9. ASSUME NEW i \in 1 .. n PROVE U(v, n)[i] = s[i]
  <2>1. n - i \in 0 .. n /\ n - (n - i) = i /\ i - 1 \in 0 .. n /\ i = (i - 1) + 1
    OBVIOUS
  <2>2. Top(n - i) = N[i]
    BY <2>1, <1>7
  <2>3. N[i] % 2 = s[i]
    BY <2>1, <1>5
  <2> QED
    BY <1>8, <2>2, <2>3
<1>10. U(v, n) = s
  BY <1>8, <1>9
<1>11. ASSUME v = 0, NEW i \in 1 .. n PROVE s[i] = 0
  <2> DEFINE d == 2 ^ (n - i)
  <2>1. n - i \in 0 .. n /\ n - i \in 0 .. 17
    OBVIOUS
  <2>2. d \in Nat /\ d > 0
    BY <2>1, Powers
  <2>3. Top(n - i) = 0 \div d
    BY <1>11 DEF Top
  <2> HIDE DEF d
  <2>4. d * 0 <= 0 /\ 0 < d * 0 + d /\ 0 \in Nat
    BY <2>2
  <2>5. 0 \div d = 0
    BY <2>2, <2>4, Quotient
  <2> QED
    BY <2>3, <2>5, <1>8, <1>9
<1>12. (\E i \in 1 .. n : s[i] = 1) => v # 0
  <2> SUFFICES ASSUME v = 0, NEW i \in 1 .. n, s[i] = 1 PROVE FALSE
    OBVIOUS
  <2> QED
    BY <1>11
<1> QED
  BY <1>6, <1>10, <1>12 DEF v

LEMMA JoinOf ==
  ASSUME NEW S, NEW s \in Seq(S), NEW t \in Seq(S)
  PROVE  /\ s \o t \in Seq(S) /\ Len(s \o t) = Len(s) + Len(t)
         /\ \A i \in 1 .. Len(s) : (s \o t)[i] = s[i]
         /\ \A i \in 1 .. Len(t) : (s \o t)[Len(s) + i] = t[i]
OBVIOUS

LEMMA PartOf ==
  ASSUME NEW S, NEW s \in Seq(S), NEW p \in Nat, NEW n \in Nat, p >= 1, p + n - 1 <= Len(s)
  PROVE  /\ SubSeq(s, p, p + n - 1) \in Seq(S) /\ Len(SubSeq(s, p, p + n - 1)) = n
         /\ \A i \in 1 .. n : SubSeq(s, p, p + n - 1)[i] = s[p + i - 1]
<1> DEFINE q == p + n - 1
           part == SubSeq(s, p, q)
<1>1. \A i \in p .. q : s[i] \in S
  BY ElementOf
<1>2. q \in Int /\ q - p + 1 = n
  OBVIOUS
<1> HIDE DEF q
<1>3. part \in Seq(S)
  BY <1>1, <1>2
<1>4. Len(part) = n
  <2>1. CASE p <= q
    BY <2>1, <1>2
  <2>2. CASE ~ (p <= q)
    BY <2>2, <1>2
  <2> QED
    BY <2>1, <2>2
<1>5. \A i \in 1 .. n : part[i] = s[p + i - 1]
  BY <1>2
<1> QED
  BY <1>3, <1>4, <1>5 DEF q

(* Equal elements make equal sequences. *)
LEMMA SameSeq ==
  ASSUME NEW S, NEW s \in Seq(S), NEW t \in Seq(S), Len(s) = Len(t),
         \A i \in 1 .. Len(s) : s[i] = t[i]
  PROVE  s = t
OBVIOUS

LEMMA NoBits ==
  ASSUME NEW n \in 0 .. 17
  PROVE  \A i \in 1 .. n : U(0, n)[i] = 0
<1> TAKE i \in 1 .. n
<1> DEFINE d == 2 ^ (n - i)
<1>1. n - i \in 0 .. 17
  OBVIOUS
<1>2. d \in Nat /\ d > 0
  BY <1>1, Powers
<1>3. U(0, n)[i] = (0 \div d) % 2
  BY BitsOf
<1> HIDE DEF d
<1>4. d * 0 <= 0 /\ 0 < d * 0 + d /\ 0 \in Nat
  BY <1>2
<1>5. 0 \div d = 0
  BY <1>2, <1>4, Quotient
<1> QED
  BY <1>3, <1>5

LEMMA OneBit == U(1, 1) \in Seq(Bit) /\ Len(U(1, 1)) = 1 /\ U(1, 1)[1] = 1
<1>1. 1 \in Nat /\ 1 \in 0 .. 17 /\ 1 \in 1 .. 1 /\ 2 ^ (1 - 1) = 1 /\ (1 \div 1) % 2 = 1
  BY SMT
<1> QED
  BY <1>1, BitsOf

(* rbsp_trailing_bits fill up the last byte. *)
LEMMA TrailingOf ==
  ASSUME NEW bits, NEW L \in Nat, L = Len(bits)
  PROVE  \E z \in 0 .. 7 : /\ Trailing(bits) = U(1, 1) \o U(0, z)
                           /\ 8 * ((L + 1 + z) \div 8) = L + 1 + z
<1> DEFINE r == (L + 1) % 8
           q == (L + 1) \div 8
           z == (8 - r) % 8
<1>1. r \in 0 .. 7 /\ q \in Nat /\ L + 1 = 8 * q + r
  OBVIOUS
<1>2. Trailing(bits) = U(1, 1) \o U(0, z)
  BY DEF Trailing
<1> HIDE DEF r, q
<1>3. z \in 0 .. 7 /\ ((z = 0 /\ r = 0) \/ z = 8 - r)
  BY <1>1
<1> HIDE DEF z
<1>4. 8 * ((L + 1 + z) \div 8) = L + 1 + z
  <2>1. CASE r = 0 /\ z = 0
    BY <2>1, <1>1
  <2>2. CASE z = 8 - r
    <3>1. L + 1 + z = 8 * (q + 1)
      BY <2>2, <1>1
    <3> QED
      BY <3>1, <1>1
  <2> QED
    BY <2>1, <2>2, <1>3
<1> QED
  BY <1>2, <1>3, <1>4

(* The RBSP of a parameter set: bytes, the last of them not zero, that hold its
   bits and the trailing bits. *)
LEMMA PackBack ==
  ASSUME NEW bits \in Seq(Bit), Len(bits) <= 240
  PROVE  LET rbsp0 == Pack(bits) IN
         /\ rbsp0 \in Seq(Nat) /\ Len(rbsp0) > 0 /\ rbsp0[Len(rbsp0)] # 0
         /\ \A i \in 1 .. Len(rbsp0) : rbsp0[i] \in 0 .. 255
         /\ Bits(rbsp0) = bits \o Trailing(bits)
<1> DEFINE L == Len(bits)
           t == Trailing(bits)
           b == bits \o t
           n == Len(b) \div 8
           P == Pack(bits)
           chunk(i) == SubSeq(b, 8 * i - 7, 8 * i)
<1>1. L \in Nat
  OBVIOUS
<1>2. PICK z \in 0 .. 7 : t = U(1, 1) \o U(0, z) /\ 8 * ((L + 1 + z) \div 8) = L + 1 + z
  BY <1>1, TrailingOf
<1>3. /\ t \in Seq(Bit) /\ Len(t) = 1 + z /\ t[1] = 1
  <2>1. U(0, z) \in Seq(Bit) /\ Len(U(0, z)) = z
    <3>1. 0 \in Nat /\ z \in 0 .. 17
      BY <1>2
    <3> QED
      BY <3>1, BitsOf
  <2> QED
    BY <1>2, <2>1, OneBit, JoinOf, SMTT(60)
<1> HIDE DEF t
<1>4. /\ b \in Seq(Bit) /\ Len(b) = L + 1 + z /\ b[L + 1] = 1
  BY <1>3, JoinOf
<1> HIDE DEF b
<1>5. n \in 1 .. 31 /\ 8 * n = L + 1 + z /\ Len(b) = 8 * n
  <2> DEFINE m == L + 1 + z
  <2>1. m \in 1 .. 248
    <3>1. z \in 0 .. 7 /\ L \in Nat /\ L <= 240
      BY <1>1
    <3> HIDE DEF L
    <3> QED
      BY <3>1
  <2>2. 8 * (m \div 8) = m /\ Len(b) = m
    BY <1>2, <1>4
  <2> HIDE DEF m
  <2>3. m \div 8 \in 1 .. 31
    BY <2>1, <2>2
  <2> QED
    BY <2>2, <2>3 DEF m
<1>6. P = [i \in 1 .. n |-> Number(chunk(i))]
  <2>1. P = [i \in 1 .. (IF n < RbspSize THEN n ELSE RbspSize) |-> Number(chunk(i))]
    BY DEF Pack, b, t
  <2>2. n < RbspSize
    BY <1>5 DEF RbspSize
  <2> QED
    BY <2>1, <2>2
<1> HIDE DEF L, n, P
<1>7. ASSUME NEW i \in 1 .. n
      PROVE  /\ chunk(i) \in Seq(Bit) /\ Len(chunk(i)) = 8
             /\ \A j \in 1 .. 8 : chunk(i)[j] = b[8 * i - 8 + j]
  <2> DEFINE p == 8 * i - 7
             e == 8
  <2>1. p \in Nat /\ p >= 1 /\ e \in Nat /\ p + e - 1 <= Len(b) /\ p + e - 1 = 8 * i
    BY <1>5
  <2>2. \A j \in 1 .. 8 : p + j - 1 = 8 * i - 8 + j
    OBVIOUS
  <2> HIDE DEF p, e
  <2>3. /\ SubSeq(b, p, p + e - 1) \in Seq(Bit) /\ Len(SubSeq(b, p, p + e - 1)) = e
        /\ \A j \in 1 .. e : SubSeq(b, p, p + e - 1)[j] = b[p + j - 1]
    BY <1>4, <2>1, PartOf
  <2>4. chunk(i) = SubSeq(b, p, p + e - 1)
    BY <2>1 DEF p
  <2> HIDE DEF chunk
  <2> QED
    BY <2>2, <2>3, <2>4 DEF e
<1> HIDE DEF chunk
<1>8. ASSUME NEW i \in 1 .. n
      PROVE  P[i] \in 0 .. 255 /\ U(P[i], 8) = chunk(i)
             /\ ((\E j \in 1 .. 8 : chunk(i)[j] = 1) => P[i] # 0)
  <2>1. P[i] = Number(chunk(i))
    BY <1>6
  <2>2. 8 \in 0 .. 17 /\ 2 ^ 8 = 256
    BY SMT
  <2>3. /\ Number(chunk(i)) \in Nat /\ Number(chunk(i)) < 2 ^ 8
        /\ U(Number(chunk(i)), 8) = chunk(i)
        /\ (\E j \in 1 .. 8 : chunk(i)[j] = 1) => Number(chunk(i)) # 0
    BY <1>7, <2>2, BitsBack
  <2> DEFINE v == Number(chunk(i))
             d == 2 ^ 8
  <2>4. v \in Nat /\ v < d /\ d = 256
    BY <2>2, <2>3
  <2> HIDE DEF v, d
  <2>5. v \in 0 .. 255
    BY <2>4
  <2> QED
    BY <2>1, <2>3, <2>5 DEF v
<1>9. P \in Seq(Nat) /\ Len(P) = n /\ n > 0
  <2>1. P \in [1 .. n -> Nat]
    <3>1. \A i \in 1 .. n : P[i] \in Nat
      <4> TAKE i \in 1 .. n
      <4>1. P[i] \in 0 .. 255
        BY <1>8
      <4>2. \A x \in 0 .. 255 : x \in Nat
        OBVIOUS
      <4> QED
        BY <4>1, <4>2, Zenon
    <3> QED
      BY <3>1, <1>6
  <2> QED
    BY <2>1, <1>5, SMTT(30)
<1>10. P[n] # 0
  <2>1. n \in 1 .. n /\ 8 - z \in 1 .. 8 /\ 8 * n - 8 + (8 - z) = L + 1
    BY <1>1, <1>2, <1>5
  <2>2. chunk(n)[8 - z] = b[8 * n - 8 + (8 - z)]
    BY <2>1, <1>7
  <2> QED
    BY <2>1, <2>2, <1>4, <1>8
<1>11. Bits(P) = b
  <2> DEFINE Q == Bits(P)
  <2>1. Q = [k \in 1 .. 8 * n |-> U(P[1 + (k - 1) \div 8], 8)[1 + ((k - 1) % 8)]]
    BY <1>9 DEF Bits
  <2> HIDE DEF Q
  <2>2. ASSUME NEW k \in 1 .. 8 * n PROVE Q[k] = b[k]
    <3> DEFINE i == 1 + (k - 1) \div 8
               j == 1 + ((k - 1) % 8)
    <3>1. i \in 1 .. n /\ j \in 1 .. 8 /\ 8 * i - 8 + j = k
      BY <1>5
    <3>2. Q[k] = U(P[i], 8)[j]
      BY <2>1
    <3> HIDE DEF i, j
    <3>3. U(P[i], 8)[j] = b[8 * i - 8 + j]
      BY <3>1, <1>7, <1>8, ZenonT(60)
    <3> QED
      BY <3>1, <3>2, <3>3
  <2>3. Q = [k \in 1 .. 8 * n |-> b[k]]
    BY <2>1, <2>2
  <2>4. b = [k \in 1 .. 8 * n |-> b[k]]
    BY <1>4, <1>5
  <2> QED
    BY <2>3, <2>4 DEF Q
<1> QED
  BY <1>8, <1>9, <1>10, <1>11 DEF P, b, t

-------------------------------------------------------------------------------
(* The codes of the syntax elements, and a reader in front of each *)

LEMMA PowersGrow ==
  ASSUME NEW k \in 0 .. 17, NEW l \in k .. 17
  PROVE  2 ^ k <= 2 ^ l
<1> DEFINE Bad == {m \in k .. 17 : ~ (2 ^ k <= 2 ^ m)}
<1>1. ASSUME Bad # {} PROVE FALSE
  <2>1. PICK m \in Bad : \A n \in Bad : m <= n
    <3>1. Bad \subseteq Nat
      OBVIOUS
    <3> QED
      BY <3>1, <1>1, Least
  <2>2. m # k
    <3>1. 2 ^ k <= 2 ^ k
      BY Powers
    <3> QED
      BY <3>1, <2>1
  <2> DEFINE n == m - 1
             d == 2 ^ n
  <2>3. n \in k .. 17 /\ n \in 0 .. 17 /\ m = n + 1
    BY <2>1, <2>2
  <2>4. 2 ^ k <= d
    BY <2>1, <2>3
  <2> HIDE DEF n
  <2>5. d \in Nat /\ 2 ^ (n + 1) = 2 * d /\ 2 ^ k \in Nat
    BY <2>3, Powers
  <2>6. 2 ^ k <= 2 ^ m
    <3> DEFINE x == 2 ^ k
               y == 2 ^ m
    <3>1. y = 2 * d /\ x <= d /\ x \in Nat
      BY <2>3, <2>4, <2>5
    <3> HIDE DEF d, x, y
    <3>2. x <= y
      BY <2>5, <3>1
    <3> QED
      BY <3>2 DEF x, y
  <2> QED
    BY <2>1, <2>6
<1> QED
  BY <1>1

(* An ue(v) code is a number with as many zeros in front as it has bits after
   its first. *)
LEMMA UeOf ==
  ASSUME NEW val \in 0 .. 255
  PROVE  LET z == Fls(val + 1) - 1 IN
         /\ z \in 0 .. 8 /\ Ue(val) \in Seq(Bit) /\ Len(Ue(val)) = 2 * z + 1
         /\ (\A i \in 1 .. z : Ue(val)[i] = 0) /\ Ue(val)[z + 1] = 1
         /\ Number(Ue(val)) = val + 1
<1> DEFINE x == val + 1
           z == Fls(x) - 1
           n == 2 * z + 1
           f == z + 1
           lead == U(0, z)
           tail == U(x, f)
           all == U(x, n)
           code == Ue(val)
<1>1. x \in 1 .. 256 /\ x \in Nat
  OBVIOUS
<1>2. /\ z \in 0 .. 8 /\ f \in 0 .. 17 /\ n \in 0 .. 17 /\ z \in 0 .. 17
      /\ Fls(x) = f /\ 2 ^ z <= x /\ x < 2 ^ f
  <2> DEFINE g == Fls(x)
  <2>1. g \in 1 .. 9 /\ 2 ^ (g - 1) <= x /\ x < 2 ^ g
    BY <1>1, FlsBound
  <2>2. z = g - 1
    OBVIOUS
  <2> HIDE DEF g, z
  <2>3. z \in 0 .. 8 /\ f = g
    <3>1. g \in 1 .. 9
      BY <2>1
    <3> QED
      BY <2>2, <3>1
  <2> QED
    BY <2>1, <2>2, <2>3 DEF g
<1>3. code = lead \o tail
  BY <1>2 DEF Ue
<1> HIDE DEF x, code, z
<1>4. lead \in Seq(Bit) /\ Len(lead) = z /\ \A i \in 1 .. z : lead[i] = 0
  <2>1. 0 \in Nat
    OBVIOUS
  <2> QED
    BY <1>2, <2>1, BitsOf, NoBits
<1>5. /\ tail \in Seq(Bit) /\ Len(tail) = f
      /\ \A i \in 1 .. f : tail[i] = (x \div 2 ^ (f - i)) % 2
  <2> HIDE DEF f
  <2> QED
    BY <1>1, <1>2, BitsOf
<1>6. /\ all \in Seq(Bit) /\ Len(all) = n
      /\ \A i \in 1 .. n : all[i] = (x \div 2 ^ (n - i)) % 2
  <2> HIDE DEF n
  <2> QED
    BY <1>1, <1>2, BitsOf
<1> HIDE DEF lead, tail, all
<1>7. /\ code \in Seq(Bit) /\ Len(code) = n
      /\ \A i \in 1 .. z : code[i] = 0
      /\ \A i \in 1 .. f : code[z + i] = tail[i]
  <2>1. /\ code \in Seq(Bit) /\ Len(code) = Len(lead) + Len(tail)
        /\ \A i \in 1 .. Len(lead) : code[i] = lead[i]
        /\ \A i \in 1 .. Len(tail) : code[Len(lead) + i] = tail[i]
    <3>1. lead \in Seq(Bit) /\ tail \in Seq(Bit)
      BY <1>4, <1>5
    <3>2. /\ lead \o tail \in Seq(Bit) /\ Len(lead \o tail) = Len(lead) + Len(tail)
          /\ \A i \in 1 .. Len(lead) : (lead \o tail)[i] = lead[i]
          /\ \A i \in 1 .. Len(tail) : (lead \o tail)[Len(lead) + i] = tail[i]
      <4> HIDE DEF f, n
      <4> QED
        BY <3>1, JoinOf
    <3> QED
      BY <1>3, <3>2
  <2> QED
    BY <1>2, <1>4, <1>5, <2>1
<1>8. tail[1] = 1
  <2> DEFINE d == 2 ^ z
  <2>1. d \in Nat /\ d > 0 /\ 2 ^ (z + 1) = 2 * d
    BY <1>2, Powers
  <2>2. d <= x /\ x < 2 * d
    BY <1>2, <2>1
  <2>3. 1 \in 1 .. f /\ f - 1 = z
    BY <1>2
  <2>4. tail[1] = (x \div d) % 2
    BY <1>5, <2>3
  <2> HIDE DEF d
  <2>5. d * 1 <= x /\ x < d * 1 + d /\ 1 \in Nat
    BY <2>1, <2>2
  <2>6. x \div d = 1
    BY <1>1, <2>1, <2>5, Quotient
  <2> QED
    BY <2>4, <2>6
<1>9. ASSUME NEW i \in 1 .. n PROVE code[i] = all[i]
  <2>1. CASE i <= z
    <3> DEFINE k == n - i
               d == 2 ^ k
    <3>1. k \in f .. 17 /\ k \in 0 .. 17
      BY <1>2, <2>1
    <3> HIDE DEF k
    <3>2. d \in Nat /\ d > 0 /\ 2 ^ f <= d /\ 2 ^ f \in Nat
      BY <1>2, <3>1, Powers, PowersGrow
    <3>3. x < d
      <4> DEFINE e == 2 ^ f
      <4>1. x < e /\ e <= d /\ e \in Nat
        BY <1>2, <3>2
      <4> HIDE DEF e, d
      <4> QED
        BY <4>1, <3>2, <1>1
    <3>4. all[i] = (x \div d) % 2
      BY <1>6 DEF k
    <3> HIDE DEF d
    <3>5. d * 0 <= x /\ x < d * 0 + d /\ 0 \in Nat
      BY <1>1, <3>2, <3>3
    <3>6. x \div d = 0
      BY <1>1, <3>2, <3>5, Quotient
    <3>7. all[i] = 0
      BY <3>4, <3>6
    <3>8. i \in 1 .. z
      BY <2>1, <1>2
    <3> QED
      BY <3>7, <3>8, <1>7
  <2>2. CASE ~ (i <= z)
    <3> DEFINE j == i - z
    <3>1. j \in 1 .. f /\ z + j = i /\ n - i = f - j
      BY <1>2, <2>2
    <3>2. all[i] = (x \div 2 ^ (n - i)) % 2
      BY <1>6
    <3> HIDE DEF j, n, f
    <3>3. tail[j] = (x \div 2 ^ (n - i)) % 2 /\ code[i] = tail[j]
      BY <3>1, <1>5, <1>7
    <3> QED
      BY <3>2, <3>3
  <2> QED
    BY <2>1, <2>2
<1>10. code = all
  BY <1>6, <1>7, <1>9
<1>11. Number(all) = x
  <2>1. x < 2 ^ n
    <3>1. n \in f .. 17
      BY <1>2
    <3> HIDE DEF n
    <3>2. 2 ^ f <= 2 ^ n /\ 2 ^ f \in Nat /\ 2 ^ n \in Nat
      BY <1>2, <3>1, Powers, PowersGrow
    <3> DEFINE e == 2 ^ f
               d == 2 ^ n
    <3>3. x < e /\ e <= d /\ e \in Nat /\ d \in Nat
      BY <1>2, <3>2
    <3> HIDE DEF e, d
    <3>4. x < d
      BY <1>1, <3>3
    <3> QED
      BY <3>4 DEF d
  <2> HIDE DEF n
  <2> QED
    BY <1>1, <1>2, <2>1, NumberBack DEF all
<1>12. code[z + 1] = 1
  <2>1. 1 \in 1 .. f
    BY <1>2
  <2> QED
    BY <2>1, <1>7, <1>8
<1> QED
  BY <1>2, <1>7, <1>10, <1>11, <1>12 DEF x, code, z

(* A reader of bits that is at a position and has read some values. *)
ReaderAt(bits, pos, val) == [bits |-> bits, pos |-> pos, val |-> val]

(* The bits of a code are next. *)
Ahead(bits, pos, code) ==
  /\ pos + Len(code) - 1 <= Len(bits)
  /\ \A i \in 1 .. Len(code) : bits[pos + i - 1] = code[i]

(* The code of a value as a syntax element. *)
IsCode(code, e, x) ==
  \/ e = ue /\ x \in 0 .. 255 /\ code = Ue(x)
  \/ e = se /\ x \in -26 .. 25 /\ code = Se(x)
  \/ e \in 1 .. 17 /\ x \in Nat /\ x < 2 ^ e /\ code = U(x, e)

LEMMA PeekAhead ==
  ASSUME NEW bits \in Seq(Bit), NEW pos \in Nat, pos >= 1, NEW code \in Seq(Bit),
         Ahead(bits, pos, code), NEW val
  PROVE  Peek(ReaderAt(bits, pos, val), Len(code)) = Number(code)
<1> DEFINE n == Len(code)
           part == SubSeq(bits, pos, pos + n - 1)
<1>1. n \in Nat /\ pos + n - 1 <= Len(bits)
  BY DEF Ahead
<1>2. /\ part \in Seq(Bit) /\ Len(part) = n
      /\ \A i \in 1 .. n : part[i] = bits[pos + i - 1]
  <2> HIDE DEF n
  <2> QED
    BY <1>1, PartOf
<1>3. \A i \in 1 .. n : part[i] = code[i]
  BY <1>2 DEF Ahead
<1> HIDE DEF part
<1>4. part = code
  BY <1>2, <1>3, SameSeq
<1> QED
  BY <1>4 DEF Peek, ReaderAt, part

(* The reader finds where the zeros of an ue(v) code end. *)
LEMMA ZerosAhead ==
  ASSUME NEW bits, NEW pos \in Nat, NEW val, NEW z \in 0 .. 31,
         bits[pos + z] = 1, \A k \in 0 .. z - 1 : bits[pos + k] = 0
  PROVE  LeadingZeros(ReaderAt(bits, pos, val)) = z
<1> DEFINE P(n) == bits[pos + n] = 1 /\ \A k \in 0 .. n - 1 : bits[pos + k] = 0
<1>1. P(z)
  OBVIOUS
<1>2. \A n \in 0 .. 31 : P(n) => n = z
  <2> SUFFICES ASSUME NEW n \in 0 .. 31, P(n) PROVE n = z
    OBVIOUS
  <2>1. ~ (n < z)
    <3> SUFFICES ASSUME n < z PROVE FALSE
      OBVIOUS
    <3>1. n \in 0 .. z - 1
      OBVIOUS
    <3> QED
      BY <3>1
  <2>2. ~ (z < n)
    <3> SUFFICES ASSUME z < n PROVE FALSE
      OBVIOUS
    <3>1. z \in 0 .. n - 1
      OBVIOUS
    <3> QED
      BY <3>1
  <2> QED
    BY <2>1, <2>2
<1>3. LeadingZeros(ReaderAt(bits, pos, val)) = CHOOSE n \in 0 .. 31 : P(n)
  BY SMTT(60) DEF LeadingZeros, ReaderAt
<1> HIDE DEF P
<1> QED
  BY <1>1, <1>2, <1>3

(* An ue(v) code is read whole, and its number with it. *)
LEMMA UeAhead ==
  ASSUME NEW bits \in Seq(Bit), NEW pos \in Nat, pos >= 1, NEW val, NEW x \in 0 .. 255,
         Ahead(bits, pos, Ue(x))
  PROVE  /\ CodeNum(ReaderAt(bits, pos, val)) = x
         /\ 2 * LeadingZeros(ReaderAt(bits, pos, val)) + 1 = Len(Ue(x))
<1> DEFINE z == Fls(x + 1) - 1
           c == Ue(x)
           r == ReaderAt(bits, pos, val)
<1>1. /\ z \in 0 .. 8 /\ c \in Seq(Bit) /\ Len(c) = 2 * z + 1
      /\ (\A i \in 1 .. z : c[i] = 0) /\ c[z + 1] = 1
      /\ Number(c) = x + 1
  BY UeOf
<1>2. Ahead(bits, pos, c)
  OBVIOUS
<1> HIDE DEF z, c
<1>3. \A i \in 1 .. 2 * z + 1 : bits[pos + i - 1] = c[i]
  BY <1>1, <1>2 DEF Ahead
<1>4. bits[pos + z] = 1
  <2>1. z + 1 \in 1 .. 2 * z + 1 /\ pos + (z + 1) - 1 = pos + z
    BY <1>1
  <2> QED
    BY <2>1, <1>1, <1>3
<1>5. \A k \in 0 .. z - 1 : bits[pos + k] = 0
  <2> TAKE k \in 0 .. z - 1
  <2>1. k + 1 \in 1 .. 2 * z + 1 /\ k + 1 \in 1 .. z /\ pos + (k + 1) - 1 = pos + k
    BY <1>1
  <2> QED
    BY <2>1, <1>1, <1>3
<1>6. LeadingZeros(r) = z
  <2>1. z \in 0 .. 31
    BY <1>1
  <2> HIDE DEF r
  <2> QED
    BY <2>1, <1>4, <1>5, ZerosAhead, ZenonT(60) DEF r
<1>7. Peek(r, Len(c)) = Number(c)
  BY <1>1, <1>2, PeekAhead
<1> HIDE DEF r
<1>8. CodeNum(r) = (x + 1) - 1
  <2>1. CodeNum(r) = Peek(r, 2 * LeadingZeros(r) + 1) - 1
    BY DEF CodeNum
  <2> QED
    BY <2>1, <1>1, <1>6, <1>7
<1> QED
  BY <1>1, <1>6, <1>8 DEF c, r

LEMMA CodeBits ==
  ASSUME NEW code, NEW e, NEW x, IsCode(code, e, x)
  PROVE  code \in Seq(Bit)
<1>1. CASE e = ue /\ x \in 0 .. 255 /\ code = Ue(x)
  BY <1>1, UeOf, ZenonT(60)
<1>2. CASE e = se /\ x \in -26 .. 25 /\ code = Se(x)
  <2> DEFINE k == IF x <= 0 THEN (-x) * 2 ELSE x * 2 - 1
  <2>1. k \in 0 .. 255
    BY <1>2
  <2>2. code = Ue(k)
    BY <1>2 DEF Se
  <2> HIDE DEF k
  <2> QED
    BY <2>1, <2>2, UeOf
<1>3. CASE e \in 1 .. 17 /\ x \in Nat /\ x < 2 ^ e /\ code = U(x, e)
  <2>1. e \in 0 .. 17 /\ x \in Nat
    BY <1>3
  <2> QED
    BY <1>3, <2>1, BitsOf
<1> QED
  BY <1>1, <1>2, <1>3, SMTT(60) DEF IsCode

(* The reader takes the value of the code it is in front of. *)
LEMMA TakesCode ==
  ASSUME NEW bits \in Seq(Bit), NEW pos \in Nat, pos >= 1, NEW val,
         NEW code, NEW e, NEW x, IsCode(code, e, x), Ahead(bits, pos, code)
  PROVE  ReadOne(ReaderAt(bits, pos, val), e) =
           ReaderAt(bits, pos + Len(code), Append(val, x))
<1> DEFINE r == ReaderAt(bits, pos, val)
           n == Len(code)
<1>1. \A y, m : Took(r, y, m) = ReaderAt(bits, pos + m, Append(val, y))
  <2> TAKE y, m
  <2> DEFINE v == Append(val, y)
             p == pos + m
             R(b, q, w) == [bits |-> b, pos |-> q, val |-> w]
             s == [R(bits, pos, val) EXCEPT !.val = v]
  <2>1. s = R(bits, pos, v) /\ s.pos = pos
    BY SMTT(60)
  <2> HIDE DEF s, v, p
  <2>2. [s EXCEPT !.pos = p] = R(bits, p, v)
    BY <2>1
  <2>3. Took(r, y, m) = [s EXCEPT !.pos = p]
    BY DEF Took, ReaderAt, s, v, p
  <2> QED
    BY <2>2, <2>3 DEF ReaderAt, v, p
<1>2. CASE e = ue /\ x \in 0 .. 255 /\ code = Ue(x)
  <2>1. CodeNum(r) = x /\ 2 * LeadingZeros(r) + 1 = n
    BY <1>2, UeAhead
  <2>2. ReadOne(r, e) = Took(r, CodeNum(r), 2 * LeadingZeros(r) + 1)
    BY <1>2 DEF ReadOne, ReadUe, ue, se
  <2> HIDE DEF r, n
  <2> QED
    BY <2>1, <2>2, <1>1 DEF r, n
<1>3. CASE e = se /\ x \in -26 .. 25 /\ code = Se(x)
  <2> DEFINE k == IF x <= 0 THEN (-x) * 2 ELSE x * 2 - 1
  <2>1. k \in 0 .. 255 /\ (IF k % 2 = 1 THEN (k + 1) \div 2 ELSE -(k \div 2)) = x
    BY <1>3
  <2>2. code = Ue(k)
    BY <1>3 DEF Se
  <2> HIDE DEF k
  <2>3. CodeNum(r) = k /\ 2 * LeadingZeros(r) + 1 = n
    BY <2>1, <2>2, UeAhead
  <2>4. e # ue
    BY <1>3 DEF se, ue
  <2>5. ReadOne(r, e) = Took(r, IF CodeNum(r) % 2 = 1 THEN (CodeNum(r) + 1) \div 2
                                ELSE -(CodeNum(r) \div 2), 2 * LeadingZeros(r) + 1)
    BY <1>3, <2>4 DEF ReadOne, ReadSe
  <2> HIDE DEF r, n
  <2> QED
    BY <2>1, <2>3, <2>5, <1>1 DEF r, n
<1>4. CASE e \in 1 .. 17 /\ x \in Nat /\ x < 2 ^ e /\ code = U(x, e)
  <2>1. e # ue /\ e # se /\ e \in 0 .. 17
    BY <1>4 DEF se, ue
  <2>2. code \in Seq(Bit) /\ n = e
    BY <1>4, <2>1, BitsOf
  <2>3. Number(code) = x
    BY <1>4, <2>1, NumberBack
  <2>4. Peek(r, n) = Number(code)
    BY <2>2, PeekAhead
  <2>5. ReadOne(r, e) = Took(r, Peek(r, e), e)
    BY <2>1 DEF ReadOne, ReadU
  <2> HIDE DEF r, n
  <2> QED
    BY <2>2, <2>3, <2>4, <2>5, <1>1 DEF r, n
<1> QED
  BY <1>2, <1>3, <1>4 DEF IsCode

(* The equation that defines Readers has a solution. *)
LEMMA ReadersDef ==
  ASSUME NEW r, NEW syntax, Len(syntax) \in Nat
  PROVE  Readers(r, syntax) = [n \in 0 .. Len(syntax) |->
           IF n = 0 THEN r ELSE ReadOne(Readers(r, syntax)[n - 1], syntax[n])]
<1> DEFINE Next1(w, n) == ReadOne(w, syntax[n])
           Fits(f, n) == f = [i \in 0 .. n |-> IF i = 0 THEN r ELSE Next1(f[i - 1], i)]
           Bad == {n \in Nat : ~ \E f : Fits(f, n)}
<1> HIDE DEF Next1
<1>1. ASSUME Bad # {} PROVE FALSE
  <2>1. PICK m \in Bad : \A k \in Bad : m <= k
    BY <1>1, Least
  <2>2. m # 0
    <3>1. Fits([i \in 0 .. 0 |-> r], 0)
      OBVIOUS
    <3> QED
      BY <3>1
  <2>3. PICK f : Fits(f, m - 1)
    <3>1. m \in Nat /\ m - 1 \in Nat /\ ~ (m <= m - 1)
      BY <2>2
    <3> HIDE DEF Fits
    <3>2. m - 1 \notin Bad
      BY <2>1, <3>1
    <3> QED
      BY <3>1, <3>2
  <2> DEFINE g == [i \in 0 .. m |-> IF i = m THEN Next1(f[m - 1], m) ELSE f[i]]
  <2>4. ASSUME NEW i \in 0 .. m
        PROVE  g[i] = IF i = 0 THEN r ELSE Next1(g[i - 1], i)
    <3>1. CASE i = m
      BY <3>1, <2>2
    <3>2. CASE i # m
      <4>1. i \in 0 .. (m - 1) /\ g[i] = f[i] /\ (i # 0 => g[i - 1] = f[i - 1])
        BY <3>2, <2>2
      <4>2. f[i] = IF i = 0 THEN r ELSE Next1(f[i - 1], i)
        BY <4>1, <2>3
      <4> QED
        BY <4>1, <4>2
    <3> QED
      BY <3>1, <3>2
  <2>5. Fits(g, m)
    BY <2>4
  <2> QED
    BY <2>1, <2>5
<1>2. PICK f : Fits(f, Len(syntax))
  BY <1>1
<1>3. f = [n \in 0 .. Len(syntax) |-> IF n = 0 THEN r ELSE ReadOne(f[n - 1], syntax[n])]
  BY <1>2, Zenon DEF Next1
<1> QED
  BY <1>3, Zenon DEF Readers

(* What is ahead of two codes is ahead of each. *)
LEMMA AheadSplits ==
  ASSUME NEW bits \in Seq(Bit), NEW a \in Seq(Bit), NEW c \in Seq(Bit),
         Ahead(bits, 1, a \o c)
  PROVE  Ahead(bits, 1, a) /\ Ahead(bits, 1 + Len(a), c)
<1> DEFINE l == Len(a)
           m == Len(c)
           s == a \o c
<1>1. /\ l \in Nat /\ m \in Nat /\ Len(s) = l + m /\ Len(bits) \in Nat
      /\ \A i \in 1 .. l : s[i] = a[i]
      /\ \A i \in 1 .. m : s[l + i] = c[i]
  <2>1. l \in Nat /\ m \in Nat
    OBVIOUS
  <2> QED
    BY <2>1, JoinOf
<1>2. 1 + Len(s) - 1 <= Len(bits) /\ \A i \in 1 .. Len(s) : bits[1 + i - 1] = s[i]
  BY DEF Ahead
<1> HIDE DEF l, m, s
<1>3. l + m <= Len(bits) /\ \A i \in 1 .. l + m : bits[i] = s[i]
  BY <1>1, <1>2
<1>4. Ahead(bits, 1, a)
  <2>1. \A i \in 1 .. l : bits[i] = a[i]
    <3> TAKE i \in 1 .. l
    <3>1. i \in 1 .. l + m
      BY <1>1
    <3> QED
      BY <3>1, <1>1, <1>3
  <2>2. 1 + l - 1 <= Len(bits) /\ \A i \in 1 .. l : 1 + i - 1 = i
    BY <1>1, <1>3
  <2> QED
    BY <2>1, <2>2 DEF Ahead, l
<1>5. Ahead(bits, 1 + Len(a), c)
  <2>1. \A i \in 1 .. m : bits[(1 + l) + i - 1] = c[i]
    <3> TAKE i \in 1 .. m
    <3>1. l + i \in 1 .. l + m /\ (1 + l) + i - 1 = l + i
      BY <1>1
    <3> QED
      BY <3>1, <1>1, <1>3
  <2>2. (1 + l) + m - 1 <= Len(bits)
    BY <1>1, <1>3
  <2> QED
    BY <2>1, <2>2 DEF Ahead, l, m
<1> QED
  BY <1>4, <1>5

LEMMA JoinOneMore ==
  ASSUME NEW s \in Seq(Int), NEW t \in Seq(Int), NEW x \in Int
  PROVE  s \o Append(t, x) = Append(s \o t, x)
<1> DEFINE a == Append(t, x)
           l == s \o a
           b == s \o t
           r == Append(b, x)
           m == Len(s)
           n == Len(t)
<1>1. /\ m \in Nat /\ n \in Nat /\ a \in Seq(Int) /\ Len(a) = n + 1 /\ a[n + 1] = x
      /\ \A i \in 1 .. n : a[i] = t[i]
  OBVIOUS
<1> HIDE DEF a
<1>2. /\ l \in Seq(Int) /\ Len(l) = m + (n + 1)
      /\ \A i \in 1 .. m : l[i] = s[i]
      /\ \A i \in 1 .. n + 1 : l[m + i] = a[i]
  <2>1. /\ l \in Seq(Int) /\ Len(l) = Len(s) + Len(a)
        /\ \A i \in 1 .. Len(s) : l[i] = s[i]
        /\ \A i \in 1 .. Len(a) : l[Len(s) + i] = a[i]
    <3>1. s \in Seq(Int) /\ a \in Seq(Int)
      BY <1>1
    <3> HIDE DEF m, n
    <3> QED
      BY <3>1, JoinOf
  <2> HIDE DEF l
  <2> QED
    BY <1>1, <2>1
<1>3. /\ b \in Seq(Int) /\ Len(b) = m + n
      /\ \A i \in 1 .. m : b[i] = s[i]
      /\ \A i \in 1 .. n : b[m + i] = t[i]
  BY JoinOf
<1> HIDE DEF b, l, m, n
<1>4. /\ r \in Seq(Int) /\ Len(r) = m + (n + 1) /\ r[m + n + 1] = x
      /\ \A i \in 1 .. m + n : r[i] = b[i]
  <2> DEFINE k == m + n
  <2>1. k \in Nat /\ Len(b) = k /\ b \in Seq(Int) /\ k + 1 = m + (n + 1)
    BY <1>1, <1>3
  <2> HIDE DEF k
  <2>2. r \in Seq(Int) /\ Len(r) = k + 1 /\ r[k + 1] = x /\ \A i \in 1 .. k : r[i] = b[i]
    BY <2>1
  <2> QED
    BY <2>1, <2>2 DEF k
<1> HIDE DEF r
<1>5. ASSUME NEW i \in 1 .. m + (n + 1) PROVE l[i] = r[i]
  <2>1. CASE i <= m
    <3>1. i \in 1 .. m /\ i \in 1 .. m + n
      BY <2>1, <1>1
    <3> QED
      BY <3>1, <1>2, <1>3, <1>4
  <2>2. CASE i = m + n + 1
    <3>1. n + 1 \in 1 .. n + 1 /\ i = m + (n + 1)
      BY <2>2, <1>1
    <3> QED
      BY <2>2, <3>1, <1>1, <1>2, <1>4
  <2>3. CASE ~ (i <= m) /\ i # m + n + 1
    <3> DEFINE j == i - m
    <3>1. j \in 1 .. n /\ j \in 1 .. n + 1 /\ i \in 1 .. m + n /\ i = m + j
      BY <2>3, <1>1
    <3> HIDE DEF j
    <3> QED
      BY <3>1, <1>1, <1>2, <1>3, <1>4
  <2> QED
    BY <2>1, <2>2, <2>3
<1>6. l = r
  BY <1>2, <1>4, <1>5, SameSeq
<1> QED
  BY <1>6 DEF l, r, a, b

(* The sequences A are the codes C one after another. *)
Coded(A, C, S, X) ==
  \A i \in 1 .. Len(S) : IsCode(C[i], S[i], X[i]) /\ A[i + 1] = A[i] \o C[i]

LEMMA CodedBits ==
  ASSUME NEW A, NEW C, NEW S, Len(S) \in Nat, NEW X, Coded(A, C, S, X), A[1] \in Seq(Bit)
  PROVE  \A i \in 1 .. Len(S) + 1 : A[i] \in Seq(Bit)
<1> DEFINE n == Len(S)
           Bad == {i \in 1 .. n + 1 : A[i] \notin Seq(Bit)}
<1>1. ASSUME Bad # {} PROVE FALSE
  <2>1. PICK m \in Bad : \A k \in Bad : m <= k
    <3>1. Bad \subseteq Nat
      OBVIOUS
    <3> QED
      BY <3>1, <1>1, Least
  <2>2. m # 1
    BY <2>1
  <2> DEFINE l == m - 1
  <2>3. l \in 1 .. n /\ l \in 1 .. n + 1 /\ m = l + 1 /\ ~ (m <= l)
    BY <2>1, <2>2
  <2> HIDE DEF l
  <2>4. A[l] \in Seq(Bit)
    BY <2>1, <2>3
  <2>5. IsCode(C[l], S[l], X[l]) /\ A[m] = A[l] \o C[l]
    BY <2>3 DEF Coded
  <2>6. C[l] \in Seq(Bit)
    BY <2>5, CodeBits
  <2>7. A[l] \o C[l] \in Seq(Bit)
    BY <2>4, <2>6, JoinOf
  <2> QED
    BY <2>1, <2>5, <2>7
<1> QED
  BY <1>1

(* A reader in front of the codes of a syntax takes their values. *)
LEMMA ReadsSyntax ==
  ASSUME NEW bits \in Seq(Bit), NEW A, NEW C, NEW S, Len(S) \in Nat, NEW X \in Seq(Int),
         Len(X) = Len(S), NEW val \in Seq(Int),
         Coded(A, C, S, X), A[1] \in Seq(Bit), Ahead(bits, 1, A[Len(S) + 1])
  PROVE  Read(ReaderAt(bits, 1 + Len(A[1]), val), S) =
           ReaderAt(bits, 1 + Len(A[Len(S) + 1]), val \o X)
<1> DEFINE n == Len(S)
           r == ReaderAt(bits, 1 + Len(A[1]), val)
           Q == Readers(r, S)
           V(i) == val \o SubSeq(X, 1, i)
           At(i) == ReaderAt(bits, 1 + Len(A[i + 1]), V(i))
           Bad == {i \in 0 .. n : Q[i] # At(i)}
           NotYet == {i \in 0 .. n : ~ Ahead(bits, 1, A[(n - i) + 1])}
<1>1. \A i \in 0 .. n : Q[i] = IF i = 0 THEN r ELSE ReadOne(Q[i - 1], S[i])
  <2> HIDE DEF r
  <2>1. Q = [i \in 0 .. n |-> IF i = 0 THEN r ELSE ReadOne(Q[i - 1], S[i])]
    BY ReadersDef, SMTT(60)
  <2> HIDE DEF Q
  <2> QED
    BY <2>1
<1>2. \A i \in 1 .. n + 1 : A[i] \in Seq(Bit)
  BY CodedBits
<1>3. \A i \in 1 .. n : IsCode(C[i], S[i], X[i]) /\ A[i + 1] = A[i] \o C[i] /\ C[i] \in Seq(Bit)
  BY CodeBits DEF Coded
<1>4. V(0) = val /\ V(n) = val \o X
  <2>1. SubSeq(X, 1, 0) = <<>> /\ SubSeq(X, 1, n) = X /\ val \o <<>> = val
    OBVIOUS
  <2> QED
    BY <2>1
<1>5. ASSUME NEW i \in 1 .. n, NEW j \in 0 .. n, i = j + 1
      PROVE  V(i) = Append(V(j), X[i])
  <2>1. SubSeq(X, 1, i) = Append(SubSeq(X, 1, j), X[i]) /\ X[i] \in Int
    BY <1>5
  <2>2. SubSeq(X, 1, j) \in Seq(Int)
    BY <1>5
  <2> DEFINE s == SubSeq(X, 1, j)
             x == X[i]
  <2> HIDE DEF s, x
  <2>3. val \o Append(s, x) = Append(val \o s, x)
    <3>1. s \in Seq(Int) /\ x \in Int
      BY <2>1, <2>2 DEF s, x
    <3> QED
      BY <3>1, JoinOneMore
  <2> QED
    BY <2>1, <2>3 DEF s, x
<1>6. n \in Nat /\ Ahead(bits, 1, A[n + 1])
  OBVIOUS
<1> HIDE DEF n, Q, V
<1>7. \A i \in 0 .. n : Ahead(bits, 1, A[(n - i) + 1])
  <2>1. ASSUME NotYet # {} PROVE FALSE
    <3>1. PICK m \in NotYet : \A k \in NotYet : m <= k
      <4>1. NotYet \subseteq Nat
        OBVIOUS
      <4> QED
        BY <4>1, <2>1, Least
    <3>2. m # 0
      <4>1. (n - 0) + 1 = n + 1
        BY <1>6
      <4> QED
        BY <3>1, <4>1, <1>6
    <3> DEFINE l == m - 1
               i == (n - m) + 1
    <3>3. /\ l \in 0 .. n /\ ~ (m <= l) /\ i \in 1 .. n /\ (n - l) + 1 = i + 1
          /\ i \in 1 .. n + 1
      BY <3>1, <3>2, <1>6
    <3> HIDE DEF l, i
    <3>4. Ahead(bits, 1, A[i] \o C[i])
      <4>1. Ahead(bits, 1, A[i + 1])
        BY <3>1, <3>3
      <4> QED
        BY <4>1, <3>3, <1>3
    <3>5. Ahead(bits, 1, A[i])
      BY <3>3, <3>4, <1>2, <1>3, AheadSplits
    <3> QED
      BY <3>1, <3>5 DEF i
  <2> QED
    BY <2>1
<1>8. \A i \in 1 .. n + 1 : Ahead(bits, 1, A[i])
  <2> TAKE i \in 1 .. n + 1
  <2>1. (n + 1) - i \in 0 .. n /\ (n - ((n + 1) - i)) + 1 = i
    BY <1>6
  <2> QED
    BY <2>1, <1>7
<1>9. ASSUME Bad # {} PROVE FALSE
  <2>1. PICK m \in Bad : \A k \in Bad : m <= k
    <3>1. Bad \subseteq Nat
      OBVIOUS
    <3> QED
      BY <3>1, <1>9, Least
  <2>2. m # 0
    <3>1. At(0) = r
      BY <1>4
    <3>2. Q[0] = r
      BY <1>1, <1>6
    <3> QED
      BY <2>1, <3>1, <3>2
  <2> DEFINE l == m - 1
             pos == 1 + Len(A[m])
  <2>3. /\ m \in 1 .. n /\ m \in 1 .. n + 1 /\ m + 1 \in 1 .. n + 1
        /\ l \in 0 .. n /\ m = l + 1 /\ ~ (m <= l) /\ m - 1 = l
    <3>1. m \in 0 .. n
      BY <2>1
    <3> QED
      BY <2>2, <3>1, <1>6
  <2> HIDE DEF l
  <2>4. Q[l] = ReaderAt(bits, pos, V(l))
    <3>1. Q[l] = At(l)
      BY <2>1, <2>3
    <3> QED
      BY <3>1, <2>3
  <2>5. A[m] \in Seq(Bit) /\ C[m] \in Seq(Bit) /\ A[m + 1] = A[m] \o C[m]
        /\ IsCode(C[m], S[m], X[m])
    BY <2>3, <1>2, <1>3
  <2>6. Ahead(bits, 1, A[m] \o C[m])
    BY <2>3, <2>5, <1>8
  <2> DEFINE a == A[m]
             c == C[m]
             b == A[m + 1]
  <2> HIDE DEF a, c, b
  <2>7. pos \in Nat /\ pos >= 1 /\ Ahead(bits, pos, C[m])
    <3>1. a \in Seq(Bit) /\ c \in Seq(Bit) /\ Ahead(bits, 1, a \o c)
      BY <2>5, <2>6 DEF a, c
    <3>2. Ahead(bits, 1 + Len(a), c)
      BY <3>1, AheadSplits
    <3>3. 1 + Len(a) \in Nat /\ 1 + Len(a) >= 1
      BY <3>1
    <3> QED
      BY <3>2, <3>3 DEF a, c
  <2>8. pos + Len(C[m]) = 1 + Len(A[m + 1])
    <3>1. a \in Seq(Bit) /\ c \in Seq(Bit) /\ b = a \o c
      BY <2>5 DEF a, b, c
    <3>2. Len(b) = Len(a) + Len(c) /\ Len(a) \in Nat /\ Len(c) \in Nat
      BY <3>1, JoinOf
    <3>3. 1 + Len(a) + Len(c) = 1 + Len(b)
      BY <3>2
    <3> QED
      BY <3>3 DEF a, b, c
  <2> HIDE DEF pos
  <2>9. ReadOne(ReaderAt(bits, pos, V(l)), S[m]) =
          ReaderAt(bits, pos + Len(C[m]), Append(V(l), X[m]))
    <3> HIDE DEF V
    <3> DEFINE x == X[m]
               e == S[m]
               v == V(l)
    <3>1. IsCode(c, e, x) /\ Ahead(bits, pos, c)
      BY <2>5, <2>7 DEF c
    <3> HIDE DEF x, e, v
    <3>2. ReadOne(ReaderAt(bits, pos, v), e) = ReaderAt(bits, pos + Len(c), Append(v, x))
      BY <2>7, <3>1, TakesCode
    <3> QED
      BY <3>2 DEF c, x, e, v
  <2>10. Q[m] = ReadOne(Q[l], S[m])
    BY <1>1, <2>2, <2>3
  <2>11. V(m) = Append(V(l), X[m])
    BY <1>5, <2>3
  <2>12. Q[m] = At(m)
    BY <2>4, <2>8, <2>9, <2>10, <2>11
  <2> QED
    BY <2>1, <2>12
<1>10. Q[n] = At(n)
  <2>1. n \in 0 .. n
    BY <1>6
  <2> HIDE DEF At
  <2> QED
    BY <2>1, <1>9
<1>11. Read(r, S) = Q[n]
  BY DEF Read, Q, n
<1> QED
  BY <1>4, <1>10, <1>11 DEF n

-------------------------------------------------------------------------------
(* A unit that rkvenc_write_nal() had room for *)

(* A byte for which there is room is the last of the unit. *)
LEMMA PutByteLast ==
  ASSUME NEW w, w.out \in Seq(Nat), w.size \in Nat, Len(w.out) >= 5,
         Len(w.out) + 1 < w.size, NEW b \in Nat
  PROVE  /\ PutByte(w, b).size = w.size
         /\ \E s \in Seq(Nat) : /\ PutByte(w, b).out = Append(s, b)
                                /\ s = w.out \/ s = Append(w.out, 3)
<1> DEFINE e == PutEscape(w)
<1>1. HasRoom(w)
  BY DEF HasRoom
<1>2. e.out = Append(w.out, 3) /\ e.size = w.size
  BY DEF PutEscape
<1>3. HasRoom(e) /\ e.out \in Seq(Nat)
  <2> DEFINE o == w.out
  <2>1. o \in Seq(Nat) /\ e.out = Append(o, 3) /\ 3 \in Nat
    BY <1>2
  <2> HIDE DEF o, e
  <2>2. Len(e.out) = Len(o) + 1 /\ e.out # <<>> /\ e.out \in Seq(Nat)
    <3> DEFINE t == e.out
    <3>1. t = Append(o, 3)
      BY <2>1
    <3> HIDE DEF t
    <3>2. t \in Seq(Nat) /\ Len(t) = Len(o) + 1
      BY <2>1, <3>1
    <3>3. Len(t) # 0
      BY <2>1, <3>2
    <3> QED
      BY <3>2, <3>3 DEF t
  <2> QED
    BY <1>2, <2>2 DEF HasRoom, o
<1>4. \/ PutByte(w, b) = PutRaw(w, b)
      \/ PutByte(w, b) = PutRaw(e, b)
  BY <1>1, <1>3 DEF PutByte
<1>5. /\ PutRaw(w, b).out = Append(w.out, b) /\ PutRaw(w, b).size = w.size
      /\ PutRaw(e, b).out = Append(e.out, b) /\ PutRaw(e, b).size = e.size
  BY DEF PutRaw
<1> HIDE DEF e
<1> QED
  BY <1>2, <1>3, <1>4, <1>5

(* A byte of the RBSP keeps what is ahead of it in the unit. *)
LEMMA LastOf ==
  ASSUME NEW o \in Seq(Nat), Len(o) >= 5, NEW b \in Nat,
         NEW s \in Seq(Nat), s = o \/ s = Append(o, 3)
  PROVE  LET v == Append(s, b) IN
         /\ v \in Seq(Nat) /\ Len(v) >= 6 /\ Len(v) <= Len(o) + 2 /\ v[Len(v)] = b
         /\ \A i \in 1 .. 5 : v[i] = o[i]
<1> DEFINE v == Append(s, b)
<1>1. /\ v \in Seq(Nat) /\ Len(v) = Len(s) + 1 /\ v[Len(v)] = b
      /\ \A i \in 1 .. Len(s) : v[i] = s[i]
  OBVIOUS
<1> HIDE DEF v
<1> DEFINE l == Len(o)
           m == Len(s)
           n == Len(v)
<1>2. l \in Nat /\ l >= 5 /\ m \in Nat /\ n = m + 1 /\ n \in Nat
  BY <1>1
<1>3. (m = l \/ m = l + 1) /\ \A i \in 1 .. l : s[i] = o[i]
  <2>1. CASE s = o
    BY <2>1
  <2>2. CASE s = Append(o, 3)
    <3> DEFINE t == Append(o, 3)
    <3>1. Len(t) = l + 1 /\ \A i \in 1 .. l : t[i] = o[i]
      OBVIOUS
    <3>2. s = t
      BY <2>2
    <3> HIDE DEF t, l
    <3> QED
      BY <3>1, <3>2
  <2> QED
    BY <2>1, <2>2
<1> HIDE DEF l, m, n
<1>4. n >= 6 /\ n <= l + 2
  BY <1>2, <1>3
<1>5. \A i \in 1 .. 5 : v[i] = o[i]
  <2> TAKE i \in 1 .. 5
  <2>1. i \in 1 .. l /\ i \in 1 .. m
    BY <1>2, <1>3
  <2>2. v[i] = s[i]
    BY <1>1, <2>1 DEF m
  <2> QED
    BY <2>1, <2>2, <1>3
<1> QED
  BY <1>1, <1>4, <1>5 DEF v, l, n

(* What the loop of rkvenc_write_nal() has reached after n bytes, while there is
   room for each of them. *)
Reached(w, size, header, r, n) ==
  /\ WriterInv(w) /\ ReadBack(w, SubSeq(r, 1, n))
  /\ w.size = size /\ Len(w.out) >= 5 /\ Len(w.out) <= 5 + 2 * n
  /\ \A i \in 1 .. 5 : w.out[i] = Prefix(header)[i]
  /\ n > 0 => Len(w.out) >= 6 /\ w.out[Len(w.out)] = r[n]

LEMMA ReachedFirst ==
  ASSUME NEW size \in Nat, size > 5, NEW header \in Nat, NEW r \in Seq(Nat)
  PROVE  Reached(Begin(size, header), size, header, r, 0)
<1> DEFINE w == Begin(size, header)
<1>1. WriterInv(w) /\ ReadBack(w, <<>>)
  BY BeginKeeps, BeginReadsBack
<1>2. SubSeq(r, 1, 0) = <<>>
  OBVIOUS
<1>3. w.size = size /\ w.out = Prefix(header)
  BY DEF Begin, StartCode
<1>4. Len(Prefix(header)) = 5
  BY DEF Prefix, StartCode
<1> HIDE DEF w
<1>5. ReadBack(w, SubSeq(r, 1, 0))
  BY <1>1, <1>2
<1> QED
  BY <1>1, <1>3, <1>4, <1>5 DEF Reached, w

LEMMA ReachedNext ==
  ASSUME NEW size \in Nat, NEW header \in Nat, NEW r \in Seq(Nat), 5 + 2 * Len(r) < size,
         NEW n \in 0 .. Len(r), NEW k \in 1 .. Len(r), k = n + 1,
         NEW w, Reached(w, size, header, r, n)
  PROVE  Reached(PutByte(w, r[k]), size, header, r, k)
<1> DEFINE b == r[k]
           v == PutByte(w, b)
           p == SubSeq(r, 1, n)
           L == Len(r)
<1>1. b \in Nat /\ L \in Nat /\ SubSeq(r, 1, k) = Append(p, b)
  OBVIOUS
<1>2. /\ WriterInv(w) /\ ReadBack(w, p) /\ w.size = size
      /\ Len(w.out) >= 5 /\ Len(w.out) <= 5 + 2 * n
      /\ \A i \in 1 .. 5 : w.out[i] = Prefix(header)[i]
  BY DEF Reached
<1>3. w.out \in Seq(Nat)
  BY <1>2 DEF WriterInv, Writers
<1>4. n \in 0 .. L /\ k \in 1 .. L /\ 5 + 2 * L < size
  OBVIOUS
<1> HIDE DEF b, p, L
<1>5. WriterInv(v)
  BY <1>1, <1>2, PutByteKeeps
<1>6. ReadBack(v, Append(p, b))
  BY <1>1, <1>2, PutByteReadsBack
<1> DEFINE m == Len(w.out)
<1>7. m \in Nat /\ m + 1 < w.size
  <2>1. m \in Nat
    BY <1>3
  <2> HIDE DEF m
  <2>2. m <= 5 + 2 * n
    BY <1>2 DEF m
  <2> QED
    BY <2>1, <2>2, <1>1, <1>2, <1>4
<1> HIDE DEF m, v
<1>8. v.size = size
  BY <1>1, <1>2, <1>3, <1>7, PutByteLast DEF m, v
<1>9. PICK s \in Seq(Nat) : v.out = Append(s, b) /\ (s = w.out \/ s = Append(w.out, 3))
  BY <1>1, <1>2, <1>3, <1>7, PutByteLast DEF m, v
<1> DEFINE o == w.out
           u == v.out
<1>10. /\ o \in Seq(Nat) /\ Len(o) >= 5 /\ (s = o \/ s = Append(o, 3))
       /\ u = Append(s, b)
  BY <1>2, <1>3, <1>9
<1> HIDE DEF o, u
<1>11. /\ u \in Seq(Nat) /\ Len(u) >= 6 /\ Len(u) <= Len(o) + 2 /\ u[Len(u)] = b
       /\ \A i \in 1 .. 5 : u[i] = o[i]
  <2>1. LET v0 == Append(s, b) IN
        /\ v0 \in Seq(Nat) /\ Len(v0) >= 6 /\ Len(v0) <= Len(o) + 2 /\ v0[Len(v0)] = b
        /\ \A i \in 1 .. 5 : v0[i] = o[i]
    BY <1>1, <1>10, LastOf, ZenonT(60)
  <2> QED
    BY <2>1, <1>10
<1>12. Len(u) <= 5 + 2 * k /\ Len(u) >= 5
  <2> DEFINE l == Len(o)
             t == Len(u)
  <2>1. l <= 5 + 2 * n /\ l \in Nat /\ t \in Nat
    <3>1. l <= 5 + 2 * n
      BY <1>2 DEF o
    <3>2. l \in Nat
      BY <1>10
    <3>3. t \in Nat
      BY <1>11
    <3> QED
      BY <3>1, <3>2, <3>3
  <2>2. t >= 6 /\ t <= l + 2
    BY <1>11
  <2> HIDE DEF l, t
  <2>3. t <= 5 + 2 * k /\ t >= 5
    BY <2>1, <2>2, <1>4
  <2> QED
    BY <2>3 DEF t
<1>13. \A i \in 1 .. 5 : u[i] = Prefix(header)[i]
  BY <1>2, <1>11 DEF o
<1>14. ReadBack(v, SubSeq(r, 1, k))
  BY <1>1, <1>6
<1>15. Len(v.out) >= 6 /\ Len(v.out) >= 5 /\ Len(v.out) <= 5 + 2 * k /\ v.out[Len(v.out)] = r[k]
       /\ \A i \in 1 .. 5 : v.out[i] = Prefix(header)[i]
  BY <1>11, <1>12, <1>13 DEF u, b
<1>16. Reached(v, size, header, r, k)
  BY <1>5, <1>8, <1>14, <1>15, Zenon DEF Reached
<1> QED
  BY <1>16 DEF v, b

(* A unit that fits: a decoder finds the header, the whole RBSP and no start
   code but the first, and it does not end in a zero if the RBSP does not. *)
LEMMA WholeUnit ==
  ASSUME NEW size \in Nat, NEW header \in Nat, NEW r \in Seq(Nat), Len(r) > 0,
         5 + 2 * Len(r) < size
  PROVE  LET u == WriteNal(size, header, r) IN
         /\ u \in Seq(Nat) /\ Len(u) >= 6 /\ Len(u) <= 5 + 2 * Len(r)
         /\ Clean(u) /\ Unescape(Payload(u)) = r /\ u[Len(u)] = r[Len(r)]
         /\ \A i \in 1 .. 5 : u[i] = Prefix(header)[i]
<1> DEFINE W == Written(size, header, r)
           L == Len(r)
           Bad == {n \in 0 .. L : ~ Reached(W[n], size, header, r, n)}
<1>1. \A n \in 0 .. L : W[n] = IF n = 0 THEN Begin(size, header) ELSE PutByte(W[n - 1], r[n])
  <2>1. W = [n \in 0 .. L |-> IF n = 0 THEN Begin(size, header) ELSE PutByte(W[n - 1], r[n])]
    BY WrittenDef
  <2> HIDE DEF W
  <2> QED
    BY <2>1
<1>2. L \in Nat /\ L > 0 /\ 5 + 2 * L < size
  OBVIOUS
<1> HIDE DEF W, L
<1>3. ASSUME Bad # {} PROVE FALSE
  <2>1. PICK m \in Bad : \A k \in Bad : m <= k
    <3>1. Bad \subseteq Nat
      OBVIOUS
    <3> QED
      BY <3>1, <1>3, Least
  <2>2. m # 0
    <3>1. size > 5 /\ W[0] = Begin(size, header)
      BY <1>1, <1>2
    <3>2. Reached(W[0], size, header, r, 0)
      BY <3>1, ReachedFirst
    <3> QED
      BY <2>1, <3>2
  <2> DEFINE n == m - 1
  <2>3. n \in 0 .. L /\ m \in 1 .. L /\ m = n + 1 /\ ~ (m <= n) /\ W[m] = PutByte(W[n], r[m])
    BY <2>1, <2>2, <1>1, <1>2
  <2> HIDE DEF n
  <2>4. Reached(W[n], size, header, r, n)
    BY <2>1, <2>3
  <2>5. Reached(PutByte(W[n], r[m]), size, header, r, m)
    <3> DEFINE w == W[n]
    <3> HIDE DEF w
    <3>1. Reached(w, size, header, r, n)
      BY <2>4 DEF w
    <3>2. Reached(PutByte(w, r[m]), size, header, r, m)
      BY <2>3, <3>1, <1>2, ReachedNext DEF L
    <3> QED
      BY <3>2 DEF w
  <2>6. Reached(W[m], size, header, r, m)
    BY <2>3, <2>5
  <2> QED
    BY <2>1, <2>6
<1>4. Reached(W[L], size, header, r, L)
  <2>1. L \in 0 .. L
    BY <1>2
  <2> QED
    BY <2>1, <1>3
<1> DEFINE w == W[L]
           u == w.out
<1>5. WriteNal(size, header, r) = u
  BY DEF WriteNal, W, L
<1> HIDE DEF w
<1>6. /\ WriterInv(w) /\ ReadBack(w, SubSeq(r, 1, L)) /\ w.size = size
      /\ Len(u) >= 6 /\ Len(u) <= 5 + 2 * L /\ u[Len(u)] = r[L]
      /\ \A i \in 1 .. 5 : u[i] = Prefix(header)[i]
  BY <1>2, <1>4 DEF Reached, w
<1>7. u \in Seq(Nat) /\ Clean(u)
  BY <1>6 DEF WriterInv, Writers
<1>8. HasRoom(w)
  <2>1. Len(u) \in Nat /\ u # <<>>
    BY <1>6, <1>7
  <2> QED
    BY <2>1, <1>2, <1>6, SMTT(60) DEF HasRoom
<1>9. Unescape(Payload(u)) = r
  <2>1. SubSeq(r, 1, L) = r
    BY DEF L
  <2> QED
    BY <2>1, <1>6, <1>8 DEF ReadBack
<1> QED
  BY <1>5, <1>6, <1>7, <1>9 DEF L

-------------------------------------------------------------------------------
(* What a decoder reads in the parameter sets *)

LEMMA CodeOf ==
  /\ \A x \in 0 .. 255 : IsCode(Ue(x), ue, x) /\ IsCode(U(x, 8), 8, x)
  /\ \A x \in Bit : IsCode(U(x, 1), 1, x)
  /\ \A x \in -26 .. 25 : IsCode(Se(x), se, x)
  /\ IsCode(U(0, 2), 2, 0)
<1>1. ASSUME NEW x \in 0 .. 255 PROVE IsCode(Ue(x), ue, x) /\ IsCode(U(x, 8), 8, x)
  <2>1. 8 \in 1 .. 17 /\ x \in Nat /\ x < 2 ^ 8
    BY SMT
  <2> QED
    BY <2>1, Zenon DEF IsCode
<1>2. ASSUME NEW x \in Bit PROVE IsCode(U(x, 1), 1, x)
  <2>1. 1 \in 1 .. 17 /\ x \in Nat /\ x < 2 ^ 1
    BY SMT DEF Bit
  <2> QED
    BY <2>1, Zenon DEF IsCode
<1>3. ASSUME NEW x \in -26 .. 25 PROVE IsCode(Se(x), se, x)
  BY Zenon DEF IsCode
<1>4. IsCode(U(0, 2), 2, 0)
  <2>1. 2 \in 1 .. 17 /\ 0 \in Nat /\ 0 < 2 ^ 2
    BY SMT
  <2> QED
    BY <2>1, Zenon DEF IsCode
<1> QED
  BY <1>1, <1>2, <1>3, <1>4

LEMMA JoinAssoc ==
  ASSUME NEW s \in Seq(Bit), NEW t \in Seq(Bit), NEW u \in Seq(Bit)
  PROVE  s \o (t \o u) = (s \o t) \o u
<1> DEFINE a == t \o u
           b == s \o t
           l == s \o a
           r == b \o u
           i1 == Len(s)
           i2 == Len(t)
           i3 == Len(u)
<1>0. i1 \in Nat /\ i2 \in Nat /\ i3 \in Nat
  OBVIOUS
<1>1. /\ a \in Seq(Bit) /\ Len(a) = i2 + i3
      /\ \A i \in 1 .. i2 : a[i] = t[i]
      /\ \A i \in 1 .. i3 : a[i2 + i] = u[i]
  BY JoinOf
<1>2. /\ b \in Seq(Bit) /\ Len(b) = i1 + i2
      /\ \A i \in 1 .. i1 : b[i] = s[i]
      /\ \A i \in 1 .. i2 : b[i1 + i] = t[i]
  BY JoinOf
<1> HIDE DEF a, b
<1>3. /\ l \in Seq(Bit) /\ Len(l) = Len(s) + Len(a)
      /\ \A i \in 1 .. Len(s) : l[i] = s[i]
      /\ \A i \in 1 .. Len(a) : l[Len(s) + i] = a[i]
  <2>1. a \in Seq(Bit)
    BY <1>1
  <2> HIDE DEF i1, i2, i3
  <2> QED
    BY <2>1, JoinOf
<1>4. /\ r \in Seq(Bit) /\ Len(r) = Len(b) + Len(u)
      /\ \A i \in 1 .. Len(b) : r[i] = b[i]
      /\ \A i \in 1 .. Len(u) : r[Len(b) + i] = u[i]
  <2>1. b \in Seq(Bit)
    BY <1>2
  <2> HIDE DEF i1, i2, i3
  <2> QED
    BY <2>1, JoinOf
<1> DEFINE n == i1 + i2 + i3
<1> HIDE DEF l, r, i1, i2, i3
<1>5. /\ Len(l) = n /\ Len(r) = n
      /\ \A i \in 1 .. i1 : l[i] = s[i]
      /\ \A i \in 1 .. i2 + i3 : l[i1 + i] = a[i]
      /\ \A i \in 1 .. i1 + i2 : r[i] = b[i]
      /\ \A i \in 1 .. i3 : r[i1 + i2 + i] = u[i]
  <2>1. Len(s) = i1 /\ Len(u) = i3
    BY DEF i1, i3
  <2> QED
    BY <2>1, <1>0, <1>1, <1>2, <1>3, <1>4
<1>6. ASSUME NEW i \in 1 .. n PROVE l[i] = r[i]
  <2>1. CASE i <= i1
    <3>1. i \in 1 .. i1 /\ i \in 1 .. i1 + i2
      BY <2>1, <1>0
    <3> QED
      BY <3>1, <1>2, <1>5
  <2>2. CASE i1 < i /\ i <= i1 + i2
    <3> DEFINE j == i - i1
    <3>1. j \in 1 .. i2 /\ j \in 1 .. i2 + i3 /\ i = i1 + j /\ i \in 1 .. i1 + i2
      BY <2>2, <1>0
    <3> HIDE DEF j
    <3> QED
      BY <3>1, <1>1, <1>2, <1>5
  <2>3. CASE i1 + i2 < i
    <3> DEFINE j == i - i1
               k == i - (i1 + i2)
    <3>1. k \in 1 .. i3 /\ j \in 1 .. i2 + i3 /\ i = i1 + j /\ i = i1 + i2 + k /\ j = i2 + k
      BY <2>3, <1>0
    <3> HIDE DEF j, k
    <3>2. l[i] = a[j] /\ a[j] = u[k] /\ r[i] = u[k]
      BY <3>1, <1>1, <1>5
    <3> QED
      BY <3>2
  <2> QED
    BY <2>1, <2>2, <2>3, <1>0
<1>7. l = r
  BY <1>3, <1>4, <1>5, <1>6, SameSeq
<1> QED
  BY <1>7 DEF l, r, a, b

(* Behind the last code there is nothing but the trailing bits. *)
LEMMA EndsAt ==
  ASSUME NEW s \in Seq(Bit), NEW val
  PROVE  /\ s \o Trailing(s) \in Seq(Bit) /\ Ahead(s \o Trailing(s), 1, s)
         /\ AtEnd(ReaderAt(s \o Trailing(s), 1 + Len(s), val))
<1> DEFINE l == Len(s)
           t == Trailing(s)
           b == s \o t
           part == SubSeq(b, 1 + l, Len(b))
<1>1. l \in Nat
  OBVIOUS
<1>2. PICK z \in 0 .. 7 : t = U(1, 1) \o U(0, z)
  BY <1>1, TrailingOf
<1>3. t \in Seq(Bit) /\ Len(t) = 1 + z
  <2>1. U(0, z) \in Seq(Bit) /\ Len(U(0, z)) = z
    <3>1. 0 \in Nat /\ z \in 0 .. 17
      BY <1>2
    <3> QED
      BY <3>1, BitsOf
  <2> DEFINE one == U(1, 1)
             zeros0 == U(0, z)
  <2>2. one \in Seq(Bit) /\ Len(one) = 1
    BY OneBit
  <2>3. zeros0 \in Seq(Bit) /\ Len(zeros0) = z /\ t = one \o zeros0
    BY <2>1, <1>2
  <2> HIDE DEF one, zeros0, t
  <2>4. one \o zeros0 \in Seq(Bit) /\ Len(one \o zeros0) = Len(one) + Len(zeros0)
    BY <2>2, <2>3, JoinOf
  <2> QED
    BY <2>2, <2>3, <2>4
<1> HIDE DEF t
<1>4. /\ b \in Seq(Bit) /\ Len(b) = l + (1 + z)
      /\ \A i \in 1 .. l : b[i] = s[i]
      /\ \A i \in 1 .. 1 + z : b[l + i] = t[i]
  <2>1. /\ b \in Seq(Bit) /\ Len(b) = Len(s) + Len(t)
        /\ \A i \in 1 .. Len(s) : b[i] = s[i]
        /\ \A i \in 1 .. Len(t) : b[Len(s) + i] = t[i]
    BY <1>3, JoinOf
  <2> QED
    BY <2>1, <1>3
<1> HIDE DEF b
<1>5. Ahead(b, 1, s)
  <2>1. 1 + l - 1 <= Len(b) /\ \A i \in 1 .. l : 1 + i - 1 = i
    BY <1>1, <1>2, <1>4
  <2>2. \A i \in 1 .. l : b[1 + i - 1] = s[i]
    BY <2>1, <1>4
  <2> QED
    BY <2>1, <2>2, Zenon DEF Ahead, l
<1> DEFINE p == 1 + l
           n == 1 + z
<1>6. p \in Nat /\ p >= 1 /\ n \in Nat /\ p + n - 1 = Len(b) /\ Len(b) - p = z
      /\ \A i \in 1 .. n : p + i - 1 = l + i
  BY <1>1, <1>2, <1>4
<1>7. /\ part \in Seq(Bit) /\ Len(part) = n
      /\ \A i \in 1 .. n : part[i] = b[p + i - 1]
  <2> HIDE DEF p, n, l
  <2>1. p + n - 1 <= Len(b) /\ part = SubSeq(b, p, p + n - 1)
    <3>1. p + n - 1 = Len(b) /\ Len(b) \in Nat /\ part = SubSeq(b, p, Len(b))
      BY <1>4, <1>6 DEF p
    <3>2. Len(b) <= Len(b)
      BY <3>1
    <3> QED
      BY <3>1, <3>2
  <2>2. /\ SubSeq(b, p, p + n - 1) \in Seq(Bit) /\ Len(SubSeq(b, p, p + n - 1)) = n
        /\ \A i \in 1 .. n : SubSeq(b, p, p + n - 1)[i] = b[p + i - 1]
    BY <1>4, <1>6, <2>1, PartOf
  <2> HIDE DEF part
  <2> QED
    BY <2>1, <2>2
<1> HIDE DEF part
<1>8. part = t
  <2>1. \A i \in 1 .. n : part[i] = t[i]
    BY <1>4, <1>6, <1>7
  <2> QED
    BY <2>1, <1>3, <1>7, SameSeq
<1>9. AtEnd(ReaderAt(b, p, val))
  <2>1. Len(b) - p = z
    BY <1>6
  <2> HIDE DEF p, l
  <2>2. SubSeq(b, p, Len(b)) = U(1, 1) \o U(0, Len(b) - p)
    <3>1. part = SubSeq(b, p, Len(b))
      BY DEF part, p
    <3> QED
      BY <3>1, <2>1, <1>2, <1>8
  <2> QED
    BY <2>2 DEF AtEnd, ReaderAt
<1> QED
  BY <1>4, <1>5, <1>9 DEF b, t, l, p

(* The codes of the SPS up to the cropping flag, and their values, *)
SpsStart(c) ==
  U(IF c.main THEN 77 ELSE 66, 8) \o U(0, 8) \o U(c.level, 8)
  \o Ue(0) \o Ue(Log2MaxFrameNum) \o Ue(0) \o Ue(Log2MaxPocLsb) \o Ue(1)
  \o U(0, 1) \o Ue(MbW(c) - 1) \o Ue(MbH(c) - 1) \o U(1, 1) \o U(1, 1)

SpsValues(c, flag) ==
  <<IF c.main THEN 77 ELSE 66, 0, c.level, 0, 4, 0, 4, 1, 0,
    MbW(c) - 1, MbH(c) - 1, 1, 1, flag>>

LEMMA SpsCodes ==
  ASSUME NEW c \in ControlTypes, CodedSize(c), NEW flag \in Bit
  PROVE  /\ SpsStart(c) \in Seq(Bit) /\ SpsValues(c, flag) \in Seq(Int)
         /\ \A bits \in Seq(Bit) :
              Ahead(bits, 1, SpsStart(c) \o U(flag, 1)) =>
                Read(ReaderAt(bits, 1, <<>>), SpsSyntax) =
                  ReaderAt(bits, 1 + Len(SpsStart(c) \o U(flag, 1)), SpsValues(c, flag))
<1> DEFINE profile == IF c.main THEN 77 ELSE 66
           level == c.level
           a == SpsStart(c)
<1>0. profile \in 0 .. 255 /\ level \in 0 .. 255
  BY DEF ControlTypes, LevelTypes
<1> DEFINE x10 == MbW(c) - 1
           x11 == MbH(c) - 1
           c1 == U(profile, 8)
           c2 == U(0, 8)
           c3 == U(level, 8)
           c4 == Ue(0)
           c5 == Ue(4)
           c8 == Ue(1)
           c9 == U(0, 1)
           c10 == Ue(x10)
           c11 == Ue(x11)
           c12 == U(1, 1)
           c14 == U(flag, 1)
           a0 == <<>>
           a2 == c1 \o c2
           a3 == a2 \o c3
           a4 == a3 \o c4
           a5 == a4 \o c5
           a6 == a5 \o c4
           a7 == a6 \o c5
           a8 == a7 \o c8
           a9 == a8 \o c9
           a10 == a9 \o c10
           a11 == a10 \o c11
           a12 == a11 \o c12
           a13 == a12 \o c12
           a14 == a13 \o c14
           A == <<a0, c1, a2, a3, a4, a5, a6, a7, a8, a9, a10, a11, a12, a13, a14>>
           C == <<c1, c2, c3, c4, c5, c4, c5, c8, c9, c10, c11, c12, c12, c14>>
           X == <<profile, 0, level, 0, 4, 0, 4, 1, 0, x10, x11, 1, 1, flag>>
           S == SpsSyntax
<1>1. a = a13 /\ X = SpsValues(c, flag)
  BY DEF Log2MaxFrameNum, Log2MaxPocLsb, SpsStart, SpsValues
<1> HIDE DEF a, profile, level
<1>2. x10 \in 0 .. 255 /\ x11 \in 0 .. 255
  BY Macroblocks
<1>3. /\ IsCode(c1, 8, profile) /\ IsCode(c2, 8, 0) /\ IsCode(c3, 8, level)
      /\ IsCode(c4, ue, 0) /\ IsCode(c5, ue, 4) /\ IsCode(c8, ue, 1)
      /\ IsCode(c9, 1, 0) /\ IsCode(c10, ue, x10) /\ IsCode(c11, ue, x11)
      /\ IsCode(c12, 1, 1) /\ IsCode(c14, 1, flag)
  <2>1. 0 \in 0 .. 255 /\ 1 \in 0 .. 255 /\ 4 \in 0 .. 255 /\ 0 \in Bit /\ 1 \in Bit
    BY DEF Bit
  <2> HIDE DEF x10, x11
  <2> QED
    BY <1>0, <1>2, <2>1, CodeOf, Zenon
<1> HIDE DEF x10, x11
<1>4. X \in Seq(Int) /\ Len(X) = 14 /\ Len(S) = 14
  <2>1. 0 \in Int /\ 1 \in Int /\ 4 \in Int /\ profile \in Int /\ level \in Int /\ flag \in Int
        /\ x10 \in Int /\ x11 \in Int
    BY <1>0, <1>2 DEF Bit
  <2> QED
    BY <2>1 DEF SpsSyntax
<1>5. c1 \in Seq(Bit)
  BY <1>3, CodeBits
<1> HIDE DEF c1, c2, c3, c4, c5, c8, c9, c10, c11, c12, c14
<1>6. a0 \o c1 = c1
  BY <1>5
<1>7. /\ A[2] = A[1] \o C[1] /\ A[3] = A[2] \o C[2] /\ A[4] = A[3] \o C[3]
      /\ A[5] = A[4] \o C[4] /\ A[6] = A[5] \o C[5] /\ A[7] = A[6] \o C[6]
      /\ A[8] = A[7] \o C[7] /\ A[9] = A[8] \o C[8] /\ A[10] = A[9] \o C[9]
      /\ A[11] = A[10] \o C[10] /\ A[12] = A[11] \o C[11] /\ A[13] = A[12] \o C[12]
      /\ A[14] = A[13] \o C[13] /\ A[15] = A[14] \o C[14]
      /\ A[1] = a0 /\ A[14] = a13 /\ A[15] = a14
  <2> DEFINE d1 == a0 \o c1
  <2>1. A = <<a0, d1, a2, a3, a4, a5, a6, a7, a8, a9, a10, a11, a12, a13, a14>> /\ c1 = d1
    BY <1>6
  <2> QED
    BY <1>6
<1>8. /\ C[1] = c1 /\ C[2] = c2 /\ C[3] = c3 /\ C[4] = c4 /\ C[5] = c5 /\ C[6] = c4
      /\ C[7] = c5 /\ C[8] = c8 /\ C[9] = c9 /\ C[10] = c10 /\ C[11] = c11
      /\ C[12] = c12 /\ C[13] = c12 /\ C[14] = c14
  OBVIOUS
<1>9. /\ X[1] = profile /\ X[2] = 0 /\ X[3] = level /\ X[4] = 0 /\ X[5] = 4 /\ X[6] = 0
      /\ X[7] = 4 /\ X[8] = 1 /\ X[9] = 0 /\ X[10] = x10 /\ X[11] = x11
      /\ X[12] = 1 /\ X[13] = 1 /\ X[14] = flag
  OBVIOUS
<1>10. /\ S[1] = 8 /\ S[2] = 8 /\ S[3] = 8 /\ S[4] = ue /\ S[5] = ue /\ S[6] = ue
       /\ S[7] = ue /\ S[8] = ue /\ S[9] = 1 /\ S[10] = ue /\ S[11] = ue
       /\ S[12] = 1 /\ S[13] = 1 /\ S[14] = 1
  BY DEF SpsSyntax
<1> DEFINE a13x == a13
           a14x == a14
<1>11. a13x = a13 /\ a14x = a14 /\ a14x = a13x \o c14
  OBVIOUS
<1> HIDE DEF A, C, X, S, a13x, a14x
<1>12. Coded(A, C, S, X)
  <2> DEFINE Fits(i, j) == IsCode(C[i], S[i], X[i]) /\ A[j] = A[i] \o C[i]
  <2>1. /\ Fits(1, 2) /\ Fits(2, 3) /\ Fits(3, 4) /\ Fits(4, 5) /\ Fits(5, 6) /\ Fits(6, 7)
        /\ Fits(7, 8) /\ Fits(8, 9) /\ Fits(9, 10) /\ Fits(10, 11) /\ Fits(11, 12)
        /\ Fits(12, 13) /\ Fits(13, 14) /\ Fits(14, 15)
    BY <1>3, <1>7, <1>8, <1>9, <1>10, Zenon
  <2> HIDE DEF Fits
  <2>2. \A i \in 1 .. 14 : Fits(i, i + 1)
    BY <2>1
  <2> QED
    BY <1>4, <2>2 DEF Coded, Fits
<1> DEFINE s1 == A[1]
           s14 == A[14]
           s15 == A[15]
<1>13. /\ s1 = <<>> /\ s14 = a13x /\ s15 = a14x
  BY <1>7, <1>11, Zenon
<1> HIDE DEF s1, s14, s15
<1>14. a \in Seq(Bit)
  <2>1. s1 \in Seq(Bit)
    BY <1>13
  <2>2. Len(S) \in Nat
    BY <1>4
  <2>3. \A i \in 1 .. Len(S) + 1 : A[i] \in Seq(Bit)
    BY <2>1, <2>2, <1>12, CodedBits DEF s1
  <2> DEFINE i == 14
  <2>4. i \in 1 .. Len(S) + 1
    BY <1>4
  <2>5. A[i] \in Seq(Bit)
    BY <2>3, <2>4
  <2>6. a = a13x
    BY <1>1, <1>11, Zenon
  <2> QED
    BY <2>5, <2>6, <1>13, Zenon DEF s14
<1>15. ASSUME NEW bits \in Seq(Bit), Ahead(bits, 1, a14x)
       PROVE  Read(ReaderAt(bits, 1, <<>>), S) = ReaderAt(bits, 1 + Len(a14x), X)
  <2>1. s1 \in Seq(Bit) /\ Len(s1) = 0 /\ 1 + Len(s1) = 1
    BY <1>13
  <2> DEFINE n == Len(S)
  <2>2. n \in Nat /\ A[n + 1] = a14x
    <3>1. n = 14 /\ A[14 + 1] = A[15]
      BY <1>4
    <3> QED
      BY <3>1, <1>13 DEF s15
  <2> DEFINE none == <<>>
  <2>3. none \in Seq(Int) /\ none \o X = X /\ Len(X) = n /\ X \in Seq(Int)
    BY <1>4
  <2> HIDE DEF none, n
  <2>4. Ahead(bits, 1, A[n + 1])
    BY <1>15, <2>2
  <2>5. Read(ReaderAt(bits, 1 + Len(A[1]), none), S) =
          ReaderAt(bits, 1 + Len(A[n + 1]), none \o X)
    <3>1. /\ Len(S) \in Nat /\ X \in Seq(Int) /\ Len(X) = Len(S) /\ none \in Seq(Int)
          /\ A[1] \in Seq(Bit) /\ Ahead(bits, 1, A[Len(S) + 1])
      BY <2>1, <2>2, <2>3, <2>4 DEF n, s1
    <3>2. Read(ReaderAt(bits, 1 + Len(A[1]), none), S) =
            ReaderAt(bits, 1 + Len(A[Len(S) + 1]), none \o X)
      BY <3>1, <1>12, ReadsSyntax
    <3> QED
      BY <3>2 DEF n
  <2>6. 1 + Len(A[1]) = 1
    BY <2>1 DEF s1
  <2> QED
    BY <2>2, <2>3, <2>5, <2>6 DEF none
<1>16. X = SpsValues(c, flag)
  BY <1>1, Zenon
<1>17. a14x = a \o U(flag, 1)
  BY <1>1, <1>11 DEF c14
<1> QED
  BY <1>1, <1>4, <1>14, <1>15, <1>17, <1>16, Zenon DEF S, a

(* and the cropping offsets behind it. *)
LEMMA CropCodes ==
  ASSUME NEW a \in Seq(Bit), NEW r \in 0 .. 255, NEW b \in 0 .. 255
  PROVE  LET e == a \o Ue(0) \o Ue(r) \o Ue(0) \o Ue(b) IN
         /\ e \in Seq(Bit)
         /\ \A bits \in Seq(Bit), val \in Seq(Int) :
              Ahead(bits, 1, e) =>
                Read(ReaderAt(bits, 1 + Len(a), val), CropSyntax) =
                  ReaderAt(bits, 1 + Len(e), val \o <<0, r, 0, b>>)
<1> DEFINE c1 == Ue(0)
           c2 == Ue(r)
           c4 == Ue(b)
           a1 == a \o c1
           a2 == a1 \o c2
           a3 == a2 \o c1
           e == a3 \o c4
           A == <<a, a1, a2, a3, e>>
           C == <<c1, c2, c1, c4>>
           X == <<0, r, 0, b>>
           S == CropSyntax
<1>1. IsCode(c1, ue, 0) /\ IsCode(c2, ue, r) /\ IsCode(c4, ue, b)
  <2>1. 0 \in 0 .. 255
    OBVIOUS
  <2> QED
    BY <2>1, CodeOf, Zenon
<1>2. X \in Seq(Int) /\ Len(X) = 4 /\ Len(S) = 4
  BY DEF CropSyntax
<1> HIDE DEF c1, c2, c4
<1>3. /\ A[2] = A[1] \o C[1] /\ A[3] = A[2] \o C[2] /\ A[4] = A[3] \o C[3]
      /\ A[5] = A[4] \o C[4] /\ A[1] = a /\ A[5] = e
      /\ IsCode(C[1], S[1], X[1]) /\ IsCode(C[2], S[2], X[2])
      /\ IsCode(C[3], S[3], X[3]) /\ IsCode(C[4], S[4], X[4])
  <2>1. /\ C[1] = c1 /\ C[2] = c2 /\ C[3] = c1 /\ C[4] = c4
        /\ X[1] = 0 /\ X[2] = r /\ X[3] = 0 /\ X[4] = b
        /\ S[1] = ue /\ S[2] = ue /\ S[3] = ue /\ S[4] = ue
        /\ A[1] = a /\ A[2] = a1 /\ A[3] = a2 /\ A[4] = a3 /\ A[5] = e
    BY DEF CropSyntax
  <2> HIDE DEF C, X, S, A
  <2> QED
    BY <1>1, <2>1, Zenon
<1> HIDE DEF A, C, X, S, e
<1>4. Coded(A, C, S, X)
  <2> DEFINE Fits(i, j) == IsCode(C[i], S[i], X[i]) /\ A[j] = A[i] \o C[i]
  <2>1. Fits(1, 2) /\ Fits(2, 3) /\ Fits(3, 4) /\ Fits(4, 5)
    BY <1>3, Zenon
  <2> HIDE DEF Fits
  <2>2. \A i \in 1 .. 4 : Fits(i, i + 1)
    BY <2>1
  <2> QED
    BY <1>2, <2>2 DEF Coded, Fits
<1>5. /\ Len(S) \in Nat /\ X \in Seq(Int) /\ Len(X) = Len(S)
      /\ A[1] \in Seq(Bit) /\ A[1] = a /\ A[Len(S) + 1] = e /\ Len(S) + 1 \in 1 .. Len(S) + 1
  <2>1. Len(S) = 4 /\ A[4 + 1] = A[5]
    BY <1>2
  <2> QED
    BY <1>2, <1>3, <2>1
<1>6. e \in Seq(Bit)
  <2>1. \A i \in 1 .. Len(S) + 1 : A[i] \in Seq(Bit)
    BY <1>4, <1>5, CodedBits
  <2> QED
    BY <1>5, <2>1
<1>7. ASSUME NEW bits \in Seq(Bit), NEW val \in Seq(Int), Ahead(bits, 1, e)
      PROVE  Read(ReaderAt(bits, 1 + Len(a), val), S) = ReaderAt(bits, 1 + Len(e), val \o X)
  <2>1. Ahead(bits, 1, A[Len(S) + 1])
    BY <1>5, <1>7
  <2>2. /\ Len(S) \in Nat /\ X \in Seq(Int) /\ Len(X) = Len(S) /\ val \in Seq(Int)
        /\ A[1] \in Seq(Bit)
    BY <1>5
  <2>3. Read(ReaderAt(bits, 1 + Len(A[1]), val), S) =
          ReaderAt(bits, 1 + Len(A[Len(S) + 1]), val \o X)
    BY <2>1, <2>2, <1>4, ReadsSyntax
  <2> QED
    BY <2>3, <1>5
<1> QED
  BY <1>6, <1>7, Zenon DEF e, S, X, c1, c2, c4

LEMMA AppendKeeps ==
  ASSUME NEW s \in Seq(Int), NEW x \in Int
  PROVE  \A i \in 1 .. Len(s) : Append(s, x)[i] = s[i]
OBVIOUS

EvenSize(c) == c.width % 2 = 0 /\ c.height % 2 = 0

(* Half of the part cropped of an even size is a whole number. *)
LEMMA EvenCrop ==
  ASSUME NEW m \in Nat, NEW x \in Nat, 16 * m - x \in 0 .. 15, x % 2 = 0
  PROVE  LET h == (16 * m - x) \div 2 IN
         /\ h \in 0 .. 255 /\ (16 * m - x # 0 <=> h # 0)
         /\ 16 * ((m - 1) + 1) - 2 * (0 + h) = x
<1> DEFINE y == 16 * m - x
<1>1. y \in 0 .. 15 /\ y % 2 = 0
  OBVIOUS
<1>2. x = 16 * m - y
  OBVIOUS
<1> HIDE DEF y
<1>3. y \div 2 \in 0 .. 7 /\ 2 * (y \div 2) = y
  BY <1>1
<1>4. 16 * ((m - 1) + 1) - 2 * (0 + (y \div 2)) = 16 * m - y
  BY <1>3
<1> QED
  BY <1>1, <1>2, <1>3, <1>4 DEF y

(* The whole SPS. *)
LEMMA SpsReadsBack ==
  ASSUME CodedSize(ctrl), EvenSize(ctrl), ctrl \in ControlTypes, Sps(ctrl) \in Seq(Bit),
         Reader(SpsUnit) = ReaderAt(Sps(ctrl) \o Trailing(Sps(ctrl)), 1, <<>>)
  PROVE  LET s == SpsRead.val IN
         /\ AtEnd(SpsRead)
         /\ s[1] = (IF ctrl.main THEN 77 ELSE 66) /\ s[3] = ctrl.level
         /\ 2 ^ (s[5] + 4) = 256 /\ 2 ^ (s[7] + 4) = 256
         /\ 16 * (s[10] + 1) - 2 * (s[15] + s[16]) = ctrl.width
         /\ 16 * (s[11] + 1) - 2 * (s[17] + s[18]) = ctrl.height
<1> DEFINE w == ctrl.width
           h == ctrl.height
           m == MbW(ctrl)
           n == MbH(ctrl)
           right == 16 * m - w
           bottom == 16 * n - h
           crops == right # 0 \/ bottom # 0
           flag == IF crops THEN 1 ELSE 0
           r == right \div 2
           b == bottom \div 2
           a == SpsStart(ctrl)
           all == Sps(ctrl)
           bits == all \o Trailing(all)
           f == U(flag, 1)
           af == a \o f
           e == af \o Ue(0) \o Ue(r) \o Ue(0) \o Ue(b)
           o == U(0, 1)
           X == SpsValues(ctrl, flag)
           Y == <<0, r, 0, b>>
           fixed == Read(Reader(SpsUnit), SpsSyntax)
           crop == IF fixed.val[14] = 1 THEN Read(fixed, CropSyntax)
                   ELSE [fixed EXCEPT !.val = @ \o <<0, 0, 0, 0>>]
<1>1. /\ m \in Nat /\ w \in Nat /\ 16 * m - w \in 0 .. 15 /\ w % 2 = 0
      /\ n \in Nat /\ h \in Nat /\ 16 * n - h \in 0 .. 15 /\ h % 2 = 0
  <2>1. /\ m \in 1 .. 256 /\ 16 * m - w \in 0 .. 15
        /\ n \in 1 .. 160 /\ 16 * n - h \in 0 .. 15
    BY Macroblocks, Zenon
  <2>2. w \in Nat /\ h \in Nat /\ w % 2 = 0 /\ h % 2 = 0
    BY DEF CodedSize, EvenSize
  <2> HIDE DEF m, n, w, h
  <2> QED
    BY <2>1, <2>2
<1>2. /\ r \in 0 .. 255 /\ (right # 0 <=> r # 0) /\ 16 * ((m - 1) + 1) - 2 * (0 + r) = w
  <2> HIDE DEF m, n, w, h
  <2> QED
    BY <1>1, EvenCrop, Zenon
<1>3. /\ b \in 0 .. 255 /\ (bottom # 0 <=> b # 0) /\ 16 * ((n - 1) + 1) - 2 * (0 + b) = h
  <2> HIDE DEF m, n, w, h
  <2> QED
    BY <1>1, EvenCrop, Zenon
<1>4. all = a \o Crop(ctrl) \o o
  BY Zenon DEF Sps, SpsStart
<1>5. Crop(ctrl) = IF crops THEN f \o Ue(0) \o Ue(r) \o Ue(0) \o Ue(b) ELSE f
  BY DEF Crop
<1>6. (crops => flag = 1) /\ (~ crops => flag = 0 /\ r = 0 /\ b = 0)
  BY <1>2, <1>3
<1> HIDE DEF crops, right, bottom, r, b, m, n, w, h
<1>0. flag \in Bit
  BY DEF Bit
<1> HIDE DEF flag
<1>7. /\ a \in Seq(Bit) /\ X \in Seq(Int)
      /\ \A z \in Seq(Bit) : Ahead(z, 1, af) =>
           Read(ReaderAt(z, 1, <<>>), SpsSyntax) = ReaderAt(z, 1 + Len(af), X)
  BY <1>0, SpsCodes, Zenon
<1>8. /\ Len(X) = 14 /\ X[14] = flag /\ X[1] = (IF ctrl.main THEN 77 ELSE 66)
      /\ X[3] = ctrl.level /\ X[5] = 4 /\ X[7] = 4 /\ X[10] = m - 1 /\ X[11] = n - 1
  <2> DEFINE m1 == m - 1
             n1 == n - 1
             profile == IF ctrl.main THEN 77 ELSE 66
             level == ctrl.level
  <2>1. X = <<profile, 0, level, 0, 4, 0, 4, 1, 0, m1, n1, 1, 1, flag>>
    BY Zenon DEF SpsValues, m, n
  <2> HIDE DEF m1, n1, profile, level, X
  <2>2. /\ Len(X) = 14 /\ X[14] = flag /\ X[1] = profile
        /\ X[3] = level /\ X[5] = 4 /\ X[7] = 4 /\ X[10] = m1 /\ X[11] = n1
    BY <2>1
  <2> QED
    BY <2>2 DEF m1, n1, profile, level
<1> HIDE DEF X
<1> HIDE DEF a
<1>9. IsCode(f, 1, flag) /\ IsCode(o, 1, 0)
  <2>1. 0 \in Bit
    BY DEF Bit
  <2> QED
    BY <1>0, <2>1, CodeOf, Zenon
<1>10. f \in Seq(Bit) /\ o \in Seq(Bit)
  BY <1>9, CodeBits
<1> HIDE DEF f, o
<1>11. af \in Seq(Bit)
  BY <1>7, <1>10, JoinOf
<1>12. /\ e \in Seq(Bit)
       /\ \A z \in Seq(Bit), val \in Seq(Int) : Ahead(z, 1, e) =>
            Read(ReaderAt(z, 1 + Len(af), val), CropSyntax) = ReaderAt(z, 1 + Len(e), val \o Y)
  <2> HIDE DEF af
  <2> QED
    BY <1>2, <1>3, <1>11, CropCodes, ZenonT(60)
<1> DEFINE last == IF crops THEN e ELSE af
<1>13. all = last \o o /\ last \in Seq(Bit)
  <2>1. CASE ~ crops
    BY <1>4, <1>5, <1>11, <2>1
  <2>2. CASE crops
    <3> DEFINE u == Ue(0)
               v == Ue(r)
               y == Ue(b)
               f1 == f \o u
               f2 == f1 \o v
               f3 == f2 \o u
               f4 == f3 \o y
    <3>1. u \in Seq(Bit) /\ v \in Seq(Bit) /\ y \in Seq(Bit)
      <4>1. 0 \in 0 .. 255
        OBVIOUS
      <4> QED
        BY <4>1, <1>2, <1>3, UeOf
    <3> HIDE DEF u, v, y
    <3>2. f1 \in Seq(Bit) /\ a \o f1 = af \o u
      <4>1. f1 \in Seq(Bit)
        BY <3>1, <1>10, JoinOf
      <4> HIDE DEF af
      <4>2. a \in Seq(Bit) /\ f \in Seq(Bit) /\ u \in Seq(Bit)
        BY <3>1, <1>7, <1>10
      <4>3. a \o (f \o u) = (a \o f) \o u
        BY <4>2, JoinAssoc, SMTT(60)
      <4> QED
        BY <4>1, <4>3 DEF af
    <3> HIDE DEF f1
    <3>3. f2 \in Seq(Bit) /\ a \o f2 = (a \o f1) \o v
      <4>1. a \in Seq(Bit) /\ f1 \in Seq(Bit) /\ v \in Seq(Bit)
        BY <3>1, <3>2, <1>7
      <4>2. f2 \in Seq(Bit)
        BY <4>1, JoinOf
      <4>3. a \o (f1 \o v) = (a \o f1) \o v
        BY <4>1, JoinAssoc, SMTT(60)
      <4> QED
        BY <4>2, <4>3
    <3> HIDE DEF f2
    <3>4. f3 \in Seq(Bit) /\ a \o f3 = (a \o f2) \o u
      <4>1. a \in Seq(Bit) /\ f2 \in Seq(Bit) /\ u \in Seq(Bit)
        BY <3>1, <3>3, <1>7
      <4>2. f3 \in Seq(Bit)
        BY <4>1, JoinOf
      <4>3. a \o (f2 \o u) = (a \o f2) \o u
        BY <4>1, JoinAssoc, SMTT(60)
      <4> QED
        BY <4>2, <4>3
    <3> HIDE DEF f3
    <3>5. f4 \in Seq(Bit) /\ a \o f4 = (a \o f3) \o y
      <4>1. a \in Seq(Bit) /\ f3 \in Seq(Bit) /\ y \in Seq(Bit)
        BY <3>1, <3>4, <1>7
      <4>2. f4 \in Seq(Bit)
        BY <4>1, JoinOf
      <4>3. a \o (f3 \o y) = (a \o f3) \o y
        BY <4>1, JoinAssoc
      <4> QED
        BY <4>2, <4>3
    <3>6. a \o f4 = e
      BY <3>2, <3>3, <3>4, <3>5, Zenon DEF u, v, y
    <3>7. Crop(ctrl) = f4
      BY <1>5, <2>2 DEF f1, f2, f3, u, v, y
    <3> QED
      BY <2>2, <3>6, <3>7, <1>4, <1>12, Zenon
  <2> QED
    BY <2>1, <2>2
<1>14. /\ bits \in Seq(Bit) /\ Ahead(bits, 1, all)
       /\ \A val : AtEnd(ReaderAt(bits, 1 + Len(all), val))
  BY EndsAt
<1>15. Reader(SpsUnit) = ReaderAt(bits, 1, <<>>)
  OBVIOUS
<1> HIDE DEF all, bits, e
<1>16. Ahead(bits, 1, last) /\ Ahead(bits, 1 + Len(last), o)
  <2> HIDE DEF last
  <2>1. Ahead(bits, 1, last \o o)
    BY <1>13, <1>14
  <2> QED
    BY <2>1, <1>10, <1>13, <1>14, AheadSplits
<1>17. Ahead(bits, 1, af)
  <2>1. CASE ~ crops
    BY <1>16, <2>1
  <2>2. CASE crops
    <3> DEFINE a1 == af \o Ue(0)
               a2 == a1 \o Ue(r)
               a3 == a2 \o Ue(0)
    <3>1. Ue(0) \in Seq(Bit) /\ Ue(r) \in Seq(Bit) /\ Ue(b) \in Seq(Bit)
      <4>1. 0 \in 0 .. 255
        OBVIOUS
      <4> QED
        BY <4>1, <1>2, <1>3, UeOf
    <3>2. a1 \in Seq(Bit)
      BY <3>1, <1>11, JoinOf
    <3> HIDE DEF a1
    <3>3. a2 \in Seq(Bit)
      BY <3>1, <3>2, JoinOf
    <3> HIDE DEF a2
    <3>4. a3 \in Seq(Bit)
      BY <3>1, <3>3, JoinOf
    <3> HIDE DEF a3
    <3>5. Ahead(bits, 1, a3 \o Ue(b))
      BY <1>16, <2>2 DEF e, a1, a2, a3
    <3>6. Ahead(bits, 1, a3)
      BY <3>1, <3>4, <3>5, <1>14, AheadSplits
    <3>7. Ahead(bits, 1, a2)
      <4>1. Ahead(bits, 1, a2 \o Ue(0))
        BY <3>6 DEF a3
      <4> QED
        BY <4>1, <3>1, <3>3, <1>14, AheadSplits
    <3>8. Ahead(bits, 1, a1)
      <4>1. Ahead(bits, 1, a1 \o Ue(r))
        BY <3>7 DEF a2
      <4> QED
        BY <4>1, <3>1, <3>2, <1>14, AheadSplits
    <3>9. Ahead(bits, 1, af \o Ue(0))
      BY <3>8 DEF a1
    <3> HIDE DEF af
    <3> QED
      BY <3>1, <3>9, <1>11, <1>14, AheadSplits, SMTT(60)
  <2> QED
    BY <2>1, <2>2
<1>18. fixed = ReaderAt(bits, 1 + Len(af), X)
  BY <1>7, <1>14, <1>15, <1>17
<1> HIDE DEF fixed, af
<1>19. crop = ReaderAt(bits, 1 + Len(last), X \o Y)
  <2>0. fixed.val = X
    BY <1>18 DEF ReaderAt
  <2>1. CASE crops
    <3>1. fixed.val[14] = 1
      BY <2>0, <2>1, <1>6, <1>8
    <3>2. Read(fixed, CropSyntax) = ReaderAt(bits, 1 + Len(e), X \o Y)
      <4>1. last = e
        BY <2>1
      <4> HIDE DEF X, Y, last
      <4> QED
        BY <4>1, <1>7, <1>12, <1>14, <1>16, <1>18
    <3> QED
      BY <2>1, <3>1, <3>2
  <2>2. CASE ~ crops
    <3>1. fixed.val[14] # 1
      BY <2>0, <2>2, <1>6, <1>8
    <3>2. Y = <<0, 0, 0, 0>>
      BY <2>2, <1>6
    <3> DEFINE p == 1 + Len(af)
               Z == X \o Y
    <3>3. fixed = [bits |-> bits, pos |-> p, val |-> X]
      BY <1>18 DEF ReaderAt
    <3>4. [fixed EXCEPT !.val = @ \o <<0, 0, 0, 0>>] = [bits |-> bits, pos |-> p, val |-> Z]
      <4>1. [fixed EXCEPT !.val = @ \o <<0, 0, 0, 0>>] = [fixed EXCEPT !.val = Z]
        BY <2>0, <3>2
      <4> HIDE DEF p, Z, X
      <4> QED
        BY <4>1, <3>3
    <3> QED
      BY <2>2, <3>1, <3>4 DEF ReaderAt
  <2> QED
    BY <2>1, <2>2
<1> HIDE DEF crop
<1> DEFINE V == Append(X \o Y, 0)
<1>20. SpsRead = ReaderAt(bits, 1 + Len(all), V)
  <2>1. SpsRead = ReadU(crop, 1)
    BY DEF SpsRead, crop, fixed
  <2>2. ReadU(crop, 1) = ReadOne(crop, 1)
    BY DEF ReadOne, ue, se
  <2> DEFINE p == 1 + Len(last)
             Z == X \o Y
  <2>3. p \in Nat /\ p >= 1 /\ p + Len(o) = 1 + Len(all)
    <3> HIDE DEF last
    <3>1. Len(last \o o) = Len(last) + Len(o) /\ Len(last) \in Nat /\ Len(o) \in Nat
      BY <1>10, <1>13, JoinOf
    <3> QED
      BY <3>1, <1>13
  <2> HIDE DEF p, Z, last
  <2>4. Ahead(bits, p, o)
    BY <1>16 DEF p
  <2>5. ReadOne(ReaderAt(bits, p, Z), 1) = ReaderAt(bits, p + Len(o), Append(Z, 0))
    BY <2>3, <2>4, <1>9, <1>14, TakesCode
  <2> QED
    BY <2>1, <2>2, <2>3, <2>5, <1>19 DEF p, Z
<1>21. SpsRead.val = V /\ AtEnd(SpsRead)
  BY <1>14, <1>20 DEF ReaderAt
<1>22. /\ V[1] = X[1] /\ V[3] = X[3] /\ V[5] = X[5] /\ V[7] = X[7]
       /\ V[10] = X[10] /\ V[11] = X[11]
       /\ V[15] = 0 /\ V[16] = r /\ V[17] = 0 /\ V[18] = b
  <2>1. r \in Int /\ b \in Int
    BY <1>2, <1>3
  <2>2. Y \in Seq(Int) /\ Len(Y) = 4 /\ Y[1] = 0 /\ Y[2] = r /\ Y[3] = 0 /\ Y[4] = b
    BY <2>1
  <2> HIDE DEF Y
  <2> DEFINE Z == X \o Y
  <2>3. /\ Z \in Seq(Int) /\ Len(Z) = 18
        /\ \A i \in 1 .. 14 : Z[i] = X[i]
        /\ Z[15] = Y[1] /\ Z[16] = Y[2] /\ Z[17] = Y[3] /\ Z[18] = Y[4]
    <3>1. /\ Z \in Seq(Int) /\ Len(Z) = Len(X) + Len(Y)
          /\ \A i \in 1 .. Len(X) : Z[i] = X[i]
          /\ \A i \in 1 .. Len(Y) : Z[Len(X) + i] = Y[i]
      <4>1. X \in Seq(Int) /\ Y \in Seq(Int)
        BY <2>2, <1>7
      <4> HIDE DEF V
      <4> QED
        BY <4>1, JoinOf
    <3>2. Len(X) = 14 /\ Len(Y) = 4
      BY <1>8, <2>2
    <3> HIDE DEF Z
    <3>3. \A i \in 1 .. 4 : Z[14 + i] = Y[i]
      BY <3>1, <3>2
    <3>4. Z[14 + 1] = Y[1] /\ Z[14 + 2] = Y[2] /\ Z[14 + 3] = Y[3] /\ Z[14 + 4] = Y[4]
      BY <3>3
    <3> QED
      BY <3>1, <3>2, <3>4
  <2> HIDE DEF Z
  <2>4. \A i \in 1 .. 18 : V[i] = Z[i]
    <3>1. V = Append(Z, 0)
      BY DEF Z
    <3>2. Z \in Seq(Int) /\ Len(Z) = 18
      BY <2>3
    <3> HIDE DEF V
    <3>3. \A i \in 1 .. Len(Z) : Append(Z, 0)[i] = Z[i]
      <4>1. 0 \in Int
        OBVIOUS
      <4> QED
        BY <3>2, <4>1, AppendKeeps
    <3> QED
      BY <3>1, <3>2, <3>3
  <2> HIDE DEF V
  <2>5. /\ V[1] = Z[1] /\ V[3] = Z[3] /\ V[5] = Z[5] /\ V[7] = Z[7]
        /\ V[10] = Z[10] /\ V[11] = Z[11]
        /\ V[15] = Z[15] /\ V[16] = Z[16] /\ V[17] = Z[17] /\ V[18] = Z[18]
    BY <2>4
  <2>6. /\ Z[1] = X[1] /\ Z[3] = X[3] /\ Z[5] = X[5] /\ Z[7] = X[7]
        /\ Z[10] = X[10] /\ Z[11] = X[11]
    BY <2>3
  <2> QED
    BY <2>2, <2>3, <2>5, <2>6, Zenon
<1> HIDE DEF V, X
<1>23. 2 ^ (4 + 4) = 256
  BY SMT
<1>24. /\ 16 * (V[10] + 1) - 2 * (V[15] + V[16]) = w
       /\ 16 * (V[11] + 1) - 2 * (V[17] + V[18]) = h
  BY <1>2, <1>3, <1>8, <1>22, Zenon
<1>25. V[1] = (IF ctrl.main THEN 77 ELSE 66) /\ V[3] = ctrl.level /\ V[5] = 4 /\ V[7] = 4
  BY <1>8, <1>22, Zenon
<1> QED
  BY <1>21, <1>23, <1>24, <1>25, Zenon DEF w, h

(* The codes of the PPS and their values. *)
LEMMA PpsCodes ==
  ASSUME NEW c \in ControlTypes
  PROVE  LET cabac == IF c.cabac THEN 1 ELSE 0 IN
         /\ Pps(c) \in Seq(Bit)
         /\ \A bits \in Seq(Bit) :
              Ahead(bits, 1, Pps(c)) =>
                Read(ReaderAt(bits, 1, <<>>), PpsSyntax) =
                  ReaderAt(bits, 1 + Len(Pps(c)),
                    <<0, 0, cabac, 0, 0, 0, 0, 0, 0, c.qp - 26, 0, 0, 1, 0, 0>>)
<1> DEFINE cabac == IF c.cabac THEN 1 ELSE 0
           qp == c.qp - 26
           c1 == Ue(0)
           c3 == U(cabac, 1)
           c4 == U(0, 1)
           c9 == U(0, 2)
           c10 == Se(qp)
           c11 == Se(0)
           c13 == U(1, 1)
           a0 == <<>>
           a2 == c1 \o c1
           a3 == a2 \o c3
           a4 == a3 \o c4
           a5 == a4 \o c1
           a6 == a5 \o c1
           a7 == a6 \o c1
           a8 == a7 \o c4
           a9 == a8 \o c9
           a10 == a9 \o c10
           a11 == a10 \o c11
           a12 == a11 \o c11
           a13 == a12 \o c13
           a14 == a13 \o c4
           a15 == a14 \o c4
           A == <<a0, c1, a2, a3, a4, a5, a6, a7, a8, a9, a10, a11, a12, a13, a14, a15>>
           C == <<c1, c1, c3, c4, c1, c1, c1, c4, c9, c10, c11, c11, c13, c4, c4>>
           X == <<0, 0, cabac, 0, 0, 0, 0, 0, 0, qp, 0, 0, 1, 0, 0>>
           S == PpsSyntax
           all == Pps(c)
<1>1. all = a15
  BY DEF Pps
<1>2. cabac \in Bit /\ qp \in -26 .. 25
  BY DEF ControlTypes, QpTypes, Bit
<1> HIDE DEF cabac, qp
<1>3. /\ IsCode(c1, ue, 0) /\ IsCode(c3, 1, cabac) /\ IsCode(c4, 1, 0) /\ IsCode(c9, 2, 0)
      /\ IsCode(c10, se, qp) /\ IsCode(c11, se, 0) /\ IsCode(c13, 1, 1)
  <2>1. 0 \in 0 .. 255 /\ 0 \in -26 .. 25 /\ 0 \in Bit /\ 1 \in Bit
    BY DEF Bit
  <2> QED
    BY <1>2, <2>1, CodeOf, Zenon
<1>4. X \in Seq(Int) /\ Len(X) = 15 /\ Len(S) = 15
  <2>1. 0 \in Int /\ 1 \in Int /\ cabac \in Int /\ qp \in Int
    BY <1>2 DEF Bit
  <2> QED
    BY <2>1 DEF PpsSyntax
<1>5. c1 \in Seq(Bit)
  BY <1>3, CodeBits
<1> HIDE DEF all, c1, c3, c4, c9, c10, c11, c13
<1>6. a0 \o c1 = c1
  BY <1>5, SMTT(60)
<1>7. /\ A[2] = A[1] \o C[1] /\ A[3] = A[2] \o C[2] /\ A[4] = A[3] \o C[3]
      /\ A[5] = A[4] \o C[4] /\ A[6] = A[5] \o C[5] /\ A[7] = A[6] \o C[6]
      /\ A[8] = A[7] \o C[7] /\ A[9] = A[8] \o C[8] /\ A[10] = A[9] \o C[9]
      /\ A[11] = A[10] \o C[10] /\ A[12] = A[11] \o C[11] /\ A[13] = A[12] \o C[12]
      /\ A[14] = A[13] \o C[13] /\ A[15] = A[14] \o C[14] /\ A[16] = A[15] \o C[15]
      /\ A[1] = a0 /\ A[16] = a15
  <2> DEFINE d1 == a0 \o c1
  <2>1. A = <<a0, d1, a2, a3, a4, a5, a6, a7, a8, a9, a10, a11, a12, a13, a14, a15>> /\ c1 = d1
    BY <1>6
  <2> QED
    BY <1>6
<1>8. /\ C[1] = c1 /\ C[2] = c1 /\ C[3] = c3 /\ C[4] = c4 /\ C[5] = c1 /\ C[6] = c1
      /\ C[7] = c1 /\ C[8] = c4 /\ C[9] = c9 /\ C[10] = c10 /\ C[11] = c11
      /\ C[12] = c11 /\ C[13] = c13 /\ C[14] = c4 /\ C[15] = c4
  OBVIOUS
<1>9. /\ X[1] = 0 /\ X[2] = 0 /\ X[3] = cabac /\ X[4] = 0 /\ X[5] = 0 /\ X[6] = 0
      /\ X[7] = 0 /\ X[8] = 0 /\ X[9] = 0 /\ X[10] = qp /\ X[11] = 0
      /\ X[12] = 0 /\ X[13] = 1 /\ X[14] = 0 /\ X[15] = 0
  OBVIOUS
<1>10. /\ S[1] = ue /\ S[2] = ue /\ S[3] = 1 /\ S[4] = 1 /\ S[5] = ue /\ S[6] = ue
       /\ S[7] = ue /\ S[8] = 1 /\ S[9] = 2 /\ S[10] = se /\ S[11] = se
       /\ S[12] = se /\ S[13] = 1 /\ S[14] = 1 /\ S[15] = 1
  BY DEF PpsSyntax
<1> DEFINE s1 == A[1]
           s16 == A[16]
<1>11. s1 = <<>> /\ s16 = all
  BY <1>1, <1>7, Zenon
<1> HIDE DEF A, C, X, S, s1, s16
<1>12. Coded(A, C, S, X)
  <2> DEFINE Fits(i, j) == IsCode(C[i], S[i], X[i]) /\ A[j] = A[i] \o C[i]
  <2>1. /\ Fits(1, 2) /\ Fits(2, 3) /\ Fits(3, 4) /\ Fits(4, 5) /\ Fits(5, 6) /\ Fits(6, 7)
        /\ Fits(7, 8) /\ Fits(8, 9) /\ Fits(9, 10) /\ Fits(10, 11) /\ Fits(11, 12)
        /\ Fits(12, 13) /\ Fits(13, 14) /\ Fits(14, 15) /\ Fits(15, 16)
    BY <1>3, <1>7, <1>8, <1>9, <1>10, Zenon
  <2> HIDE DEF Fits
  <2>2. \A i \in 1 .. 15 : Fits(i, i + 1)
    BY <2>1
  <2> QED
    BY <1>4, <2>2 DEF Coded, Fits
<1>13. s1 \in Seq(Bit) /\ Len(s1) = 0 /\ 1 + Len(s1) = 1
  BY <1>11
<1> DEFINE n == Len(S)
           none == <<>>
<1>14. n \in Nat /\ n + 1 \in 1 .. n + 1 /\ A[n + 1] = all
  <2>1. n = 15 /\ A[15 + 1] = A[16]
    BY <1>4
  <2> QED
    BY <2>1, <1>11 DEF s16
<1>15. none \in Seq(Int) /\ none \o X = X /\ Len(X) = n /\ X \in Seq(Int)
  BY <1>4
<1> HIDE DEF n, none
<1>16. all \in Seq(Bit)
  <2>1. Len(S) \in Nat
    BY <1>14 DEF n
  <2>2. \A i \in 1 .. Len(S) + 1 : A[i] \in Seq(Bit)
    BY <2>1, <1>12, <1>13, CodedBits DEF s1
  <2> QED
    BY <2>2, <1>14 DEF n
<1>17. ASSUME NEW bits \in Seq(Bit), Ahead(bits, 1, all)
       PROVE  Read(ReaderAt(bits, 1, <<>>), S) = ReaderAt(bits, 1 + Len(all), X)
  <2>1. /\ Len(S) \in Nat /\ X \in Seq(Int) /\ Len(X) = Len(S) /\ none \in Seq(Int)
        /\ A[1] \in Seq(Bit) /\ Ahead(bits, 1, A[Len(S) + 1])
    BY <1>13, <1>14, <1>15, <1>17 DEF n, s1
  <2>2. Read(ReaderAt(bits, 1 + Len(A[1]), none), S) =
          ReaderAt(bits, 1 + Len(A[Len(S) + 1]), none \o X)
    BY <2>1, <1>12, ReadsSyntax
  <2>3. 1 + Len(A[1]) = 1
    BY <1>13 DEF s1
  <2> QED
    BY <2>2, <2>3, <1>14, <1>15 DEF n, none
<1> QED
  BY <1>16, <1>17, Zenon DEF S, X, cabac, qp, all

(* The whole PPS. *)
LEMMA PpsReadsBack ==
  ASSUME ctrl \in ControlTypes,
         Reader(PpsUnit) = ReaderAt(Pps(ctrl) \o Trailing(Pps(ctrl)), 1, <<>>)
  PROVE  LET p == PpsRead.val IN
         /\ AtEnd(PpsRead)
         /\ p[3] = (IF ctrl.cabac THEN 1 ELSE 0)
         /\ 26 + p[10] = ctrl.qp
         /\ p[13] = 1
<1> DEFINE cabac == IF ctrl.cabac THEN 1 ELSE 0
           qp == ctrl.qp - 26
           all == Pps(ctrl)
           bits == all \o Trailing(all)
           X == <<0, 0, cabac, 0, 0, 0, 0, 0, 0, qp, 0, 0, 1, 0, 0>>
<1>1. /\ all \in Seq(Bit)
      /\ \A z \in Seq(Bit) : Ahead(z, 1, all) =>
           Read(ReaderAt(z, 1, <<>>), PpsSyntax) = ReaderAt(z, 1 + Len(all), X)
  BY PpsCodes, Zenon
<1>2. 26 + qp = ctrl.qp
  <2> DEFINE y == ctrl.qp
  <2>1. y \in 0 .. 51
    BY DEF ControlTypes, QpTypes
  <2> HIDE DEF y
  <2>2. 26 + (y - 26) = y
    BY <2>1
  <2> QED
    BY <2>2, Zenon DEF y
<1>3. Reader(PpsUnit) = ReaderAt(bits, 1, <<>>)
  OBVIOUS
<1> HIDE DEF cabac, qp, all
<1>4. /\ bits \in Seq(Bit) /\ Ahead(bits, 1, all)
      /\ \A val : AtEnd(ReaderAt(bits, 1 + Len(all), val))
  BY <1>1, EndsAt
<1>5. X[3] = cabac /\ X[10] = qp /\ X[13] = 1
  OBVIOUS
<1> HIDE DEF bits, X
<1>6. PpsRead = ReaderAt(bits, 1 + Len(all), X)
  BY <1>1, <1>3, <1>4 DEF PpsRead
<1>7. PpsRead.val = X /\ AtEnd(PpsRead)
  BY <1>4, <1>6 DEF ReaderAt
<1> QED
  BY <1>2, <1>5, <1>7 DEF cabac

LEMMA SpsBits ==
  ASSUME NEW c \in ControlTypes, CodedSize(c)
  PROVE  Sps(c) \in Seq(Bit)
<1> DEFINE right == (16 * MbW(c) - c.width) \div 2
           bottom == (16 * MbH(c) - c.height) \div 2
           f == U(1, 1)
           o == U(0, 1)
           u == Ue(0)
           v == Ue(right)
           w == Ue(bottom)
           a == SpsStart(c)
           k == Crop(c)
<1>1. k = f \o u \o v \o u \o w \/ k = o
  BY DEF Crop
<1>2. Sps(c) = a \o k \o o
  BY Zenon DEF Sps, SpsStart
<1>3. right \in 0 .. 255 /\ bottom \in 0 .. 255
  BY Macroblocks, SMTT(60)
<1> HIDE DEF right, bottom, k
<1>4. /\ u \in Seq(Bit) /\ v \in Seq(Bit) /\ w \in Seq(Bit)
      /\ f \in Seq(Bit) /\ o \in Seq(Bit)
  <2>1. 0 \in 0 .. 255 /\ 0 \in Bit /\ 1 \in Bit
    BY DEF Bit
  <2>2. IsCode(f, 1, 1) /\ IsCode(o, 1, 0)
    BY <2>1, CodeOf, Zenon
  <2> HIDE DEF f, o
  <2> QED
    BY <1>3, <2>1, <2>2, CodeBits, UeOf
<1>5. a \in Seq(Bit)
  <2>1. 0 \in Bit
    BY DEF Bit
  <2> QED
    BY <2>1, SpsCodes
<1> HIDE DEF a, f, o, u, v, w
<1>6. k \in Seq(Bit)
  <2>1. f \o u \in Seq(Bit)
    BY <1>4, JoinOf
  <2>2. f \o u \o v \in Seq(Bit)
    BY <1>4, <2>1, JoinOf
  <2>3. f \o u \o v \o u \in Seq(Bit)
    BY <1>4, <2>2, JoinOf
  <2>4. f \o u \o v \o u \o w \in Seq(Bit)
    BY <1>4, <2>3, JoinOf
  <2> QED
    BY <1>1, <1>4, <2>4
<1>7. a \o k \in Seq(Bit)
  BY <1>5, <1>6, JoinOf
<1>8. a \o k \o o \in Seq(Bit)
  BY <1>4, <1>7, JoinOf
<1> QED
  BY <1>2, <1>8

-------------------------------------------------------------------------------
LEMMA AppendLast ==
  ASSUME NEW s \in Seq(Int), NEW x \in Int
  PROVE  Append(s, x)[Len(s) + 1] = x
OBVIOUS

(* Where the start code stands in a sequence of bytes. *)
LEMMA StartsWhere ==
  ASSUME NEW s \in Seq(Nat), NEW i \in 1 .. Len(s) - 3
  PROVE  SubSeq(s, i, i + 3) = StartCode <=>
           s[i] = 0 /\ s[i + 1] = 0 /\ s[i + 2] = 0 /\ s[i + 3] = 1
<1> DEFINE e == 4
           part == SubSeq(s, i, i + e - 1)
<1>1. i \in Nat /\ i >= 1 /\ e \in Nat /\ i + e - 1 <= Len(s) /\ i + e - 1 = i + 3
  OBVIOUS
<1> HIDE DEF e
<1>2. /\ part \in Seq(Nat) /\ Len(part) = e /\ \A k \in 1 .. e : part[k] = s[i + k - 1]
  <2>2. /\ SubSeq(s, i, i + e - 1) \in Seq(Nat) /\ Len(SubSeq(s, i, i + e - 1)) = e
        /\ \A k \in 1 .. e : SubSeq(s, i, i + e - 1)[k] = s[i + k - 1]
    BY <1>1, PartOf
  <2> HIDE DEF part
  <2> QED
    BY <2>2 DEF part
<1>3. part = SubSeq(s, i, i + 3)
  BY <1>1
<1> HIDE DEF part
<1>4. /\ part[1] = s[i] /\ part[2] = s[i + 1]
      /\ part[3] = s[i + 2] /\ part[4] = s[i + 3]
  <2>1. /\ part[1] = s[i + 1 - 1] /\ part[2] = s[i + 2 - 1]
        /\ part[3] = s[i + 3 - 1] /\ part[4] = s[i + 4 - 1]
    <3>1. 1 \in 1 .. e /\ 2 \in 1 .. e /\ 3 \in 1 .. e /\ 4 \in 1 .. e
      BY DEF e
    <3> QED
      BY <1>2, <3>1, Zenon
  <2>2. i + 1 - 1 = i /\ i + 2 - 1 = i + 1 /\ i + 3 - 1 = i + 2 /\ i + 4 - 1 = i + 3
    OBVIOUS
  <2> QED
    BY <2>1, <2>2
<1>5. part = StartCode <=> part[1] = 0 /\ part[2] = 0 /\ part[3] = 0 /\ part[4] = 1
  <2> DEFINE c == StartCode
  <2>1. /\ c \in Seq(Nat) /\ Len(c) = 4 /\ c[1] = 0 /\ c[2] = 0 /\ c[3] = 0 /\ c[4] = 1
    BY DEF StartCode
  <2> HIDE DEF c
  <2>2. part \in Seq(Nat) /\ Len(part) = 4
    BY <1>2 DEF e
  <2>3. ASSUME part[1] = 0, part[2] = 0, part[3] = 0, part[4] = 1 PROVE part = c
    <3>1. \A k \in 1 .. 4 : part[k] = c[k]
      BY <2>1, <2>3
    <3> QED
      BY <2>1, <2>2, <3>1, SameSeq
  <2> QED
    BY <2>1, <2>3 DEF c
<1> QED
  BY <1>3, <1>4, <1>5

(* The start of a sequence. *)
LEMMA FirstPart ==
  ASSUME NEW s \in Seq(Nat), NEW u \in Seq(Nat), Len(u) <= Len(s),
         \A i \in 1 .. Len(u) : s[i] = u[i]
  PROVE  SubSeq(s, 1, Len(u)) = u
<1> DEFINE l == Len(u)
           part == SubSeq(s, 1, l)
<1>1. l \in Nat /\ l <= Len(s)
  OBVIOUS
<1> HIDE DEF l
<1>2. part \in Seq(Nat) /\ Len(part) = l /\ \A i \in 1 .. l : part[i] = s[i]
  BY <1>1
<1> HIDE DEF part
<1>3. \A i \in 1 .. l : part[i] = u[i]
  BY <1>2 DEF l
<1>4. part = u
  BY <1>2, <1>3, SameSeq DEF l
<1> QED
  BY <1>4 DEF part, l

(* The end of a sequence. *)
LEMMA LastPart ==
  ASSUME NEW s \in Seq(Nat), NEW v \in Seq(Nat), NEW l \in Nat, Len(s) = l + Len(v),
         \A i \in 1 .. Len(v) : s[l + i] = v[i]
  PROVE  SubSeq(s, l + 1, Len(s)) = v
<1> DEFINE m == Len(v)
           n == Len(s)
           part == SubSeq(s, l + 1, n)
<1>1. m \in Nat /\ n \in Nat /\ n = l + m
  OBVIOUS
<1> HIDE DEF m, n
<1>2. part \in Seq(Nat)
  <2>1. \A i \in l + 1 .. n : s[i] \in Nat
    BY <1>1 DEF n
  <2> QED
    BY <1>1, <2>1
<1>3. Len(part) = m
  BY <1>1
<1>4. \A i \in 1 .. m : part[i] = s[l + i]
  BY <1>1
<1> HIDE DEF part
<1>5. \A i \in 1 .. m : part[i] = v[i]
  BY <1>4 DEF m
<1>6. part = v
  BY <1>2, <1>3, <1>5, SameSeq DEF m
<1> QED
  BY <1>6 DEF part, n

LEMMA PrefixIs ==
  ASSUME NEW header \in Nat
  PROVE  LET p == Prefix(header) IN
         p[1] = 0 /\ p[2] = 0 /\ p[3] = 0 /\ p[4] = 1 /\ p[5] = header
<1> DEFINE s == StartCode
           p == Append(s, header)
<1>1. s \in Seq(Int) /\ Len(s) = 4 /\ s[1] = 0 /\ s[2] = 0 /\ s[3] = 0 /\ s[4] = 1
  BY DEF StartCode
<1> HIDE DEF s
<1>2. header \in Int
  OBVIOUS
<1>3. \A i \in 1 .. Len(s) : p[i] = s[i]
  BY <1>1, <1>2, AppendKeeps
<1>4. p[Len(s) + 1] = header
  BY <1>1, <1>2, AppendLast
<1>5. Prefix(header) = p
  BY DEF Prefix, s
<1> HIDE DEF p
<1>6. p[1] = s[1] /\ p[2] = s[2] /\ p[3] = s[3] /\ p[4] = s[4] /\ p[5] = header
  BY <1>1, <1>3, <1>4
<1> QED
  BY <1>1, <1>5, <1>6

(* A unit in sps_pps_nal that holds these bits. *)
IsUnit(u, header, bits) ==
  /\ u \in Seq(Nat) /\ Len(u) >= 6 /\ Clean(u)
  /\ Unescape(Payload(u)) = Pack(bits) /\ u[Len(u)] # 0
  /\ \A i \in 1 .. 5 : u[i] = Prefix(header)[i]

(* A unit is written whole where there is room for it. *)
LEMMA WritesUnit ==
  ASSUME NEW bits \in Seq(Bit), NEW n \in Nat, n <= 240, Short(bits, n),
         NEW size \in Nat, 20 + n < 4 * (size - 2), NEW header \in Nat
  PROVE  IsUnit(WriteNal(size, header, Pack(bits)), header, bits)
<1> DEFINE r == Pack(bits)
           u == WriteNal(size, header, r)
           L == Len(r)
<1>1. Len(bits) <= 240
  BY DEF Short
<1>2. r \in Seq(Nat) /\ Len(r) > 0 /\ r[Len(r)] # 0
  BY <1>1, PackBack
<1>3. PICK k \in Nat : Short(r, k) /\ 8 * k <= n + 8
  BY ShortPack
<1>4. L \in Nat /\ L <= k
  BY <1>2, <1>3 DEF Short
<1> HIDE DEF L
<1>5. 5 + 2 * L < size
  BY <1>3, <1>4
<1>6. /\ u \in Seq(Nat) /\ Len(u) >= 6 /\ Len(u) <= 5 + 2 * Len(r)
      /\ Clean(u) /\ Unescape(Payload(u)) = r /\ u[Len(u)] = r[Len(r)]
      /\ \A i \in 1 .. 5 : u[i] = Prefix(header)[i]
  <2> HIDE DEF r
  <2>1. 5 + 2 * Len(r) < size
    BY <1>5 DEF L
  <2> QED
    BY <1>2, <2>1, WholeUnit
<1> HIDE DEF u
<1> QED
  BY <1>2, <1>6 DEF IsUnit, u

(* No three zeros follow the first byte of a unit. *)
LEMMA NoThreeZeros ==
  ASSUME NEW u, NEW header \in Nat \ {0}, NEW bits, IsUnit(u, header, bits),
         NEW i \in 2 .. Len(u) - 2, u[i] = 0, u[i + 1] = 0, u[i + 2] = 0
  PROVE  FALSE
<1>1. u \in Seq(Nat) /\ Clean(u) /\ u[4] = 1 /\ u[5] = header
  <2>1. Prefix(header)[4] = 1 /\ Prefix(header)[5] = header
    BY PrefixIs
  <2>2. 4 \in 1 .. 5 /\ 5 \in 1 .. 5
    OBVIOUS
  <2> QED
    BY <2>1, <2>2 DEF IsUnit
<1> DEFINE n == Len(u)
<1>2. n \in Nat
  BY <1>1
<1> HIDE DEF n
<1>3. CASE i >= 6
  <2> DEFINE j == i + 2
  <2>1. j \in 8 .. n /\ j - 2 = i /\ j - 1 = i + 1
    BY <1>2, <1>3 DEF n
  <2>2. \A k \in 8 .. n : u[k - 2] = 0 /\ u[k - 1] = 0 => u[k] >= 3
    BY <1>1 DEF Clean, n
  <2>3. u[j] >= 3
    BY <2>1, <2>2
  <2> QED
    BY <2>3
<1>4. CASE i < 6
  <2>1. i = 2 \/ i = 3 \/ i = 4 \/ i = 5
    BY <1>4
  <2> QED
    BY <2>1, <1>1
<1> QED
  BY <1>3, <1>4

LEMMA UnitStart ==
  ASSUME NEW u, NEW header \in Nat, NEW bits, IsUnit(u, header, bits)
  PROVE  u[1] = 0 /\ u[2] = 0 /\ u[3] = 0 /\ u[4] = 1
<1>1. /\ Prefix(header)[1] = 0 /\ Prefix(header)[2] = 0 /\ Prefix(header)[3] = 0
      /\ Prefix(header)[4] = 1
  BY PrefixIs
<1>2. 1 \in 1 .. 5 /\ 2 \in 1 .. 5 /\ 3 \in 1 .. 5 /\ 4 \in 1 .. 5
  OBVIOUS
<1> QED
  BY <1>1, <1>2 DEF IsUnit

(* The second unit is where the second start code is, and nowhere else. *)
LEMMA SecondStart ==
  ASSUME NEW u, NEW v, NEW h \in Nat \ {0}, NEW g \in Nat \ {0}, NEW a, NEW b,
         IsUnit(u, h, a), IsUnit(v, g, b), nals = u \o v
  PROVE  SpsUnit = u /\ PpsUnit = v
<1> DEFINE l == Len(u)
           m == Len(v)
           n == Len(nals)
           Starts(i) == SubSeq(nals, i, i + 3) = StartCode
<1>1. /\ l \in Nat /\ l >= 6 /\ m \in Nat /\ m >= 6 /\ u \in Seq(Nat) /\ v \in Seq(Nat)
  <2>1. u \in Seq(Nat) /\ Len(u) >= 6
    BY DEF IsUnit
  <2>2. v \in Seq(Nat) /\ Len(v) >= 6
    BY DEF IsUnit
  <2> QED
    BY <2>1, <2>2
<1>2. /\ nals \in Seq(Nat) /\ n = l + m
      /\ \A i \in 1 .. l : nals[i] = u[i]
      /\ \A i \in 1 .. m : nals[l + i] = v[i]
  BY <1>1, JoinOf
<1> HIDE DEF l, m, n, Starts
<1>3. ASSUME NEW i \in 1 .. n - 3
      PROVE  Starts(i) <=> nals[i] = 0 /\ nals[i + 1] = 0 /\ nals[i + 2] = 0 /\ nals[i + 3] = 1
  BY <1>2, StartsWhere DEF Starts, n
<1>4. l + 1 \in 2 .. n - 3 /\ Starts(l + 1)
  <2>1. l + 1 \in 2 .. n - 3 /\ l + 1 \in 1 .. n - 3
    BY <1>1, <1>2
  <2>2. v[1] = 0 /\ v[2] = 0 /\ v[3] = 0 /\ v[4] = 1
    BY UnitStart
  <2>3. /\ nals[l + 1] = v[1] /\ nals[l + 2] = v[2] /\ nals[l + 3] = v[3]
        /\ nals[l + 4] = v[4]
    <3>1. 1 \in 1 .. m /\ 2 \in 1 .. m /\ 3 \in 1 .. m /\ 4 \in 1 .. m
      BY <1>1
    <3> QED
      BY <3>1, <1>2
  <2>4. (l + 1) + 1 = l + 2 /\ (l + 1) + 2 = l + 3 /\ (l + 1) + 3 = l + 4
    BY <1>1
  <2> QED
    BY <2>1, <2>2, <2>3, <2>4, <1>3
<1>5. ASSUME NEW i \in 2 .. n - 3, Starts(i) PROVE i = l + 1
  <2>1. nals[i] = 0 /\ nals[i + 1] = 0 /\ nals[i + 2] = 0
    <3>1. i \in 1 .. n - 3
      BY <1>2
    <3> QED
      BY <3>1, <1>3, <1>5
  <2>2. ~ (i + 2 <= l)
    <3> SUFFICES ASSUME i + 2 <= l PROVE FALSE
      OBVIOUS
    <3>1. /\ i \in 2 .. l - 2 /\ i \in 1 .. l /\ i + 1 \in 1 .. l /\ i + 2 \in 1 .. l
      BY <1>1
    <3>2. u[i] = 0 /\ u[i + 1] = 0 /\ u[i + 2] = 0
      <4>1. nals[i] = u[i] /\ nals[i + 1] = u[i + 1] /\ nals[i + 2] = u[i + 2]
        BY <3>1, <1>2, Zenon
      <4> QED
        BY <2>1, <4>1, Zenon
    <3> QED
      BY <3>1, <3>2, NoThreeZeros DEF l
  <2>3. ~ (i <= l /\ l < i + 2)
    <3> SUFFICES ASSUME i <= l, l < i + 2 PROVE FALSE
      OBVIOUS
    <3>1. (l = i \/ l = i + 1) /\ l \in 1 .. l
      BY <1>1
    <3>2. nals[l] = 0
      BY <3>1, <2>1
    <3>3. u[l] # 0
      BY DEF IsUnit, l
    <3> QED
      BY <3>1, <3>2, <3>3, <1>2
  <2>4. ~ (i > l + 1)
    <3> SUFFICES ASSUME i > l + 1 PROVE FALSE
      OBVIOUS
    <3> DEFINE j == i - l
    <3>1. /\ j \in 2 .. m - 2 /\ j \in 1 .. m /\ j + 1 \in 1 .. m /\ j + 2 \in 1 .. m
          /\ i = l + j /\ i + 1 = l + (j + 1) /\ i + 2 = l + (j + 2)
      BY <1>1, <1>2
    <3> HIDE DEF j
    <3>2. nals[l + j] = 0 /\ nals[l + (j + 1)] = 0 /\ nals[l + (j + 2)] = 0
      <4> DEFINE a1 == i + 1
                 a2 == i + 2
      <4>1. nals[a1] = 0 /\ nals[a2] = 0 /\ a1 = l + (j + 1) /\ a2 = l + (j + 2)
        BY <2>1, <3>1
      <4> HIDE DEF a1, a2
      <4> QED
        BY <2>1, <3>1, <4>1, Zenon
    <3>3. /\ nals[l + j] = v[j] /\ nals[l + (j + 1)] = v[j + 1]
          /\ nals[l + (j + 2)] = v[j + 2]
      BY <3>1, <1>2, Zenon
    <3>4. v[j] = 0 /\ v[j + 1] = 0 /\ v[j + 2] = 0
      BY <3>2, <3>3, Zenon
    <3> QED
      BY <3>1, <3>4, NoThreeZeros DEF m
  <2> QED
    BY <2>2, <2>3, <2>4, <1>1, <1>2
<1>6. PpsStart = l + 1
  <2>1. PpsStart = CHOOSE i \in 2 .. n - 3 : Starts(i)
    BY DEF PpsStart, Starts, n
  <2> QED
    BY <2>1, <1>4, <1>5
<1>7. SpsUnit = u
  <2>1. SubSeq(nals, 1, l) = u
    BY <1>1, <1>2, FirstPart DEF l, n
  <2>2. (l + 1) - 1 = l
    BY <1>1
  <2> QED
    BY <2>1, <2>2, <1>6 DEF SpsUnit
<1>8. PpsUnit = v
  <2>1. l + m = n /\ nals \in Seq(Nat) /\ v \in Seq(Nat)
    BY <1>1, <1>2
  <2>2. SubSeq(nals, l + 1, n) = v
    BY <1>1, <1>2, <2>1, LastPart, SMTT(60) DEF m, n
  <2> QED
    BY <2>2, <1>6 DEF PpsUnit, n
<1> QED
  BY <1>7, <1>8

-------------------------------------------------------------------------------
(* What sps_pps_nal holds: nothing, the SPS, and the SPS and the PPS. *)
UnitsInv ==
  /\ step # "fmt" => EvenSize(ctrl)
  /\ step = "pps" => IsUnit(nals, SpsHeader, Sps(ctrl))
  /\ step = "done" => \E u, v : /\ IsUnit(u, SpsHeader, Sps(ctrl))
                                /\ IsUnit(v, PpsHeader, Pps(ctrl))
                                /\ nals = u \o v

(* The reader of a unit starts at the bits the unit was made of. *)
LEMMA UnitReader ==
  ASSUME NEW u, NEW h, NEW bits \in Seq(Bit), Len(bits) <= 240, IsUnit(u, h, bits)
  PROVE  Reader(u) = ReaderAt(bits \o Trailing(bits), 1, <<>>)
<1> DEFINE r == Pack(bits)
           b == bits \o Trailing(bits)
<1>1. Bits(r) = b
  BY PackBack
<1>2. Unescape(Payload(u)) = r
  BY DEF IsUnit
<1> HIDE DEF r, b
<1>3. Reader(u) = [bits |-> b, pos |-> 1, val |-> <<>>]
  BY <1>1, <1>2, Zenon DEF Reader
<1> QED
  BY <1>3, Zenon DEF ReaderAt, b

(* Rounded up to two is even. *)
LEMMA EvenAlign ==
  ASSUME NEW x \in Int
  PROVE  Align(x, 2) % 2 = 0
<1> DEFINE q == (x + 1) \div 2
<1>1. Align(x, 2) = q * 2
  <2>1. x + 2 - 1 = x + 1
    OBVIOUS
  <2> QED
    BY <2>1 DEF Align
<1>2. q \in Int
  BY SMT
<1> HIDE DEF q
<1>3. (q * 2) % 2 = 0
  BY <1>2, SMT
<1> QED
  BY <1>1, <1>3

LEMMA EvenCoded ==
  ASSUME NEW w \in Nat, NEW h \in Nat
  PROVE  CodedWidth(w) % 2 = 0 /\ CodedHeight(h) % 2 = 0
<1> DEFINE a == Clamp(w, 176, 4096)
           b == Clamp(h, 144, 2560)
<1>1. a \in Int /\ b \in Int
  BY SMT DEF Clamp
<1>2. CodedWidth(w) = Align(a, 2) /\ CodedHeight(h) = Align(b, 2)
  BY SMT DEF CodedWidth, CodedHeight, MinWidth, MaxWidth, MinHeight, MaxHeight
<1> HIDE DEF a, b
<1> QED
  BY <1>1, <1>2, EvenAlign

LEMMA UnitsInit == ParamInit => UnitsInv
BY DEF ParamInit, UnitsInv

(* The coded size is even. *)
LEMMA SFmtCapUnits == HeaderInv /\ UnitsInv /\ SFmtCap => UnitsInv'
<1> SUFFICES ASSUME HeaderInv, UnitsInv, SFmtCap PROVE UnitsInv'
  OBVIOUS
<1> DEFINE cw == CodedWidth(ctrl.width)
           ch == CodedHeight(ctrl.height)
<1>1. ctrl \in ControlTypes
  BY DEF HeaderInv
<1>2. ctrl.width \in Nat /\ ctrl.height \in Nat
  BY <1>1 DEF ControlTypes
<1>3. cw \in Nat /\ ch \in Nat /\ cw % 2 = 0 /\ ch % 2 = 0
  BY <1>2, CodedSizes, EvenCoded
<1>4. ctrl' = [ctrl EXCEPT !.width = cw, !.height = ch]
  BY DEF SFmtCap
<1> HIDE DEF cw, ch
<1>5. ctrl'.width = cw /\ ctrl'.height = ch
  BY <1>1, <1>3, <1>4, Resized DEF ControlTypes
<1>6. EvenSize(ctrl')
  BY <1>3, <1>5, Zenon DEF EvenSize
<1>7. step' = "sps"
  BY DEF SFmtCap
<1> QED
  BY <1>6, <1>7 DEF UnitsInv

(* The SPS is the first unit, *)
LEMMA PutSpsUnits == HeaderInv /\ UnitsInv /\ PutSps => UnitsInv'
<1> SUFFICES ASSUME HeaderInv, UnitsInv, PutSps PROVE UnitsInv'
  OBVIOUS
<1> DEFINE bits == Sps(ctrl)
           size == NalBufSize
           n == 152
           header == SpsHeader
           u == WriteNal(size, header, Pack(bits))
<1>1. /\ CodedSize(ctrl) /\ ctrl \in ControlTypes /\ nals = <<>> /\ EvenSize(ctrl)
      /\ Put(header, bits) /\ step' = "pps" /\ ctrl' = ctrl
  BY DEF HeaderInv, UnitsInv, PutSps
<1>2. bits \in Seq(Bit)
  BY <1>1, SpsBits
<1>3. Short(bits, n)
  BY <1>1, ShortSps
<1>4. n \in Nat /\ n <= 240 /\ size \in Nat /\ 20 + n < 4 * (size - 2) /\ header \in Nat
  BY DEF NalBufSize, SpsHeader
<1>5. size - 0 = size
  BY <1>4
<1> HIDE DEF bits, size, n, header
<1>6. IsUnit(u, header, bits)
  BY <1>2, <1>3, <1>4, WritesUnit
<1>7. nals' = u
  <2>1. Len(nals) = 0
    BY <1>1
  <2>2. nals' = nals \o u
    BY <1>1, <1>5, <2>1, Zenon DEF Put, size
  <2>3. u \in Seq(Nat)
    BY <1>6, Zenon DEF IsUnit
  <2> HIDE DEF u
  <2> QED
    BY <1>1, <2>2, <2>3
<1> HIDE DEF u
<1>8. IsUnit(nals', SpsHeader, Sps(ctrl')) /\ EvenSize(ctrl')
  BY <1>1, <1>6, <1>7, Zenon DEF header, bits
<1> QED
  BY <1>1, <1>8 DEF UnitsInv

(* and the PPS the second one. *)
LEMMA PutPpsUnits == HeaderInv /\ UnitsInv /\ PutPps => UnitsInv'
<1> SUFFICES ASSUME HeaderInv, UnitsInv, PutPps PROVE UnitsInv'
  OBVIOUS
<1> DEFINE bits == Pps(ctrl)
           size == NalBufSize - Len(nals)
           n == 32
           header == PpsHeader
           v == WriteNal(size, header, Pack(bits))
<1>1. /\ ctrl \in ControlTypes /\ Short(nals, 45) /\ EvenSize(ctrl)
      /\ IsUnit(nals, SpsHeader, Sps(ctrl))
      /\ Put(header, bits) /\ step' = "done" /\ ctrl' = ctrl
  BY DEF HeaderInv, UnitsInv, PutPps
<1>2. bits \in Seq(Bit)
  BY <1>1, PpsCodes
<1>3. Short(bits, n)
  <2>1. ctrl.qp \in 0 .. 51
    BY <1>1 DEF ControlTypes, QpTypes
  <2> QED
    BY <2>1, ShortPps
<1>4. size \in Nat /\ size >= 19
  <2>1. Len(nals) \in Nat /\ Len(nals) <= 45
    BY <1>1 DEF Short
  <2> QED
    BY <2>1 DEF NalBufSize
<1>5. nals' = nals \o v
  BY <1>1, Zenon DEF Put
<1> HIDE DEF size
<1>6. n \in Nat /\ n <= 240 /\ 20 + n < 4 * (size - 2) /\ header \in Nat
  BY <1>4 DEF PpsHeader
<1> HIDE DEF bits, n, header
<1>7. IsUnit(v, header, bits)
  BY <1>2, <1>3, <1>4, <1>6, WritesUnit
<1> HIDE DEF v
<1>8. \E a, b : /\ IsUnit(a, SpsHeader, Sps(ctrl')) /\ IsUnit(b, PpsHeader, Pps(ctrl'))
                /\ nals' = a \o b
  <2>1. IsUnit(nals, SpsHeader, Sps(ctrl')) /\ IsUnit(v, PpsHeader, Pps(ctrl'))
    BY <1>1, <1>7, Zenon DEF header, bits
  <2> QED
    BY <1>5, <2>1, Zenon
<1> QED
  BY <1>1, <1>8, Zenon DEF UnitsInv

(* The invariant of the units. *)
LEMMA UnitsInvariance == ParamSpec => [](HeaderInv /\ UnitsInv)
<1>1. HeaderInv /\ UnitsInv /\ Program => UnitsInv'
  BY DEF UnitsInv, Program
<1>2. UnitsInv /\ UNCHANGED paramVars => UnitsInv'
  BY DEF UnitsInv, paramVars
<1>3. HeaderInv /\ UnitsInv /\ [ParamNext]_paramVars => UnitsInv'
  BY <1>1, <1>2, SFmtCapUnits, PutSpsUnits, PutPpsUnits DEF ParamNext
<1> QED
  BY <1>3, UnitsInit, HeaderInvariance, PTL DEF ParamSpec

(* What rkvenc_h264_gen_sps_pps() puts in front of an IDR frame tells a decoder
   what the core is programmed for, whatever the format and the controls: the
   reader of H.264 finds in the first unit the size of the frame and the
   counters, in the second the controls, and rbsp_trailing_bits after both. *)
THEOREM DescribesTheorem == ParamSpec => []DescribesStream
<1>1. ASSUME HeaderInv, UnitsInv, step = "done" PROVE DescribesStream
  <2>1. PICK u, v : /\ IsUnit(u, SpsHeader, Sps(ctrl)) /\ IsUnit(v, PpsHeader, Pps(ctrl))
                    /\ nals = u \o v
    BY <1>1 DEF UnitsInv
  <2>2. CodedSize(ctrl) /\ ctrl \in ControlTypes /\ EvenSize(ctrl)
    BY <1>1 DEF HeaderInv, UnitsInv
  <2>3. SpsUnit = u /\ PpsUnit = v
    <3> DEFINE h == SpsHeader
               g == PpsHeader
    <3>1. h \in Nat \ {0} /\ g \in Nat \ {0}
      BY DEF SpsHeader, PpsHeader
    <3> HIDE DEF h, g
    <3>2. IsUnit(u, h, Sps(ctrl)) /\ IsUnit(v, g, Pps(ctrl))
      BY <2>1, Zenon DEF h, g
    <3> QED
      BY <2>1, <3>1, <3>2, SecondStart
  <2>4. Sps(ctrl) \in Seq(Bit) /\ Pps(ctrl) \in Seq(Bit)
    BY <2>2, SpsBits, PpsCodes
  <2>5. Len(Sps(ctrl)) <= 240 /\ Len(Pps(ctrl)) <= 240
    <3>1. ctrl.qp \in 0 .. 51
      BY <2>2 DEF ControlTypes, QpTypes
    <3>2. Short(Sps(ctrl), 152) /\ Short(Pps(ctrl), 32)
      BY <2>2, <3>1, ShortSps, ShortPps
    <3> QED
      BY <3>2 DEF Short
  <2>6. Reader(SpsUnit) = ReaderAt(Sps(ctrl) \o Trailing(Sps(ctrl)), 1, <<>>)
    BY <2>1, <2>3, <2>4, <2>5, UnitReader, Zenon
  <2>7. Reader(PpsUnit) = ReaderAt(Pps(ctrl) \o Trailing(Pps(ctrl)), 1, <<>>)
    BY <2>1, <2>3, <2>4, <2>5, UnitReader, Zenon
  <2>8. SpsDescribesFrame
    BY <2>2, <2>4, <2>6, SpsReadsBack DEF SpsDescribesFrame
  <2>9. PpsDescribesControls
    BY <2>2, <2>7, PpsReadsBack DEF PpsDescribesControls
  <2> QED
    BY <2>8, <2>9 DEF DescribesStream
<1>2. ASSUME step # "done" PROVE DescribesStream
  BY <1>2 DEF DescribesStream, SpsDescribesFrame, PpsDescribesControls
<1>3. HeaderInv /\ UnitsInv => DescribesStream
  BY <1>1, <1>2
<1> QED
  BY <1>3, UnitsInvariance, PTL
===============================================================================
