----------------------------- MODULE FlexReader -----------------------------
(***************************************************************************)
(* The readers of FlexBuffers (flexbuffers.h): Reference and the objects   *)
(* behind it.  b is a buffer, its byte at address p is b[p + 1].           *)
(* A floating point value is counted in halves, and its image in a buffer  *)
(* is that count: the IEEE format itself is left out.                      *)
(***************************************************************************)
EXTENDS Integers, Sequences

CONSTANT Fine   \* floating point values that single precision cannot hold

FBT == [NULL |-> 0, INT |-> 1, UINT |-> 2, FLOAT |-> 3, KEY |-> 4, STRING |-> 5,
        INDIRECT_INT |-> 6, INDIRECT_UINT |-> 7, INDIRECT_FLOAT |-> 8,
        MAP |-> 9, VECTOR |-> 10, VECTOR_INT |-> 11, VECTOR_KEY |-> 14,
        VECTOR_STRING_DEPRECATED |-> 15, VECTOR_INT2 |-> 16, VECTOR_INT3 |-> 19,
        VECTOR_INT4 |-> 22, VECTOR_FLOAT4 |-> 24, BLOB |-> 25, BOOL |-> 26,
        VECTOR_BOOL |-> 36, MAX_TYPE |-> 37]

IsInline(t) == t <= FBT.FLOAT \/ t = FBT.BOOL

IsTypedVectorElementType(t) == t \in FBT.INT..FBT.STRING \/ t = FBT.BOOL

IsTypedVector(t) ==
    t \in FBT.VECTOR_INT..FBT.VECTOR_STRING_DEPRECATED \/ t = FBT.VECTOR_BOOL

IsFixedTypedVector(t) == t \in FBT.VECTOR_INT2..FBT.VECTOR_FLOAT4

ToTypedVector(t, fixed_len) ==
    t - FBT.INT + (CASE fixed_len = 0 -> FBT.VECTOR_INT
                     [] fixed_len = 2 -> FBT.VECTOR_INT2
                     [] fixed_len = 3 -> FBT.VECTOR_INT3
                     [] fixed_len = 4 -> FBT.VECTOR_INT4)

ToTypedVectorElementType(t) == t - FBT.VECTOR_INT + FBT.INT

FixedElementType(t) == FBT.INT + ((t - FBT.VECTOR_INT2) % 3)

FixedLength(t) == 2 + ((t - FBT.VECTOR_INT2) \div 3)

\* Widths are kept as in the format, as the logarithm of the number of bytes.
\* No number of the model needs more than 32 bits, doubles excepted.
WidthU(u) == IF u < 256 THEN 0 ELSE IF u < 65536 THEN 1 ELSE 2

WidthI(i) == WidthU(IF i >= 0 THEN 2 * i ELSE -2 * i - 1)

WidthF(f) == IF f \in Fine THEN 3 ELSE 2

PackedType(bit_width, type) == bit_width + 4 * type
-----------------------------------------------------------------------------
(* Scalars. *)

ByteAt(b, p) == b[p + 1]

\* Every number that needs more than three bytes.
Huge == 16777216

ReadUInt64(b, p, width) ==
    LET Digit(i) == IF i < width THEN ByteAt(b, p + i) ELSE 0
    IN  IF \E i \in 3..(width - 1) : ByteAt(b, p + i) # 0 THEN Huge
        ELSE Digit(0) + 256 * Digit(1) + 65536 * Digit(2)

ReadInt64(b, p, width) ==
    LET Digit(i) == IF i < width THEN ByteAt(b, p + i) ELSE 255
        low == Digit(0) + 256 * Digit(1) + 65536 * Digit(2)
    IN  IF ByteAt(b, p + width - 1) < 128 THEN ReadUInt64(b, p, width) ELSE low - Huge

ReadDouble(b, p, width) == ReadInt64(b, p, width)

\* A C string: up to the first zero byte.
CStr(b, p) ==
    LET n == CHOOSE k \in 0..(Len(b) - p) :
                /\ k = Len(b) - p \/ ByteAt(b, p + k) = 0
                /\ \A j \in 0..(k - 1) : ByteAt(b, p + j) # 0
    IN  SubSeq(b, p + 1, p + n)

\* strcmp(s, t) < 0.
Before(s, t) ==
    \E k \in 0..Len(s) :
        /\ k <= Len(t) /\ SubSeq(s, 1, k) = SubSeq(t, 1, k)
        /\ k < Len(t)
        /\ k = Len(s) \/ s[k + 1] < t[k + 1]
-----------------------------------------------------------------------------
(* References. *)

Reference(data, parent_width, byte_width, type) ==
    [data |-> data, parent |-> parent_width, width |-> byte_width, type |-> type]

Unpacked(data, parent_width, packed_type) ==
    Reference(data, parent_width, 2 ^ (packed_type % 4), packed_type \div 4)

NullReference == Unpacked(-1, 1, PackedType(0, FBT.NULL))

Indirect(b, r) == r.data - ReadUInt64(b, r.data, r.parent)

\* Sized::read_size(): before the data, as wide as an element.
ReadSize(b, p, width) == ReadUInt64(b, p - width, width)

Truncated(f) == IF f >= 0 THEN f \div 2 ELSE -((-f) \div 2)

\* No string of the model is the text of a number.
AsInt64(b, r) ==
    CASE r.type = FBT.INT -> ReadInt64(b, r.data, r.parent)
      [] r.type = FBT.INDIRECT_INT -> ReadInt64(b, Indirect(b, r), r.width)
      [] r.type = FBT.UINT -> ReadUInt64(b, r.data, r.parent)
      [] r.type = FBT.INDIRECT_UINT -> ReadUInt64(b, Indirect(b, r), r.width)
      [] r.type = FBT.FLOAT -> Truncated(ReadDouble(b, r.data, r.parent))
      [] r.type = FBT.INDIRECT_FLOAT -> Truncated(ReadDouble(b, Indirect(b, r), r.width))
      [] r.type = FBT.VECTOR -> ReadSize(b, Indirect(b, r), r.width)
      [] r.type = FBT.BOOL -> ReadInt64(b, r.data, r.parent)
      [] OTHER -> 0

AsDouble(b, r) ==
    CASE r.type = FBT.FLOAT -> ReadDouble(b, r.data, r.parent)
      [] r.type = FBT.INDIRECT_FLOAT -> ReadDouble(b, Indirect(b, r), r.width)
      [] OTHER -> 2 * AsInt64(b, r)

AsBool(b, r) ==
    (IF r.type = FBT.BOOL THEN ReadUInt64(b, r.data, r.parent) ELSE AsInt64(b, r)) # 0

AsString(b, r) ==
    LET p == Indirect(b, r)
    IN  CASE r.type = FBT.STRING -> SubSeq(b, p + 1, p + ReadSize(b, p, r.width))
          [] r.type = FBT.KEY -> CStr(b, p)
          [] OTHER -> <<>>

AsBlob(b, r) ==
    LET p == Indirect(b, r)
    IN  IF r.type \in {FBT.BLOB, FBT.STRING} THEN SubSeq(b, p + 1, p + ReadSize(b, p, r.width))
        ELSE <<>>

\* The number of elements behind AsVector(), AsTypedVector() or
\* AsFixedTypedVector(), whichever fits the type; what fits none is empty.
SizeOf(b, r) ==
    IF IsFixedTypedVector(r.type) THEN FixedLength(r.type)
    ELSE IF r.type \in {FBT.VECTOR, FBT.MAP} \/ IsTypedVector(r.type)
         THEN ReadSize(b, Indirect(b, r), r.width)
    ELSE 0

\* The strings of a typed vector are read as keys: their width is unknown.
ElementType(type) ==
    LET t == IF IsFixedTypedVector(type) THEN FixedElementType(type)
             ELSE ToTypedVectorElementType(type)
    IN  IF t = FBT.STRING THEN FBT.KEY ELSE t

\* operator[], i from 0; a typed element is a Reference of width 1.
Element(b, r, i) ==
    LET p == Indirect(b, r)
        at == p + i * r.width
    IN  IF i >= SizeOf(b, r) THEN NullReference
        ELSE IF r.type \in {FBT.VECTOR, FBT.MAP}
             THEN Unpacked(at, r.width, ByteAt(b, p + SizeOf(b, r) * r.width + i))
        ELSE Reference(at, r.width, 1, ElementType(r.type))

\* Map::Keys(): where the vector of the keys lies, how wide it is.
KeysOf(b, r) ==
    LET prefix == Indirect(b, r) - 3 * r.width
    IN  [data |-> prefix - ReadUInt64(b, prefix, r.width),
         width |-> ReadUInt64(b, prefix + r.width, r.width)]

KeyAt(b, keys, i) ==
    LET at == keys.data + i * keys.width IN CStr(b, at - ReadUInt64(b, at, keys.width))

\* Map::operator[]: std::bsearch() in the keys, the value of the same index.
Lookup(b, r, key) ==
    LET keys == KeysOf(b, r)
        size == ReadSize(b, keys.data, keys.width)
        Search[lo \in 0..size, hi \in 0..size] ==
            IF lo >= hi THEN NullReference
            ELSE LET mid == (lo + hi) \div 2
                 IN  IF KeyAt(b, keys, mid) = key THEN Element(b, r, mid)
                     ELSE IF Before(key, KeyAt(b, keys, mid)) THEN Search[lo, mid]
                     ELSE Search[mid + 1, hi]
    IN  Search[0, size]

\* The root is the last data item, then its type, then its width.
GetRoot(b) ==
    LET width == ByteAt(b, Len(b) - 1)
    IN  Unpacked(Len(b) - 2 - width, width, ByteAt(b, Len(b) - 2))
=============================================================================
