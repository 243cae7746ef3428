----------------------------- MODULE FlatReader -----------------------------
(***************************************************************************)
(* The accessors of FlatBuffers: what the reader of a finished buffer gets *)
(* from its bytes (table.h, vector.h, string.h, buffer.h, struct.h).  A    *)
(* memory m holds m.n bytes at the addresses 0..m.n - 1, kept as the       *)
(* builder wrote them, the byte of the highest address first; a pointer is *)
(* an address, and address 0, where the offset of the root lies, stands    *)
(* for the null pointer.                                                   *)
(***************************************************************************)
EXTENDS Integers, Sequences

CONSTANTS Schema,       \* virtual-table offset of a field -> type of the field
          StructSize,   \* sizeof() of the struct a "struct" field holds
          StructAlign   \* and its alignment

Null == 0

At(m, p) == m.back[m.tail - p]

\* A value no buffer of the model is as long as; every larger value is it.
Huge == 65536

\* EndianScalar(): scalars are little endian.
Scalar(m, p, size) ==
    IF \E i \in 2..(size - 1) : At(m, p + i) # 0 THEN Huge
    ELSE At(m, p) + (IF size = 1 THEN 0 ELSE 256 * At(m, p + 1))

\* A soffset_t: the one scalar that may be negative.
Signed(m, p) ==
    IF At(m, p + 3) < 128 THEN Scalar(m, p, 4)
    ELSE IF At(m, p + 2) = 255 /\ At(m, p + 3) = 255
         THEN At(m, p) + 256 * At(m, p + 1) - Huge
         ELSE -Huge

Width(type) == CASE type = "ubyte" -> 1
                 [] type = "ushort" -> 2
                 [] type = "ulong" -> 8
                 [] type = "struct" -> StructSize
                 [] type = "string64" -> 8
                 [] OTHER -> 4

AlignOf(type) == IF type = "struct" THEN StructAlign ELSE Width(type)

IsScalar(type) == type \in {"ubyte", "ushort", "ulong"}
-----------------------------------------------------------------------------
(* Tables. *)

GetVTable(m, t) == t - Signed(m, t)

\* 0 for a field that is not there, or that is newer than the buffer.
GetOptionalFieldOffset(m, t, field) ==
    LET vtable == GetVTable(m, t)
    IN  IF field < Scalar(m, vtable, 2) THEN Scalar(m, vtable + field, 2) ELSE 0

CheckField(m, t, field) == GetOptionalFieldOffset(m, t, field) # 0

GetAddressOf(m, t, field) ==
    IF CheckField(m, t, field) THEN t + GetOptionalFieldOffset(m, t, field) ELSE Null

GetField(m, t, field, default) ==
    LET p == GetAddressOf(m, t, field)
    IN  IF p = Null THEN default ELSE Scalar(m, p, Width(Schema[field]))

\* The pointer behind the offset stored at address p.
Follow(m, p, size) == p + Scalar(m, p, size)

GetPointer(m, t, field) ==
    LET p == GetAddressOf(m, t, field)
    IN  IF p = Null THEN Null ELSE Follow(m, p, Width(Schema[field]))

\* GetStruct() is GetAddressOf(); Struct::GetField() reads at an offset of it.
StructBytes(m, p) == [i \in 1..StructSize |-> Scalar(m, p + i - 1, 1)]

\* WriteScalar().
Patched(m, p, bytes) ==
    [m EXCEPT !.back = [o \in DOMAIN @ |->
        LET i == m.tail - o - p + 1
        IN  IF i \in DOMAIN bytes THEN bytes[i] ELSE @[o]]]

\* Table::SetField(): in place, or not at all.
SetField(m, t, field, bytes) ==
    IF CheckField(m, t, field) THEN Patched(m, GetAddressOf(m, t, field), bytes) ELSE m
-----------------------------------------------------------------------------
(* Vectors and strings. *)

Size(m, v) == Scalar(m, v, 4)

Data(v) == v + 4

\* begin() to end(): the iterator moves by the stride of the element.
Iterate(m, v, stride) == [i \in 1..Size(m, v) |-> Data(v) + stride * (i - 1)]

Scalars(m, v, size) ==
    [i \in 1..Size(m, v) |-> Scalar(m, Iterate(m, v, size)[i], size)]

\* IndirectHelper of an offset: relative to where the offset itself lies.
Pointers(m, v) == [i \in 1..Size(m, v) |-> Follow(m, Iterate(m, v, 4)[i], 4)]

Structs(m, v) ==
    [i \in 1..Size(m, v) |-> StructBytes(m, Iterate(m, v, StructSize)[i])]

\* What std::bsearch() visits between the elements lo and hi - 1, halving.
LookupByKey(m, v, field, key) ==
    LET element == Pointers(m, v)
        Search[lo \in 0..Size(m, v), hi \in 0..Size(m, v)] ==
            IF lo >= hi THEN Null
            ELSE LET mid == (lo + hi) \div 2
                     there == GetField(m, element[mid + 1], field, 0)
                 IN  IF there = key THEN element[mid + 1]
                     ELSE IF key < there THEN Search[lo, mid] ELSE Search[mid + 1, hi]
    IN  Search[0, Size(m, v)]

\* String::str(), and the byte c_str() relies on after it.
Str(m, s) == Scalars(m, s, 1)

Terminator(m, s) == Scalar(m, Data(s) + Size(m, s), 1)
-----------------------------------------------------------------------------
(* Buffers. *)

GetRoot(m, start) == Follow(m, start, 4)

BufferHasIdentifier(m, start, identifier) ==
    \A i \in 1..4 : At(m, start + 3 + i) = identifier[i]
=============================================================================
