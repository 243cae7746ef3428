---------------------------- MODULE FlexVerifier ----------------------------
(***************************************************************************)
(* flexbuffers::Verifier.  Its counters and its reuse tracker, the type it *)
(* has already verified at an address or 0, are threaded through as a      *)
(* record v; nothing more is looked at once ok has fallen.                 *)
(***************************************************************************)
EXTENDS FlexReader, SequencesExt

CONSTANT max_depth

Fresh(b, tracking, depth) ==
    [ok |-> TRUE, depth |-> 0, num_vectors |-> 0, max_depth |-> depth,
     tracking |-> tracking, seen |-> [p \in 1..Len(b) |-> 0]]

Check(v, ok) == [v EXCEPT !.ok = @ /\ ok]

VerifyFrom(b, p, len) == len < Len(b) /\ p <= Len(b) - len

VerifyByteWidth(width) == width \in {1, 2, 4, 8}

VerifyOffset(b, off, p) == off <= Len(b) /\ off <= p

WidthB(width) == CHOOSE bits \in 0..3 : 2 ^ bits = width

\* FLEX_CHECK_VERIFIED: verified before as the same type, or marked as it.
Known(v, p, packed) == v.tracking /\ v.seen[p + 1] = packed

Marked(v, p, packed) ==
    IF ~v.tracking THEN v
    ELSE IF v.seen[p + 1] # 0 THEN Check(v, FALSE)
    ELSE [v EXCEPT !.seen[p + 1] = packed]

VerifyKey(b, p, v) ==
    LET packed == PackedType(0, FBT.KEY)
    IN  IF Known(v, p, packed) THEN v
        ELSE Check(Marked(v, p, packed), \E q \in p..(Len(b) - 1) : ByteAt(b, q) # 0)

RECURSIVE VerifyRef(_, _, _)

VerifyAll(b, refs, v) ==
    FoldLeft(LAMBDA w, r : IF w.ok THEN VerifyRef(b, r, w) ELSE w, v, refs)

Entered(b, v) ==
    LET w == [v EXCEPT !.depth = @ + 1, !.num_vectors = @ + 1]
    IN  Check(w, w.depth <= w.max_depth /\ w.num_vectors <= Len(b))

\* Mutant: the depth is never given back.
LeftDeeper(v) == v

Left(v) == IF v.ok THEN [v EXCEPT !.depth = @ - 1] ELSE v

\* The elements of a vector of elem_type at p, its size in front of it.
VerifyElements(b, r, p, elem_type, v) ==
    LET n == ReadSize(b, p, r.width)
        elem_width == IF r.type \in {FBT.STRING, FBT.BLOB} THEN 1 ELSE r.width
        Item(k) == IF elem_type = FBT.NULL
                   THEN Unpacked(p + (k - 1) * elem_width, r.width,
                                 ByteAt(b, p + n * elem_width + k - 1))
                   ELSE Reference(p + (k - 1) * elem_width, elem_width, 1, FBT.KEY)
    IN  IF ~VerifyFrom(b, p, n * elem_width) THEN Check(v, FALSE)
        ELSE IF elem_type = FBT.NULL /\ ~VerifyFrom(b, p + n * elem_width, n)
             THEN Check(v, FALSE)
        ELSE IF elem_type \in {FBT.NULL, FBT.KEY} THEN VerifyAll(b, [k \in 1..n |-> Item(k)], v)
        ELSE v

\* A vector that was verified before is left without giving the depth back.
VerifyVector(b, r, p, elem_type, v) ==
    LET w == Entered(b, v)
        packed == PackedType(WidthB(r.width), r.type)
        x == Marked(w, p - r.width, packed)
    IN  IF ~w.ok \/ p < r.width THEN Check(w, FALSE)
        ELSE IF Known(w, p - r.width, packed) THEN w
        ELSE IF ~x.ok THEN x
        ELSE Left(VerifyElements(b, r, p, elem_type, x))

\* The three fields in front of a map: offset of the keys, their width (of which
\* the cast keeps the lowest byte), size.
VerifyKeys(b, p, width, v) ==
    LET prefix == p - 3 * width
        off == ReadUInt64(b, prefix, width)
        key_width == ByteAt(b, prefix + width)
    IN  IF p < 3 * width THEN Check(v, FALSE)
        ELSE IF ~VerifyOffset(b, off, prefix) \/ ~VerifyByteWidth(key_width) THEN Check(v, FALSE)
        ELSE VerifyVector(b, Reference(prefix, width, key_width, FBT.VECTOR_KEY),
                          prefix - off, FBT.KEY, v)

VerifyTerminator(b, p, width) == VerifyFrom(b, p, ReadSize(b, p, width) + 1)

\* What an offset of type r.type refers to, at p.
VerifyTarget(b, r, p, v) ==
    LET t == r.type
        vector == VerifyVector(b, r, p, IF t \in {FBT.MAP, FBT.VECTOR} THEN FBT.NULL
                                        ELSE IF t \in {FBT.VECTOR_KEY,
                                                       FBT.VECTOR_STRING_DEPRECATED}
                                        THEN FBT.KEY ELSE FBT.UINT, v)
    IN  CASE t \in {FBT.INDIRECT_INT, FBT.INDIRECT_UINT, FBT.INDIRECT_FLOAT} ->
                Check(v, VerifyFrom(b, p, r.width))
          [] t = FBT.KEY -> VerifyKey(b, p, v)
          [] t = FBT.MAP -> IF vector.ok THEN VerifyKeys(b, p, r.width, vector) ELSE vector
          [] t = FBT.STRING ->
                IF vector.ok THEN Check(vector, VerifyTerminator(b, p, r.width)) ELSE vector
          [] t \in {FBT.VECTOR, FBT.BLOB} \/ IsTypedVector(t) -> vector
          [] IsFixedTypedVector(t) -> Check(v, VerifyFrom(b, p, r.width * FixedLength(t)))
          [] OTHER -> Check(v, FALSE)

VerifyRef(b, r, v) ==
    LET off == ReadUInt64(b, r.data, r.parent)
        p == r.data - off
    IN  IF ~VerifyByteWidth(r.width) \/ r.type >= FBT.MAX_TYPE THEN Check(v, FALSE)
        ELSE IF IsInline(r.type) THEN v
        ELSE IF ~VerifyOffset(b, off, r.data) \/ p % r.width # 0 THEN Check(v, FALSE)
        ELSE VerifyTarget(b, r, p, v)

VerifyBuffer(b, tracking, depth) ==
    /\ Len(b) >= 3
    /\ LET width == ByteAt(b, Len(b) - 1)
       IN  /\ VerifyByteWidth(width) /\ Len(b) - 2 >= width
           /\ VerifyRef(b, GetRoot(b), Fresh(b, tracking, depth)).ok
=============================================================================
