---------------------------- MODULE FlexBuilder ----------------------------
(***************************************************************************)
(* flexbuffers::Builder: values on a stack, their contents in a buffer     *)
(* that grows upwards, vectors and maps built from the top of the stack.   *)
(***************************************************************************)
EXTENDS FlexVerifier, FiniteSets

CONSTANTS ShareKeys, ShareStrings,  \* the flags of the builder
          Names, Texts,             \* the keys and the strings of a program
          Ints, Floats, Bools,      \* its numbers, false as 0, true as 1
          Lengths,                  \* of its arrays
          Widths,                   \* the minimum widths it forces
          MaxPushes,                \* bound: values pushed, vectors and maps begun
          MaxOpen,                  \* bound: vectors and maps open at once
          Reuses                    \* whether it refers to values twice

VARIABLES fx,       \* the members of the builder
          want,     \* for every value on the stack, what it means
          opened,   \* the vectors and maps being built, the innermost last
          kept,     \* a value remembered with LastValue()
          pushes

vars == <<fx, want, opened, kept, pushes>>

Empty == [buf |-> <<>>, stack |-> <<>>, finished |-> FALSE, has_duplicate_keys |-> FALSE,
          force_min_bit_width |-> 0, key_pool |-> {}, string_pool |-> {}]

Most(S) == CHOOSE n \in S : \A k \in S : k <= n

Value(u, type, bits) == [u |-> u, type |-> type, bits |-> bits]

Little(n, width) ==
    [i \in 1..width |-> CASE i = 1 -> n % 256
                          [] i = 2 -> (n \div 256) % 256
                          [] i = 3 -> (n \div 65536) % 256
                          [] OTHER -> IF n < 0 THEN 255 ELSE 0]

WriteBytes(buf, bytes) == buf \o bytes

Padding(n, width) == (-n) % width

Align(buf, bits) == WriteBytes(buf, [i \in 1..Padding(Len(buf), 2 ^ bits) |-> 0])

Write(buf, n, width) == WriteBytes(buf, Little(n, width))

WriteOffset(buf, o, width) == Write(buf, Len(buf) - o, width)

WriteAny(buf, v, width) ==
    IF IsInline(v.type) THEN Write(buf, v.u, width) ELSE WriteOffset(buf, v.u, width)

\* Mutant: the offset is measured from the first element.
ElemWidthOfFirst(v, buf_size, elem_index) ==
    IF IsInline(v.type) THEN v.bits ELSE WidthU(buf_size + Padding(buf_size, 2) - v.u)

\* The width the value needs as element elem_index of what is written next:
\* an offset depends on the elements before it, and on how wide they are.
ElemWidth(v, buf_size, elem_index) ==
    IF IsInline(v.type) THEN v.bits
    ELSE LET Offset(w) == buf_size + Padding(buf_size, 2 ^ w) + elem_index * 2 ^ w - v.u
             fit == {w \in 0..3 : WidthU(Offset(w)) = w}
         IN  CHOOSE w \in fit : \A x \in fit : w <= x

StoredWidth(v, parent) == IF IsInline(v.type) THEN Most({v.bits, parent}) ELSE v.bits

StoredPackedType(v, parent) == PackedType(StoredWidth(v, parent), v.type)

\* CreateVector() of every step-th value from the stack position start on;
\* keys is the vector of the keys of a map, or None.
None == [u |-> -1, type |-> FBT.NULL, bits |-> 0]

Chosen(stack, start, step) ==
    [k \in 1..((Len(stack) - start + step - 1) \div step) |-> stack[start + step * (k - 1) + 1]]

VectorWidth(f, elems, step, keys) ==
    LET size == Len(f.buf)
        prefix == IF keys = None THEN 1 ELSE 3
    IN  Most({f.force_min_bit_width, WidthU(Len(elems))}
             \cup (IF keys = None THEN {} ELSE {ElemWidth(keys, size, 0)})
             \cup {ElemWidth(elems[k], size, step * (k - 1) + prefix) : k \in DOMAIN elems})

VectorBytes(f, elems, bits, typed, fixed, keys) ==
    LET width == 2 ^ bits
        a == Align(f.buf, bits)
        b == IF keys = None THEN a
             ELSE Write(WriteOffset(a, keys.u, width), 2 ^ keys.bits, width)
        c == IF fixed THEN b ELSE Write(b, Len(elems), width)
        d == FoldLeft(LAMBDA x, v : WriteAny(x, v, width), c, elems)
        types == [k \in DOMAIN elems |-> StoredPackedType(elems[k], bits)]
    IN  [at |-> Len(c), buf |-> IF typed THEN d ELSE WriteBytes(d, types)]

CreateVector(f, elems, step, typed, fixed, keys) ==
    LET bits == VectorWidth(f, elems, step, keys)
        written == VectorBytes(f, elems, bits, typed, fixed, keys)
        vector_type == IF elems = <<>> THEN FBT.KEY ELSE elems[1].type
        type == IF keys # None THEN FBT.MAP
                ELSE IF typed THEN ToTypedVector(vector_type, IF fixed THEN Len(elems) ELSE 0)
                ELSE FBT.VECTOR
    IN  [buf |-> written.buf, value |-> Value(written.at, type, bits)]

\* The stack from start on gives way to one value.
Replaced(f, start, buf, value) ==
    [f EXCEPT !.buf = buf, !.stack = Append(SubSeq(@, 1, start), value)]
-----------------------------------------------------------------------------
(* The operations. *)

Init == /\ fx = Empty /\ want = <<>> /\ opened = <<>>
        /\ kept = [value |-> None, means |-> [kind |-> "nothing"]]
        /\ pushes = 0

\* Inside a map keys and values alternate; outside, one root is built.
KeyIsNext == /\ opened # <<>> /\ opened[Len(opened)].map
             /\ (Len(fx.stack) - opened[Len(opened)].start) % 2 = 0

ValueIsNext == ~fx.finished /\ ~KeyIsNext /\ (opened = <<>> => fx.stack = <<>>)

\* The value v, with buf for the buffer, on the stack; it means that.
Pushed(buf, v, means) ==
    /\ pushes < MaxPushes /\ pushes' = pushes + 1
    /\ fx' = [fx EXCEPT !.buf = buf, !.stack = Append(@, v)]
    /\ want' = Append(want, means)
    /\ UNCHANGED <<opened, kept>>

Says(kind, v) == [kind |-> kind, v |-> v]

PushNull == ValueIsNext /\ Pushed(fx.buf, Value(0, FBT.NULL, 0), Says("null", 0))

PushInt == \E i \in Ints :
    ValueIsNext /\ Pushed(fx.buf, Value(i, FBT.INT, WidthI(i)), Says("int", i))

PushUInt == \E u \in Ints :
    ValueIsNext /\ u >= 0 /\ Pushed(fx.buf, Value(u, FBT.UINT, WidthU(u)), Says("uint", u))

PushFloat == \E f \in Floats :
    ValueIsNext /\ Pushed(fx.buf, Value(f, FBT.FLOAT, WidthF(f)), Says("float", f))

PushBool == \E n \in Bools :
    ValueIsNext /\ Pushed(fx.buf, Value(n, FBT.BOOL, 0), Says("bool", n))

\* IndirectInt(), IndirectUInt(), IndirectFloat(): the number in the buffer,
\* its offset on the stack.
PushIndirect(n, type, bits, means) ==
    LET a == Align(fx.buf, bits)
    IN  ValueIsNext /\ Pushed(Write(a, n, 2 ^ bits), Value(Len(a), type, bits), means)

Indirects ==
    \/ \E i \in Ints : PushIndirect(i, FBT.INDIRECT_INT, WidthI(i), Says("int", i))
    \/ \E u \in Ints : u >= 0 /\ PushIndirect(u, FBT.INDIRECT_UINT, WidthU(u), Says("uint", u))
    \/ \E f \in Floats : PushIndirect(f, FBT.INDIRECT_FLOAT, WidthF(f), Says("float", f))

\* The key is written, and taken back if the pool has the same one.
Key ==
    \E name \in Names :
        LET twins == {o \in fx.key_pool : CStr(fx.buf, o) = name}
            new == WriteBytes(fx.buf, Append(name, 0))
        IN  /\ ~fx.finished /\ (KeyIsNext \/ (ValueIsNext /\ opened # <<>>))
            /\ pushes < MaxPushes /\ pushes' = pushes + 1
            /\ IF ShareKeys /\ twins # {}
               THEN fx' = [fx EXCEPT !.stack =
                              Append(@, Value(CHOOSE o \in twins : TRUE, FBT.KEY, 0))]
               ELSE fx' = [fx EXCEPT !.buf = new,
                                     !.stack = Append(@, Value(Len(fx.buf), FBT.KEY, 0)),
                                     !.key_pool = IF ShareKeys THEN @ \cup {Len(fx.buf)} ELSE @]
            /\ want' = Append(want, Says("key", name))
            /\ UNCHANGED <<opened, kept>>

\* Length, contents, trailing zeros: the value lies behind the length.
CreateBlob(data, trailing, type) ==
    LET bits == WidthU(Len(data))
        a == Write(Align(fx.buf, bits), Len(data), 2 ^ bits)
    IN  [buf |-> WriteBytes(a, data \o [i \in 1..trailing |-> 0]),
         value |-> Value(Len(a), type, bits)]

String ==
    \E text \in Texts :
        LET made == CreateBlob(text, 1, FBT.STRING)
            twins == {o \in fx.string_pool :
                        o[2] = Len(text) /\ SubSeq(fx.buf, o[1] + 1, o[1] + o[2]) = text}
            twin == (CHOOSE o \in twins : TRUE)[1]
        IN  /\ ValueIsNext /\ pushes < MaxPushes /\ pushes' = pushes + 1
            /\ IF ShareStrings /\ twins # {}
               THEN fx' = [fx EXCEPT !.stack = Append(@, [made.value EXCEPT !.u = twin])]
               ELSE fx' = [fx EXCEPT
                              !.buf = made.buf, !.stack = Append(@, made.value),
                              !.string_pool = IF ShareStrings
                                              THEN @ \cup {<<made.value.u, Len(text)>>} ELSE @]
            /\ want' = Append(want, Says("string", text))
            /\ UNCHANGED <<opened, kept>>

Blob ==
    \E data \in Texts :
        LET made == CreateBlob(data, 0, FBT.BLOB)
        IN  ValueIsNext /\ Pushed(made.buf, made.value, Says("blob", data))

\* ScalarVector() of n times the same scalar of 2^bits bytes.
ScalarVector ==
    \E i \in Ints, bits \in {1, 3}, n \in Lengths, fixed \in BOOLEAN :
        LET a == Align(fx.buf, bits)
            b == IF fixed THEN a ELSE Write(a, n, 2 ^ bits)
            elems == [k \in 1..n |-> Little(i, 2 ^ bits)]
        IN  /\ ValueIsNext /\ WidthI(i) <= bits /\ (fixed => n \in 2..4)
            /\ Pushed(WriteBytes(b, FlattenSeq(elems)),
                      Value(Len(b), ToTypedVector(FBT.INT, IF fixed THEN n ELSE 0), bits),
                      Says(IF fixed THEN "fixed" ELSE "typed", [k \in 1..n |-> Says("int", i)]))

\* StartVector() and StartMap() return the height of the stack.
Start == \E map \in BOOLEAN :
    /\ ValueIsNext /\ Len(opened) < MaxOpen /\ pushes < MaxPushes
    /\ opened' = Append(opened, [map |-> map, start |-> Len(fx.stack)])
    /\ pushes' = pushes + 1
    /\ UNCHANGED <<fx, want, kept>>

Closing(map) == opened # <<>> /\ opened[Len(opened)].map = map /\ ~fx.finished

Closed(f, start, means) ==
    /\ fx' = f
    /\ want' = Append(SubSeq(want, 1, start), means)
    /\ opened' = SubSeq(opened, 1, Len(opened) - 1)
    /\ UNCHANGED <<kept, pushes>>

EndVector ==
    \E typed, fixed \in BOOLEAN :
        LET start == opened[Len(opened)].start
            elems == Chosen(fx.stack, start, 1)
            types == {elems[k].type : k \in DOMAIN elems}
            made == CreateVector(fx, elems, 1, typed, fixed, None)
            kind == IF fixed THEN "fixed" ELSE IF typed THEN "typed" ELSE "vector"
        IN  /\ Closing(FALSE)
            /\ typed => Cardinality(types) <= 1 /\ \A t \in types : IsTypedVectorElementType(t)
            /\ fixed => /\ typed /\ Len(elems) \in 2..4
                        /\ types \subseteq {FBT.INT, FBT.UINT, FBT.FLOAT}
            /\ Closed(Replaced(fx, start, made.buf, made.value), start,
                      Says(kind, Chosen(want, start, 1)))

\* The pairs sorted by their keys; std::sort() is free to leave equal keys in
\* any order, the model leaves them in the order of the program.
SortedPairs(f, start) ==
    LET Name(k) == CStr(f.buf, f.stack[start + 2 * k - 1].u)
        n == (Len(f.stack) - start) \div 2
        order == SetToSortSeq(1..n, LAMBDA j, k : \/ Before(Name(j), Name(k))
                                                  \/ Name(j) = Name(k) /\ j < k)
    IN  [k \in 1..(2 * n) |->
            f.stack[start + 2 * order[(k + 1) \div 2] - (k % 2)]]

HasTwins(f, start) ==
    \E j, k \in {i \in (start + 1)..Len(f.stack) : (i - start) % 2 = 1} :
        j # k /\ CStr(f.buf, f.stack[j].u) = CStr(f.buf, f.stack[k].u)

EndMap ==
    LET start == opened[Len(opened)].start
        f == [fx EXCEPT !.stack = SubSeq(@, 1, start) \o SortedPairs(fx, start),
                        !.has_duplicate_keys = @ \/ HasTwins(fx, start)]
        keys == CreateVector(f, Chosen(f.stack, start, 2), 2, TRUE, FALSE, None)
        g == [f EXCEPT !.buf = keys.buf]
        made == CreateVector(g, Chosen(f.stack, start + 1, 2), 2, FALSE, FALSE, keys.value)
    IN  /\ Closing(TRUE) /\ KeyIsNext
        /\ Closed(Replaced(g, start, made.buf, made.value), start,
                  Says("map", [k \in 1..((Len(want) - start) \div 2) |->
                                  <<want[start + 2 * k - 1].v, want[start + 2 * k]>>]))

\* LastValue() and ReuseValue(): the same contents referred to twice.
LastValue ==
    /\ Reuses /\ fx.stack # <<>> /\ ~fx.finished
    /\ kept' = [value |-> fx.stack[Len(fx.stack)], means |-> want[Len(want)]]
    /\ kept' # kept /\ kept'.means.kind # "key"
    /\ UNCHANGED <<fx, want, opened, pushes>>

ReuseValue == kept.value # None /\ ValueIsNext /\ Pushed(fx.buf, kept.value, kept.means)

ForceMinimumBitWidth ==
    \E w \in Widths :
        /\ w # fx.force_min_bit_width /\ ~fx.finished
        /\ fx' = [fx EXCEPT !.force_min_bit_width = w]
        /\ UNCHANGED <<want, opened, kept, pushes>>

Finish ==
    /\ ~fx.finished /\ Len(fx.stack) = 1 /\ opened = <<>>
    /\ LET root == fx.stack[1]
           bits == ElemWidth(root, Len(fx.buf), 0)
           data == WriteAny(Align(fx.buf, bits), root, 2 ^ bits)
       IN  fx' = [fx EXCEPT
                     !.buf = WriteBytes(data, <<StoredPackedType(root, 0), 2 ^ bits>>),
                     !.finished = TRUE]
    /\ UNCHANGED <<want, opened, kept, pushes>>

\* Clear() forgets everything but the flags, and has_duplicate_keys_.
Clear == /\ fx.finished
         /\ fx' = [Empty EXCEPT !.has_duplicate_keys = fx.has_duplicate_keys]
         /\ want' = <<>>
         /\ kept' = [value |-> None, means |-> [kind |-> "nothing"]]
         /\ UNCHANGED <<opened, pushes>>

\* MutateInt() or MutateFloat() of the root, or of an element of the root: in
\* place if the new value fits, else refused.
MutateBytes(b, r, n, bits) ==
    LET width == IF IsInline(r.type) THEN r.parent ELSE r.width
        p == IF IsInline(r.type) THEN r.data ELSE Indirect(b, r)
        image == Little(n, width)
    IN  IF 2 ^ bits > width THEN b
        ELSE [k \in DOMAIN b |-> IF k - p \in 1..width THEN image[k - p] ELSE b[k]]

Mutate ==
    \E i \in Ints, k \in 0..MaxPushes :
        LET root == GetRoot(fx.buf)
            r == IF k = 0 THEN root ELSE Element(fx.buf, root, k - 1)
            b == MutateBytes(fx.buf, r, i, IF r.type = FBT.INT THEN WidthI(i) ELSE WidthU(i))
        IN  /\ fx.finished /\ want[1].kind # "map"
            /\ r.type \in {FBT.INT, FBT.UINT} /\ (r.type = FBT.UINT => i >= 0)
            /\ b # fx.buf
            /\ fx' = [fx EXCEPT !.buf = b]
            /\ want' = IF k = 0 THEN [want EXCEPT ![1].v = i]
                       ELSE [want EXCEPT ![1].v[k].v = i]
            /\ UNCHANGED <<opened, kept, pushes>>

Next == \/ PushNull \/ PushInt \/ PushUInt \/ PushFloat \/ PushBool \/ Indirects \/ Key \/ String \/ Blob
        \/ ScalarVector \/ Start \/ EndVector \/ EndMap \/ LastValue \/ ReuseValue
        \/ ForceMinimumBitWidth \/ Finish \/ Clear \/ Mutate

Spec == Init /\ [][Next]_vars
-----------------------------------------------------------------------------
(* Properties. *)

\* What a reader gets from a reference is what the program put there.
RECURSIVE Means(_, _, _)
Means(b, r, w) ==
    CASE w.kind = "null" -> r.type = FBT.NULL /\ AsInt64(b, r) = 0
      [] w.kind \in {"int", "uint"} -> AsInt64(b, r) = w.v /\ AsDouble(b, r) = 2 * w.v
      [] w.kind = "float" -> AsDouble(b, r) = w.v /\ AsInt64(b, r) = Truncated(w.v)
      [] w.kind = "bool" -> AsBool(b, r) = (w.v = 1)
      [] w.kind \in {"key", "string"} -> AsString(b, r) = w.v
      [] w.kind = "blob" -> AsBlob(b, r) = w.v
      [] w.kind \in {"vector", "typed", "fixed"} ->
            /\ SizeOf(b, r) = Len(w.v)
            /\ \A k \in DOMAIN w.v : Means(b, Element(b, r, k - 1), w.v[k])
            /\ Element(b, r, Len(w.v)) = NullReference
      [] w.kind = "map" ->
            /\ SizeOf(b, r) = Len(w.v)
            /\ \A k \in DOMAIN w.v :
                  IF \E j \in DOMAIN w.v : j # k /\ w.v[j][1] = w.v[k][1]
                  THEN fx.has_duplicate_keys
                  ELSE Means(b, Lookup(b, r, w.v[k][1]), w.v[k][2])
            /\ \A name \in Names :
                  (\A k \in DOMAIN w.v : w.v[k][1] # name) => Lookup(b, r, name) = NullReference

FlexReadsBack == fx.finished => Means(fx.buf, GetRoot(fx.buf), want[1])

\* How deep the nesting is, and how many vectors the verifier visits, as it
\* counts them: strings, blobs and the keys of a map are vectors too, the
\* strings of a typed vector are keys, and a fixed vector is no vector.
RECURSIVE Levels(_), Visits(_)
Parts(w) == IF w.kind = "vector" THEN w.v
            ELSE IF w.kind = "map" THEN [k \in DOMAIN w.v |-> w.v[k][2]] ELSE <<>>

Levels(w) == IF w.kind \in {"string", "blob", "vector", "typed", "map"}
             THEN 1 + Most({0} \cup {Levels(Parts(w)[k]) : k \in DOMAIN Parts(w)}) ELSE 0

Visits(w) ==
    CASE w.kind \in {"string", "blob", "typed"} -> 1
      [] w.kind \in {"vector", "map"} ->
            FoldLeft(LAMBDA n, c : n + Visits(c), IF w.kind = "map" THEN 2 ELSE 1, Parts(w))
      [] OTHER -> 0

\* The verifier accepts what the builder built unless it is nested too deep;
\* with a reuse tracker it does so when the depth leaves room for every visit.
FlexVerifierAccepts ==
    fx.finished =>
        LET visits == Visits(want[1])
        IN  /\ VerifyBuffer(fx.buf, FALSE, max_depth)
                 <=> Levels(want[1]) <= max_depth /\ visits <= Len(fx.buf)
            /\ visits <= Len(fx.buf) => VerifyBuffer(fx.buf, TRUE, visits)
=============================================================================
