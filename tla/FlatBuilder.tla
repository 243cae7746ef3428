---------------------------- MODULE FlatBuilder ----------------------------
(***************************************************************************)
(* flatbuffers::FlatBufferBuilder.  back is the buffer of buf_, which      *)
(* grows towards lower addresses: back[o] is the byte data_at(o) points    *)
(* to; scratch is its scratch pad (VectorDownward shows that a             *)
(* vector_downward is such a pair of stacks).  Offsets count from the end  *)
(* of the buffer, or of its 32-bit region.                                 *)
(***************************************************************************)
EXTENDS FlatVerifier, FiniteSets, SequencesExt

CONSTANTS Is64Aware,        \* FlatBufferBuilder64
          ForceDefaults, DedupVtables,
          Chars,            \* the strings a program stores
          Numbers,          \* the values of its scalars
          Identifier,       \* the file identifier
          MaxObjects,       \* bound: objects in a buffer
          MaxFields,        \* bound: fields of a table
          MaxElements,      \* bound: elements of a vector
          Damage            \* the values a damaged byte can have

\* What a program can store: texts are bytes.
ProgramOK ==
    /\ Chars \subseteq Seq(0..255) /\ Identifier \in Seq(0..255) /\ Damage \subseteq 0..255
    /\ Numbers \subseteq Int /\ MaxElements \in Nat

ASSUME ProgramConstants == ProgramOK

VARIABLES fb,       \* the members of the builder
          made,     \* the objects the program has built, in order
          open,     \* the table it is building, or Closed
          sealed    \* how it finished the buffer

vars == <<fb, made, open, sealed>>

Empty == [back |-> <<>>, scratch |-> <<>>, num_field_loc |-> 0, max_voffset |-> 0,
          len64 |-> 0, nested |-> FALSE, finished |-> FALSE, minalign |-> 1, pool |-> {}]

Most(a, b) == IF a > b THEN a ELSE b

\* WriteScalar() of n in that many bytes, two's complement.
Bytes(n, size) ==
    [i \in 1..size |-> CASE i = 1 -> n % 256
                         [] i = 2 -> (n \div 256) % 256
                         [] OTHER -> IF n < 0 THEN 255 ELSE 0]

Push(b, bytes) == [b EXCEPT !.back = @ \o Reverse(bytes)]

Fill(b, n) == Push(b, [i \in 1..n |-> 0])

Pop(b, n) == [b EXCEPT !.back = SubSeq(@, 1, Len(@) - n)]

\* Bytes written at data_at(o).
WriteAt(b, o, bytes) ==
    [b EXCEPT !.back = [i \in DOMAIN @ |->
        IF o - Len(bytes) < i /\ i <= o THEN bytes[o - i + 1] ELSE @[i]]]

\* n bytes read from data_at(o); what lies past the tail is not the buffer's.
ReadAt(b, o, n) == IF o < n THEN <<>> ELSE Reverse(SubSeq(b.back, o - n + 1, o))

GetSize(b) == Len(b.back)

GetSizeRelative32BitRegion(b) == GetSize(b) - b.len64

PaddingBytes(size, scalar) == (-size) % scalar

TrackMinAlign(b, size) == [b EXCEPT !.minalign = Most(@, size)]

Align(b, size) == Fill(TrackMinAlign(b, size), PaddingBytes(GetSize(b), size))

\* Mutant: aligned where the bytes end, not where they will start.
PreAlignHere(b, len, alignment) ==
    IF len = 0 THEN b
    ELSE Fill(TrackMinAlign(b, alignment), PaddingBytes(GetSize(b), alignment))

PreAlign(b, len, alignment) ==
    IF len = 0 THEN b
    ELSE Fill(TrackMinAlign(b, alignment), PaddingBytes(GetSize(b) + len, alignment))

PushElement(b, n, size) == Push(Align(b, size), Bytes(n, size))

\* The offset from where it will be stored, in size bytes, to the object off:
\* 4-byte offsets stay inside the 32-bit region.
ReferTo(b, off, size) ==
    (IF size = 8 THEN GetSize(b) ELSE GetSizeRelative32BitRegion(b)) - off + size

PushOffset(b, off, size) ==
    LET c == Align(b, size) IN PushElement(c, ReferTo(c, off, size), size)

\* CalculateOffset<uoffset64_t>(): the buffer so far is its 64-bit region.
Grow64(b) == [b EXCEPT !.len64 = GetSize(b)]

NotNested(b) == ~b.nested /\ b.num_field_loc = 0
-----------------------------------------------------------------------------
(* Tables. *)

TrackField(b, field) ==
    [b EXCEPT !.scratch = Append(@, [off |-> GetSizeRelative32BitRegion(b), id |-> field]),
              !.num_field_loc = @ + 1,
              !.max_voffset = Most(@, field)]

\* A value equal to the default is not stored.
AddElement(b, field, n) ==
    IF n = 0 /\ ~ForceDefaults THEN b
    ELSE TrackField(PushElement(b, n, Width(Schema[field])), field)

AddOffset(b, field, off) == TrackField(PushOffset(b, off, Width(Schema[field])), field)

AddStruct(b, field, bytes) == TrackField(Push(Align(b, StructAlign), bytes), field)

ClearOffsets(b) ==
    [b EXCEPT !.scratch = SubSeq(@, 1, Len(@) - b.num_field_loc),
              !.num_field_loc = 0, !.max_voffset = 0]

\* The virtual table of a table of n bytes at loc: its size, n, and where each
\* field lies from loc, 0 for the fields that were not added.
VTable(b, n, loc) ==
    LET added == {b.scratch[i] : i \in (Len(b.scratch) - b.num_field_loc + 1)..Len(b.scratch)}
        size == Most(b.max_voffset + 2, 4)
        Slot(field) == IF \E f \in added : f.id = field
                       THEN loc - (CHOOSE f \in added : f.id = field).off ELSE 0
    IN  [i \in 1..size |->
            LET field == 2 * ((i - 1) \div 2)
                word == CASE field = 0 -> size [] field = 2 -> n [] OTHER -> Slot(field)
            IN  Bytes(word, 2)[1 + ((i - 1) % 2)]]

\* Mutant: two virtual tables are the same if their first words are.
TwinsByHeader(b, vtable) ==
    {i \in DOMAIN b.scratch : ReadAt(b, b.scratch[i], 4) = SubSeq(vtable, 1, 4)}

\* The places in the scratch pad of older virtual tables equal to vtable.
Twins(b, vtable) ==
    {i \in DOMAIN b.scratch : ReadAt(b, b.scratch[i], Len(vtable)) = vtable}

\* Mutant: only the last virtual table is compared.
DedupLast(b, vtable, loc) ==
    IF DedupVtables /\ Len(b.scratch) \in Twins(b, vtable) THEN b.scratch[Len(b.scratch)]
    ELSE GetSizeRelative32BitRegion(b)

\* Drop the new virtual table if an old one will do; return the one to use.
Dedup(b, vtable, loc) ==
    LET twins == IF DedupVtables THEN Twins(b, vtable) ELSE {}
    IN  IF twins = {} THEN GetSizeRelative32BitRegion(b)
        ELSE b.scratch[CHOOSE i \in twins : \A j \in twins : i <= j]

FinishTable(b, start) ==
    LET c == PushElement(b, 0, 4)
        loc == GetSizeRelative32BitRegion(c)
        vtable == VTable(c, loc - start, loc)
        d == ClearOffsets(Push(c, vtable))
        vt_use == Dedup(d, vtable, loc)
        e == IF vt_use = GetSizeRelative32BitRegion(d)
             THEN [d EXCEPT !.scratch = Append(@, vt_use)]
             ELSE Pop(d, GetSizeRelative32BitRegion(d) - loc)
    IN  [WriteAt(e, loc + b.len64, Bytes(vt_use - loc, 4)) EXCEPT !.nested = FALSE]

\* The offset EndTable() returns; Required() looks the field up behind it.
TableAt(b) == GetSizeRelative32BitRegion(PushElement(b, 0, 4))
-----------------------------------------------------------------------------
(* Strings and vectors. *)

StoreString(b, chars) ==
    PushElement(Push(Fill(PreAlign(b, Len(chars) + 1, 4), 1), chars), Len(chars), 4)

\* The bytes StringOffsetCompare finds behind the offset off.
StringAt(b, off) ==
    LET size == ReadAt(b, off, 4)
    IN  IF size = <<>> THEN <<>> ELSE ReadAt(b, off - 4, size[1])

StartVector(b, len, elemsize, alignment) ==
    [PreAlign(PreAlign(b, len * elemsize, 4), len * elemsize, alignment)
        EXCEPT !.nested = TRUE]

EndVector(b, len) == [PushElement(b, len, 4) EXCEPT !.nested = FALSE]

StoreVector(b, len, elemsize, bytes) ==
    EndVector(Push(StartVector(b, len, elemsize, elemsize), bytes), len)

PushOffsets(b, offs) ==
    LET after[n \in 0..Len(offs)] ==
            IF n = 0 THEN b ELSE PushOffset(after[n - 1], offs[n], 4)
    IN  after[Len(offs)]

\* CreateVector() of offsets, the last one first.
StoreOffsets(b, offs) ==
    EndVector(PushOffsets(StartVector(b, Len(offs), 4, 4), Reverse(offs)), Len(offs))

\* StartVector() is told the bytes of the structs over their alignment as the
\* number of elements, and the size of a struct as the size of one.
StoreStructs(b, len, bytes) ==
    EndVector(Push(StartVector(b, (len * StructSize) \div StructAlign, StructSize, StructAlign),
                   bytes), len)

\* Space in the buffer first, the elements written into it later.
StoreUninitialized(b, len, bytes) ==
    LET c == Fill(StartVector(b, len, 1, 1), Len(bytes))
    IN  WriteAt(EndVector(c, len), GetSizeRelative32BitRegion(c), bytes)

\* The offset of what was just stored waits in the scratch pad.
Remembered(b) == [b EXCEPT !.scratch = Append(@, GetSizeRelative32BitRegion(b))]

StoreAll(b, strings) ==
    LET after[n \in 0..Len(strings)] ==
            IF n = 0 THEN b ELSE Remembered(StoreString(after[n - 1], strings[n]))
    IN  after[Len(strings)]

\* CreateVectorOfStrings().
StoreStrings(b, strings) ==
    LET n == Len(strings)
        c == StoreAll(b, strings)
        offs == [i \in 1..n |-> c.scratch[Len(c.scratch) - i + 1]]
        e == PushOffsets(StartVector(c, n, 4, 4), offs)
    IN  EndVector([e EXCEPT !.scratch = SubSeq(@, 1, Len(@) - n)], n)

\* The memory the builder has written, GetCurrentBufferPointer() first.
Mem(b) == [n |-> GetSize(b), tail |-> GetSize(b), back |-> b.back]

\* TableKeyComparator reads the key, here the first field, from the buffer.
KeyAt(b, off) == GetField(Mem(b), GetSize(b) - off, 4, 0)

\* std::stable_sort(): each goes behind those before it that are not greater.
Inserted(b, s, off) ==
    LET NotGreater == {i \in 1..Len(s) : KeyAt(b, s[i]) <= KeyAt(b, off)}
    IN  InsertAt(s, Cardinality(NotGreater) + 1, off)

Sorted(b, offs) ==
    LET after[n \in 0..Len(offs)] ==
            IF n = 0 THEN <<>> ELSE Inserted(b, after[n - 1], offs[n])
    IN  after[Len(offs)]

\* Finish(): root last, the whole buffer a multiple of its largest alignment.
Finish(b, root, prefixed, identifier) ==
    LET prefix == IF prefixed THEN (IF Is64Aware THEN 8 ELSE 4) ELSE 0
        c == TrackMinAlign([b EXCEPT !.scratch = <<>>], prefix)
        d == PreAlign(c, prefix + 4 + Len(identifier), c.minalign)
        e == PushOffset(Push(d, identifier), root, 4)
        f == IF prefixed THEN PushElement(e, GetSize(e), prefix) ELSE e
    IN  [f EXCEPT !.finished = TRUE]
-----------------------------------------------------------------------------
(* The program that uses the builder: depth first, the parts of an object  *)
(* before the object, each object referred to by the offset the builder    *)
(* returned for it.                                                        *)

Closed == [set |-> <<>>, start |-> -1]
Unsealed == [root |-> 0, start |-> 0, identifier |-> <<>>]

Init == fb = Empty /\ made = <<>> /\ open = Closed /\ sealed = Unsealed

Building == ~fb.finished /\ NotNested(fb)

\* The builder b, in which the object it just wrote is known as such.
Made(b, kind, v, align) ==
    /\ Len(made) < MaxObjects
    /\ fb' = b
    /\ made' = Append(made, [kind |-> kind, off |-> GetSizeRelative32BitRegion(b),
                             v |-> v, align |-> align, shared |-> FALSE])
    /\ UNCHANGED <<open, sealed>>

CreateString ==
    \E chars \in Chars : Building /\ Made(StoreString(fb, chars), "string", chars, 1)

\* An operation that finds what is in the buffer by data_at() of a 32-bit
\* offset: with a 64-bit region it looks elsewhere.
LooksInside == fb.len64 = 0

CreateSharedString ==
    \E chars \in Chars :
        LET b == StoreString(fb, chars)
            off == GetSizeRelative32BitRegion(b)
            twins == {o \in fb.pool : StringAt(b, o) = StringAt(b, off)}
            c == IF twins = {} THEN [b EXCEPT !.pool = @ \cup {off}]
                 ELSE Pop(b, GetSize(b) - GetSize(fb))
        IN  /\ Building /\ LooksInside /\ Len(made) < MaxObjects
            /\ fb' = c
            /\ made' = Append(made,
                 [kind |-> "string", v |-> chars, align |-> 1, shared |-> TRUE,
                  off |-> IF twins = {} THEN off ELSE CHOOSE o \in twins : TRUE])
            /\ UNCHANGED <<open, sealed>>

\* 64-bit offsets go to the tail of the buffer, before everything else.
CanAddOffset64 == Is64Aware /\ GetSize(fb) = fb.len64

CreateString64 ==
    \E chars \in Chars :
        LET b == Grow64(StoreString(fb, chars))
        IN  /\ Building /\ CanAddOffset64 /\ Len(made) < MaxObjects
            /\ fb' = b
            /\ made' = Append(made, [kind |-> "string64", off |-> b.len64, v |-> chars,
                                     align |-> 1, shared |-> FALSE])
            /\ UNCHANGED <<open, sealed>>

\* ForceVectorAlignment() right before the vector, or not.
CreateBytes ==
    \E bytes \in Chars, align \in {1, 8} :
        LET b == IF align = 1 THEN fb ELSE PreAlign(fb, Len(bytes), align)
        IN  Building /\ Made(StoreVector(b, Len(bytes), 1, bytes), "bytes", bytes, align)

CreateUninitializedVector ==
    \E bytes \in Chars :
        /\ Building /\ LooksInside
        /\ Made(StoreUninitialized(fb, Len(bytes), bytes), "bytes", bytes, 1)

\* Elements of that many bytes, one after the other.
Joined(elements, size) ==
    [i \in 1..(size * Len(elements)) |-> elements[1 + ((i - 1) \div size)][1 + ((i - 1) % size)]]

Lists(S) == UNION {[1..n -> S] : n \in 0..MaxElements}

CreateLongs ==
    \E ns \in Lists(Numbers) :
        LET bytes == Joined([i \in DOMAIN ns |-> Bytes(ns[i], 8)], 8)
        IN  Building /\ Made(StoreVector(fb, Len(ns), 8, bytes), "longs", ns, 8)

StructOf(n) == [i \in 1..StructSize |-> (n + i) % 256]

CreateVectorOfStructs ==
    \E ns \in Lists(Numbers) :
        LET structs == [i \in DOMAIN ns |-> StructOf(ns[i])]
        IN  /\ Building
            /\ Made(StoreStructs(fb, Len(ns), Joined(structs, StructSize)), "structs", structs, StructAlign)

CreateVectorOfStrings ==
    \E strings \in Lists(Chars) :
        LET b == StoreStrings(fb, strings)
        IN  Building /\ Made(b, "strings", strings, 4)

Tables == {i \in DOMAIN made : made[i].kind = "table"}

CreateVectorOfTables ==
    \E ts \in Lists(Tables) :
        LET offs == [i \in DOMAIN ts |-> made[ts[i]].off]
        IN  Building /\ Made(StoreOffsets(fb, offs), "tables", ts, 4)

CreateVectorOfSortedTables ==
    \E ts \in Lists(Tables) :
        LET offs == [i \in DOMAIN ts |-> made[ts[i]].off]
        IN  /\ Building /\ LooksInside
            /\ Made(StoreOffsets(fb, Sorted(fb, offs)), "sorted", ts, 4)

StartTable ==
    /\ Building /\ Len(made) < MaxObjects
    /\ fb' = [fb EXCEPT !.nested = TRUE]
    /\ open' = [set |-> <<>>, start |-> GetSizeRelative32BitRegion(fb)]
    /\ UNCHANGED <<made, sealed>>

\* A field of the open table takes the value n; a field is added only once.
Add(b, field, n) ==
    /\ open # Closed /\ Cardinality(DOMAIN open.set) < MaxFields
    /\ field \notin DOMAIN open.set
    /\ fb' = b
    /\ open' = [open EXCEPT !.set = [f \in DOMAIN @ \cup {field} |->
                                        IF f = field THEN n ELSE @[f]]]
    /\ UNCHANGED <<made, sealed>>

AddScalar ==
    \E field \in DOMAIN Schema, n \in Numbers :
        IsScalar(Schema[field]) /\ Add(AddElement(fb, field, n), field, n)

AddReference ==
    \E field \in DOMAIN Schema, i \in DOMAIN made :
        /\ \/ Schema[field] = made[i].kind
           \/ Schema[field] = "tables" /\ made[i].kind = "sorted"
        /\ Add(AddOffset(fb, field, made[i].off), field, i)

AddInline ==
    \E field \in DOMAIN Schema, n \in Numbers :
        Schema[field] = "struct" /\ Add(AddStruct(fb, field, StructOf(n)), field, StructOf(n))

EndOfTable ==
    /\ open # Closed
    /\ fb' = FinishTable(fb, open.start)
    /\ made' = Append(made, [kind |-> "table", off |-> TableAt(fb), v |-> open.set,
                             align |-> 4, shared |-> FALSE])
    /\ open' = Closed
    /\ UNCHANGED sealed

FinishBuffer ==
    \E root \in Tables, prefixed \in BOOLEAN, identifier \in {<<>>, Identifier} :
        /\ Building
        /\ fb' = Finish(fb, made[root].off, prefixed, identifier)
        /\ sealed' = [root |-> root, identifier |-> identifier,
                      start |-> IF ~prefixed THEN 0 ELSE IF Is64Aware THEN 8 ELSE 4]
        /\ UNCHANGED <<made, open>>

\* The generated mutators: SetField() on the finished buffer.
Mutate ==
    \E i \in Tables, field \in DOMAIN Schema, n \in Numbers :
        /\ fb.finished /\ IsScalar(Schema[field])
        /\ LET m == SetField(Mem(fb), GetSize(fb) - fb.len64 - made[i].off, field,
                             Bytes(n, Width(Schema[field])))
           IN  /\ m # Mem(fb)
               /\ fb' = [fb EXCEPT !.back = m.back]
               /\ made' = [made EXCEPT ![i].v[field] = n]
        /\ UNCHANGED <<open, sealed>>

\* Clear(): the builder is used again for another buffer.
Clear ==
    /\ fb.finished
    /\ fb' = Empty
    /\ made' = <<>> /\ open' = Closed /\ sealed' = Unsealed

Next == \/ CreateString \/ CreateSharedString \/ CreateString64
        \/ CreateBytes \/ CreateUninitializedVector \/ CreateLongs
        \/ CreateVectorOfStructs \/ CreateVectorOfStrings
        \/ CreateVectorOfTables \/ CreateVectorOfSortedTables
        \/ StartTable \/ AddScalar \/ AddReference \/ AddInline \/ EndOfTable
        \/ FinishBuffer \/ Mutate \/ Clear

Spec == Init /\ [][Next]_vars
-----------------------------------------------------------------------------
(* Properties. *)

Pos(o) == GetSize(fb) - o.off - (IF o.kind = "string64" THEN 0 ELSE fb.len64)

\* StartVector() pads for that many "elements" of StructSize bytes; when they and
\* the bytes that follow differ modulo 4, padding goes between the structs and
\* their length: one struct of three bytes, or of two.
StructsFit(len) ==
    (((len * StructSize) \div StructAlign) * StructSize - len * StructSize) % 4 = 0

\* Everything the program stored is what a reader finds, wherever later
\* objects, shared virtual tables, shared strings and mutators put it: the
\* accessors applied to the bytes return the values that went in.  Only a vector
\* of structs that do not fit is found wrong, whatever surrounds it.
ReadsTable(m, t, set) ==
    \A field \in DOMAIN Schema :
        LET type == Schema[field]
            at == GetAddressOf(m, t, field)
            value == IF field \in DOMAIN set THEN set[field] ELSE 0
        IN  CASE IsScalar(type) -> GetField(m, t, field, 0) = value
              [] type = "struct" ->
                    IF field \in DOMAIN set THEN at # Null /\ StructBytes(m, at) = value
                    ELSE at = Null
              [] OTHER -> GetPointer(m, t, field) =
                            (IF field \in DOMAIN set THEN Pos(made[value]) ELSE Null)

Reads(m, o) ==
    LET p == Pos(o)
    IN  CASE o.kind \in {"string", "string64"} -> Str(m, p) = o.v /\ Terminator(m, p) = 0
          [] o.kind = "bytes" -> Scalars(m, p, 1) = o.v
          [] o.kind = "longs" -> Scalars(m, p, 8) = o.v
          [] o.kind = "structs" -> Structs(m, p) = o.v <=> StructsFit(Len(o.v))
          [] o.kind = "strings" ->
                /\ Size(m, p) = Len(o.v)
                /\ \A i \in DOMAIN o.v : Str(m, Pointers(m, p)[i]) = o.v[i]
          [] o.kind = "tables" -> Pointers(m, p) = [i \in DOMAIN o.v |-> Pos(made[o.v[i]])]
          [] o.kind = "sorted" ->
                /\ Size(m, p) = Len(o.v)
                /\ \A i \in DOMAIN o.v :
                      LET t == Pos(made[o.v[i]])
                          key == GetField(m, t, 4, 0)
                          found == LookupByKey(m, p, 4, key)
                      IN  fb.finished \/ (found # Null /\ GetField(m, found, 4, 0) = key)
          [] o.kind = "table" -> ReadsTable(m, p, o.v)

ReadsBack == \A i \in DOMAIN made : Reads(Mem(fb), made[i])

\* What is in the buffer is bytes.
OnlyBytes == fb.back \in Seq(0..255)

\* In a finished buffer every element and field lies at an address that is a
\* multiple of its alignment, and the root, the identifier and the size prefix
\* are where readers look for them.
Aligned(m, o) ==
    LET p == Pos(o)
    IN  CASE o.kind \in {"bytes", "longs", "structs"} ->
                o.v # <<>> => Data(p) % o.align = 0 /\ fb.minalign % o.align = 0
          [] o.kind = "table" ->
                \A field \in DOMAIN Schema :
                    CheckField(m, p, field) =>
                        GetAddressOf(m, p, field) % AlignOf(Schema[field]) = 0
          [] OTHER -> p % 4 = 0

FinishedInPlace ==
    fb.finished =>
        LET m == Mem(fb)
        IN  /\ OnlyBytes
            /\ \A i \in DOMAIN made : Aligned(m, made[i])
            /\ GetRoot(m, sealed.start) = Pos(made[sealed.root])
            /\ sealed.identifier # <<>> => BufferHasIdentifier(m, sealed.start, Identifier)
            /\ sealed.start > 0 => Scalar(m, 0, sealed.start) = m.n - sealed.start
            /\ m.n % fb.minalign = 0

\* Equal virtual tables are stored once, and equal shared strings too.
SharesWhatItCan ==
    /\ DedupVtables => \A i, j \in Tables :
          LET m == Mem(fb)
              VT(t) == GetVTable(m, Pos(made[t]))
              Words(t) == [k \in 1..Scalar(m, VT(t), 2) |-> At(m, VT(t) + k - 1)]
          IN  Words(i) = Words(j) => VT(i) = VT(j)
    /\ \A i, j \in DOMAIN made :
          made[i].shared /\ made[j].shared /\ made[i].v = made[j].v
              => made[i].off = made[j].off

\* How deep the tables below made[i] go, and how many of them a reader that
\* follows every reference visits.
Below(i) ==
    LET Refs(t) == FlattenSeq([k \in 1..Len(SetToSeq(DOMAIN made[t].v)) |->
            LET field == SetToSeq(DOMAIN made[t].v)[k]
                r == made[t].v[field]
            IN  CASE Schema[field] = "table" -> <<r>>
                  [] Schema[field] = "tables" -> made[r].v
                  [] OTHER -> <<>>])
        Walk[t \in DOMAIN made] ==
            IF made[t].kind # "table" THEN [levels |-> 0, visits |-> 0]
            ELSE FoldLeft(LAMBDA w, r : [levels |-> Most(w.levels, 1 + Walk[r].levels),
                                         visits |-> w.visits + Walk[r].visits],
                          [levels |-> 1, visits |-> 1], Refs(t))
    IN  Walk[i]

Accepts(m) ==
    IF sealed.start = 0 THEN VerifyBuffer(m, sealed.identifier)
    ELSE VerifySizePrefixedBuffer(m, sealed.identifier, sealed.start)

\* The verifier accepts what the builder built, unless it is deeper or larger
\* than the options allow, and then it does not.
VerifierAccepts ==
    fb.finished =>
        (Accepts(Mem(fb)) <=> Below(sealed.root).levels <= max_depth
                              /\ Below(sealed.root).visits <= max_tables)

\* What the verifier accepts can be read to its last leaf inside the buffer,
\* also when the end of the buffer got lost or one of its bytes changed.
AcceptedIsSafe ==
    fb.finished =>
        LET SafeIfAccepted(m) == Accepts(m) => Safe(m, sealed.start)
        IN  /\ \A n \in 0..GetSize(fb) : SafeIfAccepted([Mem(fb) EXCEPT !.n = n])
            /\ \A o \in DOMAIN fb.back, d \in Damage :
                  SafeIfAccepted([Mem(fb) EXCEPT !.back[o] = d])
=============================================================================
