---------------------------- MODULE FlatVerifier ----------------------------
(***************************************************************************)
(* flatbuffers::Verifier: which bytes are safe to hand to the accessors.   *)
(* The counters of the verifier are threaded through as a record v; ok     *)
(* falls, and nothing more is looked at, at the first check that fails.    *)
(* size_t is unsigned: an address below 0 is past every buffer.            *)
(***************************************************************************)
EXTENDS FlatReader

CONSTANTS max_depth, max_tables     \* Verifier::Options

Types == {"ubyte", "ushort", "ulong", "struct", "string", "string64", "bytes", "longs",
          "structs", "strings", "table", "tables"}

MaxVOffset == 65534     \* the last even one in a voffset_t

\* What a schema and the options can be: flatc puts the fields at the even
\* offsets behind the two words a virtual table starts with.
SchemaOK ==
    /\ max_depth \in Nat
    /\ StructSize \in Nat /\ StructAlign \in Nat \ {0}
    /\ DOMAIN Schema \subseteq 4..MaxVOffset
    /\ \A f \in DOMAIN Schema : f % 2 = 0 /\ Schema[f] \in Types

ASSUME SchemaConstants == SchemaOK

Fresh == [ok |-> TRUE, depth |-> 0, tables |-> 0]

Check(v, ok) == [v EXCEPT !.ok = @ /\ ok]

\* Mutant: the element may start on the last byte.
VerifyStart(m, elem, elem_len) == elem >= 0 /\ elem_len < m.n /\ elem < m.n

Verify(m, elem, elem_len) == elem >= 0 /\ elem_len < m.n /\ elem <= m.n - elem_len

VerifyAlignment(elem, align) == elem % align = 0

\* Verify<T>() of a scalar of that size.
VerifyScalar(m, elem, size) == VerifyAlignment(elem, size) /\ Verify(m, elem, size)

VerifyVectorOrString(m, vec, elem_size) ==
    VerifyScalar(m, vec, 4) /\ Verify(m, vec, 4 + elem_size * Size(m, vec))

VerifyString(m, str) ==
    /\ VerifyVectorOrString(m, str, 1)
    /\ Verify(m, Data(str) + Size(m, str), 1)
    /\ Terminator(m, str) = 0

VerifyVectorOfStrings(m, vec) ==
    \A i \in 1..Size(m, vec) : VerifyString(m, Pointers(m, vec)[i])

VerifyOffset(m, start, size) ==
    /\ VerifyScalar(m, start, size)
    /\ Scalar(m, start, size) # 0
    /\ Verify(m, Follow(m, start, size), 1)

VerifyComplexity(v) ==
    LET w == [v EXCEPT !.depth = @ + 1, !.tables = @ + 1]
    IN  Check(w, w.depth <= max_depth /\ w.tables <= max_tables)

EndTable(v) == [v EXCEPT !.depth = @ - 1]

VerifyTableStart(m, t, v) ==
    LET vtable == GetVTable(m, t)
        vsize == Scalar(m, vtable, 2)
        w == VerifyComplexity(v)
    IN  IF ~VerifyScalar(m, t, 4) THEN Check(v, FALSE)
        ELSE IF ~w.ok \/ ~VerifyScalar(m, vtable, 2) THEN Check(w, FALSE)
        ELSE Check(w, VerifyAlignment(vsize, 2) /\ Verify(m, vtable, vsize))
-----------------------------------------------------------------------------
(* T::Verify() as flatc generates it for the schema: the start of the      *)
(* table, then one check per field in the order of the schema.             *)

\* The generated check of what an offset field refers to, tables excepted.
Content(m, p, type) ==
    CASE type \in {"string", "string64"} -> VerifyString(m, p)
      [] type = "bytes" -> VerifyVectorOrString(m, p, 1)
      [] type = "longs" -> VerifyVectorOrString(m, p, 8)
      [] type = "structs" -> VerifyVectorOrString(m, p, StructSize)
      [] type = "strings" -> VerifyVectorOrString(m, p, 4) /\ VerifyVectorOfStrings(m, p)
      [] type = "tables" -> VerifyVectorOrString(m, p, 4)
      [] OTHER -> TRUE

\* What a verifier counts; after a table it is as deep as before.
Counters == [ok : BOOLEAN, depth : Nat, tables : Nat]

\* The tables ts one after the other, each by below.
VerifyTables(ts, v, below) ==
    LET after[n \in 0..Len(ts)] ==
            IF n = 0 THEN v
            ELSE IF after[n - 1].ok THEN below[ts[n]][after[n - 1]] ELSE after[n - 1]
    IN  after[Len(ts)]

\* The check of a field of that type whose value lies at address at.
VerifyFieldAt(m, at, type, v, below) ==
    LET p == Follow(m, at, Width(type))
        here == VerifyAlignment(at, AlignOf(type)) /\ Verify(m, at, Width(type))
    IN  IF at = Null THEN v
        ELSE IF IsScalar(type) \/ type = "struct" THEN Check(v, here)
        ELSE IF ~VerifyOffset(m, at, Width(type)) \/ ~Content(m, p, type) THEN Check(v, FALSE)
        ELSE IF type = "table" THEN VerifyTables(<<p>>, v, below)
        ELSE IF type = "tables" THEN VerifyTables(Pointers(m, p), v, below)
        ELSE v

VerifyField(m, t, field, v, below) ==
    VerifyFieldAt(m, GetAddressOf(m, t, field), Schema[field], v, below)

LastField == CHOOSE f \in DOMAIN Schema \cup {0} : \A g \in DOMAIN Schema : g <= f

\* The fields in the order of the schema, which is that of their offsets.
VerifyFields(m, t, v, below) ==
    LET after[n \in 0..LastField] ==
            IF n = 0 THEN v
            ELSE IF n \in DOMAIN Schema /\ after[n - 1].ok
                 THEN VerifyField(m, t, n, after[n - 1], below)
                 ELSE after[n - 1]
    IN  after[LastField]

\* verifier.EndTable(), the last conjunct of T::Verify().
Ended(v) == IF v.ok THEN EndTable(v) ELSE v

\* A table whose subtables are verified by below.
VerifyTable(m, t, v, below) ==
    Ended(VerifyFields(m, t, VerifyTableStart(m, t, v), below))

\* T::Verify() calls itself for a subtable, which leaves it one level less;
\* VerifyTableStart() refuses the table for which none is left.
Verifiers(m) ==
    LET verify[levels \in 0..max_depth] ==
            [t \in Int |-> [v \in Counters |->
                IF levels = 0 THEN VerifyTableStart(m, t, v)
                ELSE VerifyTable(m, t, v, verify[levels - 1])]]
    IN  verify
-----------------------------------------------------------------------------
MinBufferSize == 12     \* FLATBUFFERS_MIN_BUFFER_SIZE

VerifyBufferFromStart(m, identifier, start) ==
    /\ m.n >= MinBufferSize
    /\ identifier # <<>> => BufferHasIdentifier(m, start, identifier)
    /\ VerifyOffset(m, start, 4)
    /\ Verifiers(m)[max_depth][Follow(m, start, 4)][Fresh].ok

VerifyBuffer(m, identifier) == VerifyBufferFromStart(m, identifier, 0)

\* size is the width of the prefix, uoffset_t or uoffset64_t.
VerifySizePrefixedBuffer(m, identifier, size) ==
    /\ VerifyScalar(m, 0, size)
    /\ Scalar(m, 0, size) + size <= m.n
    /\ VerifyBufferFromStart(m, identifier, size)
-----------------------------------------------------------------------------
(* What the accessors touch, said without the verifier: the reference      *)
(* definition of a buffer that can be read to its leaves.                  *)

Inside(m, p, n) == 0 <= p /\ p + n <= m.n

SafeVector(m, p, size) == Inside(m, p, 4) /\ Inside(m, Data(p), size * Size(m, p))

SafeString(m, p) ==
    SafeVector(m, p, 1) /\ Inside(m, Data(p), Size(m, p) + 1) /\ Terminator(m, p) = 0

\* below: the tables that can be read with one level less.
SafeField(m, at, type, below) ==
    /\ Inside(m, at, Width(type))
    /\ LET p == Follow(m, at, Width(type))
       IN  CASE IsScalar(type) \/ type = "struct" -> TRUE
             [] type \in {"string", "string64"} -> SafeString(m, p)
             [] type = "bytes" -> SafeVector(m, p, 1)
             [] type = "longs" -> SafeVector(m, p, 8)
             [] type = "structs" -> SafeVector(m, p, StructSize)
             [] type = "strings" ->
                    /\ SafeVector(m, p, 4)
                    /\ \A i \in 1..Size(m, p) : SafeString(m, Pointers(m, p)[i])
             [] type = "table" -> below[p]
             [] type = "tables" ->
                    /\ SafeVector(m, p, 4)
                    /\ \A i \in 1..Size(m, p) : below[Pointers(m, p)[i]]

SafeTable(m, t, below) ==
    /\ Inside(m, t, 4)
    /\ LET vtable == GetVTable(m, t)
       IN  /\ Inside(m, vtable, 2)
           /\ \A field \in DOMAIN Schema : field < Scalar(m, vtable, 2) =>
                 /\ Inside(m, vtable + field, 2)
                 /\ CheckField(m, t, field) =>
                       SafeField(m, GetAddressOf(m, t, field), Schema[field], below)

SafeTables(m) ==
    LET safe[levels \in 0..max_depth] ==
            [t \in Int |-> levels > 0 /\ SafeTable(m, t, safe[levels - 1])]
    IN  safe

\* Everything reachable from the root can be read.
Safe(m, start) == Inside(m, start, 4) /\ SafeTables(m)[max_depth][GetRoot(m, start)]
=============================================================================
