---------------------------- MODULE MCFlatBuffers ----------------------------
(***************************************************************************)
(* Instances for TLC of the models of the FlatBuffers library, one at a    *)
(* time: what is under test is chosen in the initial state.  The builder   *)
(* is run with six schemas and sizes: every kind of field, every kind of   *)
(* vector, structs of three bytes, deep and shared tables, buffers damaged *)
(* after they are finished, and a 64-bit builder.                          *)
(***************************************************************************)
EXTENDS VectorDownward, BufferOwners, FlatBuilder

CONSTANT Benches

VARIABLES bench,
          xfb, xmade, xopen, xsealed,   \* the other builders: fb, made, open, sealed
          fx, want, opened, kept, pushes

others == <<xfb, xmade, xopen, xsealed>>
flex == <<fx, want, opened, kept, pushes>>

RKNN == <<82, 75, 78, 78>>
AnyText == {<<>>, <<65>>}

(* The builder whose buffers are damaged. *)
DamagedSchema == 4 :> "ubyte" @@ 6 :> "string" @@ 8 :> "table"
DamagedChars == {<<65>>}

Fields == INSTANCE FlatBuilder WITH
    fb <- xfb, made <- xmade, open <- xopen, sealed <- xsealed,
    Schema <- (4 :> "ubyte" @@ 6 :> "string" @@ 8 :> "ulong" @@ 10 :> "struct"),
    Is64Aware <- FALSE, ForceDefaults <- FALSE, DedupVtables <- TRUE,
    Chars <- AnyText, Numbers <- {0, 7},
    MaxObjects <- 2, MaxFields <- 2, MaxElements <- 0

Vecs == INSTANCE FlatBuilder WITH
    fb <- xfb, made <- xmade, open <- xopen, sealed <- xsealed,
    Schema <- (4 :> "bytes" @@ 6 :> "longs" @@ 8 :> "strings" @@ 10 :> "structs"),
    Is64Aware <- FALSE, ForceDefaults <- FALSE, DedupVtables <- TRUE,
    Chars <- AnyText, Numbers <- {0, 7},
    MaxObjects <- 3, MaxFields <- 1, MaxElements <- 2

(* A struct of three bytes needs no alignment, and its vectors are padded for
   nine bytes each. *)
Triples == INSTANCE FlatBuilder WITH
    fb <- xfb, made <- xmade, open <- xopen, sealed <- xsealed,
    StructSize <- 3, StructAlign <- 1,
    Schema <- (4 :> "structs" @@ 6 :> "struct"),
    Is64Aware <- FALSE, ForceDefaults <- FALSE, DedupVtables <- TRUE,
    Chars <- AnyText, Numbers <- {7},
    MaxObjects <- 2, MaxFields <- 1, MaxElements <- 2

Trees == INSTANCE FlatBuilder WITH
    fb <- xfb, made <- xmade, open <- xopen, sealed <- xsealed,
    Schema <- (4 :> "ubyte" @@ 6 :> "table" @@ 8 :> "tables"),
    Is64Aware <- FALSE, ForceDefaults <- FALSE, DedupVtables <- TRUE,
    Chars <- {}, Numbers <- {7},
    MaxObjects <- 3, MaxFields <- 2, MaxElements <- 2

Wide == INSTANCE FlatBuilder WITH
    fb <- xfb, made <- xmade, open <- xopen, sealed <- xsealed,
    Schema <- (4 :> "ubyte" @@ 6 :> "string64" @@ 8 :> "string"),
    Is64Aware <- TRUE, ForceDefaults <- TRUE, DedupVtables <- FALSE,
    Chars <- AnyText, Numbers <- {0},
    MaxObjects <- 3, MaxFields <- 3, MaxElements <- 0

ASSUME OtherConstants == /\ Fields!SchemaOK /\ Vecs!SchemaOK /\ Triples!SchemaOK
                         /\ Trees!SchemaOK /\ Wide!SchemaOK
                         /\ Fields!ProgramOK /\ Vecs!ProgramOK /\ Triples!ProgramOK
                         /\ Trees!ProgramOK /\ Wide!ProgramOK

(* The same for FlexBuffers: numbers, maps and their keys, nested maps with
   shared keys, and texts so long that offsets to them need two bytes. *)

Values == INSTANCE FlexBuilder WITH
    Fine <- {5}, max_depth <- 2, ShareKeys <- TRUE, ShareStrings <- FALSE,
    Names <- {}, Texts <- {}, Ints <- {-1, 7, 300}, Floats <- {3, 5}, Bools <- {0, 1},
    Lengths <- {0, 2, 3}, Widths <- {0, 2}, MaxPushes <- 3, MaxOpen <- 1, Reuses <- FALSE

Maps == INSTANCE FlexBuilder WITH
    Fine <- {}, max_depth <- 2, ShareKeys <- FALSE, ShareStrings <- FALSE,
    Names <- {<<>>, <<65>>, <<65, 66>>}, Texts <- {}, Ints <- {}, Floats <- {}, Bools <- {1},
    Lengths <- {}, Widths <- {0}, MaxPushes <- 7, MaxOpen <- 1, Reuses <- FALSE

Nested == INSTANCE FlexBuilder WITH
    Fine <- {}, max_depth <- 2, ShareKeys <- TRUE, ShareStrings <- FALSE,
    Names <- {<<>>, <<65>>}, Texts <- {}, Ints <- {}, Floats <- {}, Bools <- {},
    Lengths <- {}, Widths <- {0}, MaxPushes <- 5, MaxOpen <- 2, Reuses <- FALSE

LongText == [i \in 1..250 |-> 66]

Long == INSTANCE FlexBuilder WITH
    Fine <- {}, max_depth <- 2, ShareKeys <- TRUE, ShareStrings <- TRUE,
    Names <- {<<65>>}, Texts <- {<<>>, <<65>>, LongText}, Ints <- {}, Floats <- {},
    Bools <- {}, Lengths <- {}, Widths <- {0}, MaxPushes <- 4, MaxOpen <- 2, Reuses <- TRUE

BenchInit == /\ bench \in Benches
             /\ VecInit /\ OwnersInit /\ Init /\ Fields!Init /\ Values!Init

VectorBench == bench = "vector" /\ VecNext /\ UNCHANGED <<owners, vars, others, flex>>

OwnersBench == bench = "owners" /\ OwnersNext /\ UNCHANGED <<vec, vars, others, flex>>

DamagedBench == bench = "damaged" /\ Next /\ UNCHANGED <<vec, owners, others, flex>>

BuilderBench == /\ \/ bench = "fields" /\ Fields!Next
                   \/ bench = "vectors" /\ Vecs!Next
                   \/ bench = "triples" /\ Triples!Next
                   \/ bench = "trees" /\ Trees!Next
                   \/ bench = "wide" /\ Wide!Next
                /\ UNCHANGED <<vec, owners, vars, flex>>

FlexBench == /\ \/ bench = "scalars" /\ Values!Next
                \/ bench = "maps" /\ Maps!Next
                \/ bench = "nested" /\ Nested!Next
                \/ bench = "long" /\ Long!Next
             /\ UNCHANGED <<vec, owners, vars, others>>

BenchNext == /\ VectorBench \/ OwnersBench \/ DamagedBench \/ BuilderBench \/ FlexBench
             /\ UNCHANGED bench

BenchSpec == BenchInit /\ [][BenchNext]_<<bench, vec, owners, vars, others, flex>>
-----------------------------------------------------------------------------
\* FlatBufferBuilder: at every moment the accessors of table.h, vector.h and
\* string.h find in the buffer what was put there.
BuildersReadBack == CASE bench = "damaged" -> ReadsBack
                      [] bench = "fields" -> Fields!ReadsBack
                      [] bench = "vectors" -> Vecs!ReadsBack
                      [] bench = "triples" -> Triples!ReadsBack
                      [] bench = "trees" -> Trees!ReadsBack
                      [] bench = "wide" -> Wide!ReadsBack
                      [] OTHER -> TRUE

\* Finish(): alignment of everything in the buffer, its root, identifier and
\* size prefix.
BuildersInPlace == CASE bench = "damaged" -> FinishedInPlace
                     [] bench = "fields" -> Fields!FinishedInPlace
                     [] bench = "vectors" -> Vecs!FinishedInPlace
                     [] bench = "triples" -> Triples!FinishedInPlace
                     [] bench = "trees" -> Trees!FinishedInPlace
                     [] bench = "wide" -> Wide!FinishedInPlace
                     [] OTHER -> TRUE

\* EndTable() and CreateSharedString(): nothing is stored twice.
BuildersShare == CASE bench = "damaged" -> SharesWhatItCan
                   [] bench = "fields" -> Fields!SharesWhatItCan
                   [] bench = "vectors" -> Vecs!SharesWhatItCan
                   [] bench = "triples" -> Triples!SharesWhatItCan
                   [] bench = "trees" -> Trees!SharesWhatItCan
                   [] OTHER -> TRUE

\* Verifier and flexbuffers::Verifier accept what the builders built, up to
\* the depth and the number of tables or vectors they were given.
VerifiersAccept == CASE bench = "damaged" -> VerifierAccepts
                     [] bench = "fields" -> Fields!VerifierAccepts
                     [] bench = "vectors" -> Vecs!VerifierAccepts
                     [] bench = "triples" -> Triples!VerifierAccepts
                     [] bench = "trees" -> Trees!VerifierAccepts
                     [] bench = "wide" -> Wide!VerifierAccepts
                     [] bench = "scalars" -> Values!FlexVerifierAccepts
                     [] bench = "maps" -> Maps!FlexVerifierAccepts
                     [] bench = "nested" -> Nested!FlexVerifierAccepts
                     [] bench = "long" -> Long!FlexVerifierAccepts
                     [] OTHER -> TRUE

\* flexbuffers::Builder: Reference, Vector and Map find in a finished buffer
\* what was put there.
FlexReadsBack == CASE bench = "scalars" -> Values!FlexReadsBack
                   [] bench = "maps" -> Maps!FlexReadsBack
                   [] bench = "nested" -> Nested!FlexReadsBack
                   [] bench = "long" -> Long!FlexReadsBack
                   [] OTHER -> TRUE
=============================================================================
