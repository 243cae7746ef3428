--------------------------- MODULE VectorDownward ---------------------------
(***************************************************************************)
(* flatbuffers::vector_downward: a byte vector that grows towards lower    *)
(* addresses, with a scratch pad at the low end of the same allocation.    *)
(* Addresses are offsets from buf_; cur_ and scratch_ are such offsets (a  *)
(* null pointer is 0).  A byte nobody wrote holds Junk.                    *)
(***************************************************************************)
EXTENDS Integers, Sequences

CONSTANTS Byte,         \* the values a byte can be given
          Zero,         \* the value fill() writes
          Junk,         \* the value of memory nobody wrote
          InitialSize,  \* initial_size_
          MinAlign,     \* buffer_minalign_, a power of two
          MaxSize,      \* max_size_
          MaxLen        \* bound on the length of one push

ASSUME VecConstants == /\ InitialSize \in Nat
                       /\ MinAlign \in Nat \ {0}
                       /\ MaxSize \in Nat
                       /\ MaxLen \in Nat
                       /\ Zero \in Byte

VARIABLE vec    \* the members of the class that ever change

Cell == Byte \cup {Junk}

\* vector_downward(): nothing is allocated before the first byte.
FreshVec == [buf |-> FALSE, mem |-> <<>>, reserved |-> 0, size |-> 0, cur |-> 0, scratch |-> 0]

unused_buffer_size(v) == v.cur - v.scratch

RoundUp(n) == ((n + MinAlign - 1) \div MinAlign) * MinAlign

\* The capacity reallocate(len) asks for: half as much again, at least len
\* more, rounded up to the alignment of the buffer.
Grown(v, len) ==
    LET step == IF v.reserved = 0 THEN InitialSize ELSE v.reserved \div 2
    IN  RoundUp(v.reserved + (IF len > step THEN len ELSE step))

\* Mutant: the scratch pad stays behind.
MovedBufferOnly(v, n) ==
    [a \in 0..(n - 1) |-> IF a >= n - v.size THEN v.mem[a - n + v.reserved] ELSE Junk]

\* memcpy_downward: the used bytes of the new block, each from its end of the
\* old one.
Moved(v, n) ==
    [a \in 0..(n - 1) |->
        IF a < v.scratch THEN v.mem[a]
        ELSE IF a >= n - v.size THEN v.mem[a - n + v.reserved]
        ELSE Junk]

reallocate(v, len) ==
    LET n == Grown(v, len)
    IN  [buf |-> TRUE, mem |-> Moved(v, n), reserved |-> n, size |-> v.size,
         cur |-> n - v.size, scratch |-> v.scratch]

ensure_space(v, len) ==
    IF len > unused_buffer_size(v) THEN reallocate(v, len) ELSE v

\* The vector v after its members took these values.
With(v, mem, size, cur, scratch) ==
    [buf |-> v.buf, mem |-> mem, reserved |-> v.reserved, size |-> size,
     cur |-> cur, scratch |-> scratch]

make_space(v, len) ==
    LET w == ensure_space(v, len)
    IN  IF len = 0 THEN v ELSE With(w, w.mem, w.size + len, w.cur - len, w.scratch)

\* memcpy() of bytes to the address to.
Written(v, to, bytes) ==
    [a \in 0..(v.reserved - 1) |->
        IF to <= a /\ a < to + Len(bytes) THEN bytes[a - to + 1] ELSE v.mem[a]]

\* push, push_small and fill: make_space, then the bytes from cur_ upwards.
push(v, bytes) ==
    LET w == make_space(v, Len(bytes))
    IN  With(w, Written(w, w.cur, bytes), w.size, w.cur, w.scratch)

Zeros(n) == [i \in 1..n |-> Zero]

fill(v, n) == push(v, Zeros(n))

\* scratch_push_small: ensure_space, then the bytes from scratch_ upwards.
scratch_push_small(v, bytes) ==
    LET w == ensure_space(v, Len(bytes))
    IN  With(w, Written(w, w.scratch, bytes), w.size, w.cur, w.scratch + Len(bytes))

pop(v, n) == With(v, v.mem, v.size - n, v.cur + n, v.scratch)

scratch_pop(v, n) == With(v, v.mem, v.size, v.cur, v.scratch - n)

clear_scratch(v) == scratch_pop(v, v.scratch)

clear(v) ==
    IF v.buf THEN With(v, v.mem, 0, v.reserved, 0) ELSE FreshVec

\* buf_ = nullptr, then clear(): what reset(), release() and release_raw()
\* leave behind.
Dropped(v) == clear([v EXCEPT !.buf = FALSE])

\* data_at(o) for o in 1..size: the bytes counted from the end.
BackBytes(v) == [o \in 1..v.size |-> v.mem[v.reserved - o]]

FrontBytes(v) == [i \in 1..v.scratch |-> v.mem[i - 1]]
-----------------------------------------------------------------------------
Chunks == UNION {[1..n -> Byte] : n \in 0..MaxLen}

\* ensure_space() asserts that the vector is below its maximum; it looks at
\* the size before the new bytes are in.
BelowMax == vec.size < MaxSize

VecInit == vec = FreshVec

VecPush == BelowMax /\ \E bytes \in Chunks : vec' = push(vec, bytes)

VecFill == BelowMax /\ \E n \in 0..MaxLen : vec' = fill(vec, n)

\* CreateUninitializedVector: space for the caller to write later.
MakeSpace == BelowMax /\ \E n \in 0..MaxLen : vec' = make_space(vec, n)

EnsureSpace == BelowMax /\ \E n \in 0..MaxLen : vec' = ensure_space(vec, n)

ScratchPush == /\ BelowMax
               /\ vec.scratch < MaxSize     \* bound of the model
               /\ \E bytes \in Chunks : vec' = scratch_push_small(vec, bytes)

\* The callers pop no more than they pushed.
VecPop == \E n \in 1..vec.size : vec' = pop(vec, n)

ScratchPop == \E n \in 1..vec.scratch : vec' = scratch_pop(vec, n)

VecClear == vec' = clear(vec)

ClearScratch == vec' = clear_scratch(vec)

\* reset(), release() or release_raw().
Drop == vec' = Dropped(vec)

VecNext == \/ VecPush \/ VecFill \/ MakeSpace \/ EnsureSpace \/ ScratchPush
        \/ VecPop \/ ScratchPop \/ VecClear \/ ClearScratch \/ Drop

VecSpec == VecInit /\ [][VecNext]_vec
-----------------------------------------------------------------------------
\* The members of a vector fit together: cur_ is where the buffer ends, the
\* scratch pad stays below it, an unallocated vector is empty, and every
\* capacity is a multiple of buffer_minalign_ ("Force the buffer to be aligned
\* to the given minimum alignment upon reallocation").
WellFormed(v) ==
    /\ v = [buf |-> v.buf, mem |-> v.mem, reserved |-> v.reserved,
            size |-> v.size, cur |-> v.cur, scratch |-> v.scratch]
    /\ v.buf \in BOOLEAN
    /\ v.reserved \in Nat /\ v.size \in Nat /\ v.cur \in Nat /\ v.scratch \in Nat
    /\ v.mem \in [0..(v.reserved - 1) -> Cell]
    /\ v.cur = v.reserved - v.size
    /\ v.scratch <= v.cur
    /\ ~v.buf => v.reserved = 0
    /\ v.reserved % MinAlign = 0

VecOK == WellFormed(vec)

\* Nothing a user of the vector can see depends on where its bytes lie: both
\* ends survive every reallocation, and neither end ever reaches the other.
Stacks == INSTANCE TwoStacks WITH back <- BackBytes(vec), front <- FrontBytes(vec)

ActsAsTwoStacks == Stacks!Spec
=============================================================================
