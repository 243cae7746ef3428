---------------------------- MODULE BufferProofs ----------------------------
(***************************************************************************)
(* The two machines of the growing buffer: vector_downward keeps its       *)
(* members consistent and behaves as two independent stacks, whatever the  *)
(* growth policy's constants; and there is one holder per block and one    *)
(* owner per allocator, for any number of vectors, detached buffers,       *)
(* blocks and allocators.                                                  *)
(***************************************************************************)
EXTENDS VectorDownward, BufferOwners, FiniteSetTheorems, TLAPS

\* The capacity arithmetic of reallocate(): rounding up gives a multiple of
\* the alignment that is no smaller.
LEMMA RoundUpProps ==
    ASSUME NEW n \in Nat
    PROVE  RoundUp(n) \in Nat /\ RoundUp(n) >= n /\ RoundUp(n) % MinAlign = 0
<1>1. MinAlign \in Nat \ {0}
  BY VecConstants
<1> DEFINE q == (n + MinAlign - 1) \div MinAlign
           r == (n + MinAlign - 1) % MinAlign
<1>2. q \in Nat /\ r \in 0..(MinAlign - 1) /\ n + MinAlign - 1 = MinAlign * q + r
  BY <1>1, SMT
<1>3. q * MinAlign >= n /\ q * MinAlign \in Nat
  BY <1>1, <1>2, SMT
<1>4. (q * MinAlign) % MinAlign = 0
  BY <1>1, <1>2, SMT
<1> QED
  BY <1>3, <1>4 DEF RoundUp

\* A grown vector has room for the bytes it was grown for.
LEMMA GrownProps ==
    ASSUME NEW v, WellFormed(v), NEW len \in Nat
    PROVE  Grown(v, len) \in Nat /\ Grown(v, len) >= v.reserved + len
           /\ Grown(v, len) % MinAlign = 0
<1> DEFINE step == IF v.reserved = 0 THEN InitialSize ELSE v.reserved \div 2
           more == IF len > step THEN len ELSE step
<1>1. v.reserved \in Nat /\ step \in Nat
  BY VecConstants, SMT DEF WellFormed
<1>2. more \in Nat /\ more >= len
  BY <1>1
<1> HIDE DEF step
<1>3. v.reserved + more \in Nat /\ v.reserved + more >= v.reserved + len
  BY <1>1, <1>2
<1>4. Grown(v, len) = RoundUp(v.reserved + more)
  BY DEF Grown, step
<1> HIDE DEF more
<1>5. RoundUp(v.reserved + more) \in Nat /\ RoundUp(v.reserved + more) >= v.reserved + more
      /\ RoundUp(v.reserved + more) % MinAlign = 0
  BY <1>3, RoundUpProps
<1> QED
  BY <1>1, <1>2, <1>3, <1>4, <1>5

LEMMA Cancel ==
    ASSUME NEW a \in Int, NEW b \in Int, NEW c \in Int
    PROVE  a - b - a + c = c - b
OBVIOUS

\* reallocate() loses nothing: both ends hold what they held.
LEMMA ReallocateProps ==
    ASSUME NEW v, WellFormed(v), NEW len \in Nat
    PROVE  /\ WellFormed(reallocate(v, len))
           /\ BackBytes(reallocate(v, len)) = BackBytes(v)
           /\ FrontBytes(reallocate(v, len)) = FrontBytes(v)
           /\ reallocate(v, len).size = v.size
           /\ reallocate(v, len).scratch = v.scratch
           /\ unused_buffer_size(reallocate(v, len)) >= len
<1> DEFINE n == Grown(v, len)
           w == reallocate(v, len)
<1>1. n \in Nat /\ n >= v.reserved + len /\ n % MinAlign = 0
  BY GrownProps
<1>2. /\ w.buf = TRUE /\ w.mem = Moved(v, n) /\ w.reserved = n /\ w.size = v.size
      /\ w.cur = n - v.size /\ w.scratch = v.scratch
      /\ w = [buf |-> w.buf, mem |-> w.mem, reserved |-> w.reserved,
              size |-> w.size, cur |-> w.cur, scratch |-> w.scratch]
  BY DEF reallocate
<1> HIDE DEF n, w
<1>3. /\ v.reserved \in Nat /\ v.size \in Nat /\ v.scratch \in Nat
      /\ v.mem \in [0..(v.reserved - 1) -> Cell]
      /\ v.scratch <= v.reserved - v.size
  BY DEF WellFormed
<1>4. Moved(v, n) \in [0..(n - 1) -> Cell]
  <2> SUFFICES ASSUME NEW a \in 0..(n - 1)
               PROVE  (IF a < v.scratch THEN v.mem[a]
                       ELSE IF a >= n - v.size THEN v.mem[a - n + v.reserved]
                       ELSE Junk) \in Cell
    BY DEF Moved
  <2>1. CASE a < v.scratch
    <3>1. a \in 0..(v.reserved - 1)
      BY <1>3, <2>1
    <3> QED
      BY <1>3, <2>1, <3>1
  <2>2. CASE ~(a < v.scratch) /\ a >= n - v.size
    <3>1. a - n + v.reserved \in 0..(v.reserved - 1)
      BY <1>1, <1>3, <2>2, SMTT(60)
    <3>2. v.mem[a - n + v.reserved] \in Cell
      BY <1>3, <3>1
    <3> QED
      BY <2>2, <3>2
  <2>3. CASE ~(a < v.scratch) /\ ~(a >= n - v.size)
    BY <2>3 DEF Cell
  <2> QED
    BY <2>1, <2>2, <2>3
<1>5. WellFormed(w)
  <2>1. n - v.size \in Nat /\ v.scratch <= n - v.size
    BY <1>1, <1>3
  <2> QED
    BY <1>1, <1>2, <1>3, <1>4, <2>1 DEF WellFormed
<1>6. BackBytes(w) = BackBytes(v)
  <2>1. \A o \in 1..v.size : Moved(v, n)[n - o] = v.mem[v.reserved - o]
    <3> TAKE o \in 1..v.size
    <3>1. o \in Nat /\ 1 <= o /\ o <= v.size /\ n >= v.size + v.scratch
      BY <1>1, <1>3
    <3>2. n - o \in 0..(n - 1) /\ n - o >= n - v.size /\ ~(n - o < v.scratch)
      BY <1>1, <1>3, <3>1, SMTT(60)
    <3>3. (n - o) - n + v.reserved = v.reserved - o
      <4>1. n \in Int /\ o \in Int /\ v.reserved \in Int
        BY <1>1, <1>3, <3>1
      <4> QED
        BY <4>1, Cancel, Zenon
    <3> QED
      BY <3>2, <3>3 DEF Moved
  <2> QED
    BY <2>1, <1>2 DEF BackBytes
<1>7. FrontBytes(w) = FrontBytes(v)
  BY <1>1, <1>2, <1>3, SMTT(60) DEF FrontBytes, Moved
<1>8. unused_buffer_size(w) >= len
  BY <1>1, <1>2, <1>3 DEF unused_buffer_size
<1> QED
  BY <1>2, <1>5, <1>6, <1>7, <1>8 DEF w

\* ensure_space() makes room and nothing else a user can see.
LEMMA EnsureProps ==
    ASSUME NEW v, WellFormed(v), NEW len \in Nat
    PROVE  /\ WellFormed(ensure_space(v, len))
           /\ BackBytes(ensure_space(v, len)) = BackBytes(v)
           /\ FrontBytes(ensure_space(v, len)) = FrontBytes(v)
           /\ ensure_space(v, len).size = v.size
           /\ ensure_space(v, len).scratch = v.scratch
           /\ unused_buffer_size(ensure_space(v, len)) >= len
<1>1. CASE len > unused_buffer_size(v)
  BY <1>1, ReallocateProps DEF ensure_space
<1>2. CASE ~(len > unused_buffer_size(v))
  <2>1. unused_buffer_size(v) \in Int
    BY DEF WellFormed, unused_buffer_size
  <2> QED
    BY <1>2, <2>1 DEF ensure_space
<1> QED
  BY <1>1, <1>2

\* What make_space() and push() do to a vector with room for len more bytes:
\* x differs from w by the len new bytes below the old ones.
LEMMA TakenProps ==
    ASSUME NEW w, WellFormed(w), NEW len \in Nat \ {0}, unused_buffer_size(w) >= len,
           NEW mem \in [0..(w.reserved - 1) -> Cell],
           \A a \in 0..(w.reserved - 1) :
               ~(w.cur - len <= a /\ a < w.cur) => mem[a] = w.mem[a]
    PROVE  LET x == With(w, mem, w.size + len, w.cur - len, w.scratch)
           IN  /\ WellFormed(x)
               /\ FrontBytes(x) = FrontBytes(w)
               /\ BackBytes(x) = [o \in 1..(w.size + len) |->
                                IF o <= w.size THEN BackBytes(w)[o] ELSE mem[w.reserved - o]]
<1> DEFINE x == With(w, mem, w.size + len, w.cur - len, w.scratch)
<1>1. /\ w.reserved \in Nat /\ w.size \in Nat /\ w.scratch \in Nat /\ w.cur \in Nat
      /\ w.mem \in [0..(w.reserved - 1) -> Cell]
      /\ w.cur = w.reserved - w.size /\ w.scratch <= w.cur - len
      /\ w.reserved % MinAlign = 0 /\ w.buf \in BOOLEAN
      /\ ~w.buf => w.reserved = 0
  BY DEF WellFormed, unused_buffer_size
<1>2. /\ x.buf = w.buf /\ x.mem = mem /\ x.reserved = w.reserved
      /\ x.size = w.size + len /\ x.cur = w.cur - len /\ x.scratch = w.scratch
      /\ x = [buf |-> x.buf, mem |-> x.mem, reserved |-> x.reserved,
              size |-> x.size, cur |-> x.cur, scratch |-> x.scratch]
  BY DEF With
<1> HIDE DEF x
<1>3. WellFormed(x)
  BY <1>1, <1>2 DEF WellFormed
<1>4. FrontBytes(x) = FrontBytes(w)
  <2>1. \A i \in 1..w.scratch : mem[i - 1] = w.mem[i - 1]
    <3> TAKE i \in 1..w.scratch
    <3> DEFINE a == i - 1
    <3>1. a \in 0..(w.reserved - 1) /\ ~(w.cur - len <= a /\ a < w.cur)
      BY <1>1, SMTT(60)
    <3> HIDE DEF a
    <3>2. mem[a] = w.mem[a]
      BY <3>1
    <3> QED
      BY <3>2 DEF a
  <2> QED
    BY <2>1, <1>2 DEF FrontBytes
<1>5. BackBytes(x) = [o \in 1..(w.size + len) |-> x.mem[x.reserved - o]]
  BY <1>2 DEF BackBytes
<1>6. \A o \in 1..(w.size + len) :
         x.mem[x.reserved - o] = IF o <= w.size THEN BackBytes(w)[o] ELSE mem[w.reserved - o]
  <2> TAKE o \in 1..(w.size + len)
  <2>1. CASE o <= w.size
    <3>1. o \in 1..w.size /\ w.reserved - o \in 0..(w.reserved - 1) /\ w.reserved - o >= w.cur
      BY <1>1, <2>1
    <3>2. mem[w.reserved - o] = w.mem[w.reserved - o]
      <4> DEFINE a == w.reserved - o
      <4>1. a \in 0..(w.reserved - 1) /\ ~(w.cur - len <= a /\ a < w.cur)
        BY <3>1, <1>1
      <4> HIDE DEF a
      <4>2. mem[a] = w.mem[a]
        BY <4>1
      <4> QED
        BY <4>2 DEF a
    <3>3. BackBytes(w)[o] = w.mem[w.reserved - o]
      BY <3>1 DEF BackBytes
    <3> QED
      BY <2>1, <3>2, <3>3, <1>2
  <2>2. CASE ~(o <= w.size)
    BY <2>2, <1>2
  <2> QED
    BY <2>1, <2>2
<1> QED
  BY <1>3, <1>4, <1>5, <1>6 DEF x

LEMMA SeqLen ==
    ASSUME NEW S, NEW n \in Nat, NEW f \in [1..n -> S]
    PROVE  f \in Seq(S) /\ Len(f) = n
OBVIOUS

\* The two ends as sequences.
LEMMA EndsAreSequences ==
    ASSUME NEW v, WellFormed(v)
    PROVE  /\ BackBytes(v) \in [1..v.size -> Cell] /\ Len(BackBytes(v)) = v.size
           /\ FrontBytes(v) \in [1..v.scratch -> Cell] /\ Len(FrontBytes(v)) = v.scratch
<1>1. /\ v.reserved \in Nat /\ v.size \in Nat /\ v.scratch \in Nat
      /\ v.mem \in [0..(v.reserved - 1) -> Cell]
      /\ v.scratch <= v.reserved - v.size
  BY DEF WellFormed
<1>2. BackBytes(v) \in [1..v.size -> Cell]
  <2>1. \A o \in 1..v.size : v.reserved - o \in 0..(v.reserved - 1)
    BY <1>1
  <2> QED
    BY <1>1, <2>1 DEF BackBytes
<1>3. FrontBytes(v) \in [1..v.scratch -> Cell]
  <2>1. \A i \in 1..v.scratch : i - 1 \in 0..(v.reserved - 1)
    BY <1>1
  <2> QED
    BY <1>1, <2>1 DEF FrontBytes
<1> QED
  BY <1>1, <1>2, <1>3, SeqLen

\* make_space() leaves the new bytes to the caller: whatever they hold, the
\* old ones are where they were.
LEMMA MakeSpaceProps ==
    ASSUME NEW v, WellFormed(v), NEW len \in Nat
    PROVE  /\ WellFormed(make_space(v, len))
           /\ FrontBytes(make_space(v, len)) = FrontBytes(v)
           /\ \E bytes \in [1..len -> Cell] :
                 BackBytes(make_space(v, len)) = Stacks!Stacked(BackBytes(v), bytes)
<1> DEFINE w == ensure_space(v, len)
           x == make_space(v, len)
<1>1. CASE len = 0
  <2> DEFINE none == [i \in 1..0 |-> Junk]
  <2>1. x = v
    BY <1>1 DEF make_space
  <2>2. none \in [1..len -> Cell] /\ Len(none) = 0
    BY <1>1, SeqLen
  <2>3. v.size \in Nat /\ BackBytes(v) \in [1..v.size -> Cell] /\ Len(BackBytes(v)) = v.size
    BY EndsAreSequences DEF WellFormed
  <2>4. Stacks!Stacked(BackBytes(v), none) = BackBytes(v)
    BY <2>2, <2>3 DEF Stacks!Stacked
  <2> QED
    BY <2>1, <2>2, <2>4
<1>2. CASE len # 0
  <2>1. /\ WellFormed(w) /\ BackBytes(w) = BackBytes(v) /\ FrontBytes(w) = FrontBytes(v)
        /\ w.size = v.size /\ unused_buffer_size(w) >= len
    BY EnsureProps
  <2>2. x = With(w, w.mem, w.size + len, w.cur - len, w.scratch)
    BY <1>2 DEF make_space
  <2> HIDE DEF w, x
  <2>3. w.mem \in [0..(w.reserved - 1) -> Cell]
    BY <2>1 DEF WellFormed
  <2>4. /\ WellFormed(x) /\ FrontBytes(x) = FrontBytes(w)
        /\ BackBytes(x) = [o \in 1..(w.size + len) |->
                        IF o <= w.size THEN BackBytes(w)[o] ELSE w.mem[w.reserved - o]]
    <3>1. len \in Nat \ {0}
      BY <1>2
    <3>2. \A a \in 0..(w.reserved - 1) :
             ~(w.cur - len <= a /\ a < w.cur) => w.mem[a] = w.mem[a]
      OBVIOUS
    <3> QED
      BY <2>1, <2>2, <2>3, <3>1, <3>2, TakenProps
  <2> DEFINE got == [i \in 1..len |-> w.mem[w.reserved - (w.size + len + 1 - i)]]
  <2>5. \A i \in 1..len : w.reserved - (w.size + len + 1 - i) \in 0..(w.reserved - 1)
    <3>1. /\ w.reserved \in Nat /\ w.size \in Nat /\ w.scratch \in Nat
          /\ w.cur = w.reserved - w.size
      BY <2>1 DEF WellFormed
    <3>2. w.cur - w.scratch >= len
      BY <2>1 DEF unused_buffer_size
    <3>3. w.size + len <= w.reserved
      BY <3>1, <3>2
    <3> QED
      BY <3>1, <3>3
  <2>6. got \in [1..len -> Cell] /\ Len(got) = len
    <3>1. got \in [1..len -> Cell]
      BY <2>3, <2>5
    <3> QED
      BY <3>1, SeqLen, Zenon
  <2>7. w.size \in Nat /\ w.reserved \in Nat /\ Len(BackBytes(w)) = w.size
    BY <2>1, EndsAreSequences DEF WellFormed
  <2>8. \A o \in 1..(w.size + len) : ~(o <= w.size) =>
           /\ w.size + len + 1 - o \in 1..len
           /\ w.reserved - (w.size + len + 1 - (w.size + len + 1 - o)) = w.reserved - o
    BY <2>7, SMTT(60)
  <2>9. \A o \in 1..(w.size + len) : ~(o <= w.size) =>
           got[w.size + len + 1 - o] = w.mem[w.reserved - o]
    BY <2>8
  <2> HIDE DEF got
  <2>10. BackBytes(x) = Stacks!Stacked(BackBytes(w), got)
    BY <2>4, <2>6, <2>7, <2>9 DEF Stacks!Stacked
  <2> QED
    BY <2>1, <2>4, <2>6, <2>10 DEF x
<1> QED
  BY <1>1, <1>2

\* Rewriting a vector with its own members changes nothing.
LEMMA WithSame ==
    ASSUME NEW v, WellFormed(v)
    PROVE  With(v, v.mem, v.size, v.cur, v.scratch) = v
BY DEF With, WellFormed

\* push() and fill(): the bytes go on top of the buffer, in memory order.
LEMMA PushProps ==
    ASSUME NEW v, WellFormed(v), NEW len \in Nat, NEW bytes \in [1..len -> Cell]
    PROVE  /\ WellFormed(push(v, bytes))
           /\ FrontBytes(push(v, bytes)) = FrontBytes(v)
           /\ BackBytes(push(v, bytes)) = Stacks!Stacked(BackBytes(v), bytes)
<1>1. Len(bytes) = len
  BY SeqLen
<1> DEFINE e == ensure_space(v, len)
           x == push(v, bytes)
<1>2. v.size \in Nat /\ BackBytes(v) \in [1..v.size -> Cell] /\ Len(BackBytes(v)) = v.size
  BY EndsAreSequences DEF WellFormed
<1>3. CASE len = 0
  <2>1. make_space(v, Len(bytes)) = v
    BY <1>1, <1>3 DEF make_space
  <2>2. Written(v, v.cur, bytes) = v.mem
    BY <1>1, <1>3 DEF Written, WellFormed
  <2>3. x = v
    BY <2>1, <2>2, WithSame DEF push
  <2>4. Stacks!Stacked(BackBytes(v), bytes) = BackBytes(v)
    BY <1>1, <1>2, <1>3 DEF Stacks!Stacked
  <2> QED
    BY <2>3, <2>4
<1>4. CASE len # 0
  <2>1. /\ WellFormed(e) /\ BackBytes(e) = BackBytes(v) /\ FrontBytes(e) = FrontBytes(v)
        /\ e.size = v.size /\ unused_buffer_size(e) >= len
    BY EnsureProps
  <2> DEFINE w == make_space(v, len)
  <2>2. w = With(e, e.mem, e.size + len, e.cur - len, e.scratch)
    BY <1>4 DEF make_space
  <2> HIDE DEF e, w
  <2>3. /\ w.reserved = e.reserved /\ w.mem = e.mem /\ w.size = e.size + len
        /\ w.cur = e.cur - len /\ w.scratch = e.scratch /\ w.buf = e.buf
    BY <2>2 DEF With
  <2> DEFINE mem == Written(w, w.cur, bytes)
  <2>4. x = With(e, mem, e.size + len, e.cur - len, e.scratch)
    BY <1>1, <2>3 DEF push, With, w
  <2>5. /\ e.reserved \in Nat /\ e.size \in Nat /\ e.cur \in Nat /\ e.scratch \in Nat
        /\ e.mem \in [0..(e.reserved - 1) -> Cell] /\ e.cur = e.reserved - e.size
        /\ len <= e.cur - e.scratch
    BY <2>1 DEF WellFormed, unused_buffer_size
  <2>6. mem = [a \in 0..(e.reserved - 1) |->
                 IF e.cur - len <= a /\ a < e.cur - len + len
                 THEN bytes[a - (e.cur - len) + 1] ELSE e.mem[a]]
    BY <1>1, <2>3 DEF Written
  <2> HIDE DEF mem, x
  <2>7. \A a \in 0..(e.reserved - 1) :
           e.cur - len <= a /\ a < e.cur - len + len => a - (e.cur - len) + 1 \in 1..len
    BY <2>5, SMTT(30)
  <2>8. mem \in [0..(e.reserved - 1) -> Cell]
    BY <2>5, <2>6, <2>7
  <2>9. \A a \in 0..(e.reserved - 1) :
           ~(e.cur - len <= a /\ a < e.cur) => mem[a] = e.mem[a]
    BY <2>5, <2>6
  <2>10. len \in Nat \ {0}
    BY <1>4
  <2>11. /\ WellFormed(x) /\ FrontBytes(x) = FrontBytes(e)
         /\ BackBytes(x) = [o \in 1..(e.size + len) |->
                         IF o <= e.size THEN BackBytes(e)[o] ELSE mem[e.reserved - o]]
    BY <2>1, <2>4, <2>8, <2>9, <2>10, TakenProps
  <2>12. ASSUME NEW o \in 1..(e.size + len), ~(o <= e.size)
         PROVE  mem[e.reserved - o] = bytes[e.size + len + 1 - o]
    <3> DEFINE a == e.reserved - o
    <3>a. o \in Nat /\ e.size < o /\ o <= e.size + len /\ e.size + len <= e.reserved
      BY <2>5, <2>12
    <3>b. a \in 0..(e.reserved - 1) /\ e.cur - len <= a /\ a < e.cur - len + len
      BY <2>5, <3>a, SMTT(30)
    <3>c. a - (e.cur - len) + 1 = e.size + len + 1 - o
      BY <2>5, <3>a, SMTT(30)
    <3>1. /\ a \in 0..(e.reserved - 1) /\ e.cur - len <= a /\ a < e.cur - len + len
          /\ a - (e.cur - len) + 1 = e.size + len + 1 - o
      BY <3>b, <3>c
    <3> HIDE DEF a
    <3>2. mem[a] = bytes[a - (e.cur - len) + 1]
      BY <2>6, <3>1
    <3> QED
      BY <3>1, <3>2 DEF a
  <2>13. BackBytes(x) = Stacks!Stacked(BackBytes(v), bytes)
    BY <1>1, <1>2, <2>1, <2>11, <2>12 DEF Stacks!Stacked
  <2> QED
    BY <2>1, <2>11, <2>13 DEF x
<1> QED
  BY <1>3, <1>4

\* scratch_push_small(): the bytes go behind the scratch pad.
LEMMA ScratchPushProps ==
    ASSUME NEW v, WellFormed(v), NEW len \in Nat, NEW bytes \in [1..len -> Cell]
    PROVE  /\ WellFormed(scratch_push_small(v, bytes))
           /\ BackBytes(scratch_push_small(v, bytes)) = BackBytes(v)
           /\ FrontBytes(scratch_push_small(v, bytes)) = Stacks!Extended(FrontBytes(v), bytes)
<1>1. Len(bytes) = len
  BY SeqLen
<1> DEFINE e == ensure_space(v, len)
           x == scratch_push_small(v, bytes)
           mem == Written(e, e.scratch, bytes)
<1>2. /\ WellFormed(e) /\ BackBytes(e) = BackBytes(v) /\ FrontBytes(e) = FrontBytes(v)
      /\ e.scratch = v.scratch /\ unused_buffer_size(e) >= len
  BY EnsureProps
<1>3. x = With(e, mem, e.size, e.cur, e.scratch + len)
  BY <1>1 DEF scratch_push_small
<1> HIDE DEF e
<1>4. /\ e.reserved \in Nat /\ e.size \in Nat /\ e.cur \in Nat /\ e.scratch \in Nat
      /\ e.mem \in [0..(e.reserved - 1) -> Cell] /\ e.cur = e.reserved - e.size
      /\ len <= e.cur - e.scratch /\ e.buf \in BOOLEAN /\ (~e.buf => e.reserved = 0)
      /\ e.reserved % MinAlign = 0
  BY <1>2 DEF WellFormed, unused_buffer_size
<1>5. mem = [a \in 0..(e.reserved - 1) |->
               IF e.scratch <= a /\ a < e.scratch + len
               THEN bytes[a - e.scratch + 1] ELSE e.mem[a]]
  BY <1>1 DEF Written
<1> HIDE DEF mem, x
<1>6. \A a \in 0..(e.reserved - 1) :
         e.scratch <= a /\ a < e.scratch + len => a - e.scratch + 1 \in 1..len
  BY <1>4, SMTT(60)
<1>7. mem \in [0..(e.reserved - 1) -> Cell]
  BY <1>4, <1>5, <1>6
<1>8. /\ x.buf = e.buf /\ x.mem = mem /\ x.reserved = e.reserved /\ x.size = e.size
      /\ x.cur = e.cur /\ x.scratch = e.scratch + len
      /\ x = [buf |-> x.buf, mem |-> x.mem, reserved |-> x.reserved, size |-> x.size,
              cur |-> x.cur, scratch |-> x.scratch]
  BY <1>3 DEF With
<1>9. WellFormed(x)
  <2>1. e.scratch + len \in Nat /\ e.scratch + len <= e.cur
    BY <1>4
  <2> QED
    BY <1>4, <1>7, <1>8, <2>1 DEF WellFormed
<1>10. BackBytes(x) = BackBytes(e)
  <2>1. \A o \in 1..e.size : mem[e.reserved - o] = e.mem[e.reserved - o]
    <3> TAKE o \in 1..e.size
    <3> DEFINE a == e.reserved - o
    <3>1. a \in 0..(e.reserved - 1) /\ ~(a < e.scratch + len)
      BY <1>4, SMTT(60)
    <3> HIDE DEF a
    <3>2. mem[a] = e.mem[a]
      BY <1>5, <3>1
    <3> QED
      BY <3>2 DEF a
  <2> QED
    BY <1>8, <2>1 DEF BackBytes
<1>11. FrontBytes(x) = Stacks!Extended(FrontBytes(v), bytes)
  <2>1. Len(FrontBytes(e)) = e.scratch
    BY <1>2, EndsAreSequences
  <2>2. ASSUME NEW i \in 1..(e.scratch + len)
        PROVE  mem[i - 1] = IF i <= e.scratch THEN FrontBytes(e)[i] ELSE bytes[i - e.scratch]
    <3> DEFINE a == i - 1
    <3>0. e.reserved \in Nat /\ e.size \in Nat /\ e.scratch \in Nat
          /\ e.scratch + len <= e.reserved
      BY <1>4
    <3>1. a \in 0..(e.reserved - 1) /\ (e.scratch <= a <=> ~(i <= e.scratch))
          /\ a < e.scratch + len /\ a - e.scratch + 1 = i - e.scratch
      BY <3>0
    <3>2. i <= e.scratch => FrontBytes(e)[i] = e.mem[a]
      BY <1>4 DEF FrontBytes
    <3> HIDE DEF a
    <3>3. mem[a] = IF e.scratch <= a THEN bytes[a - e.scratch + 1] ELSE e.mem[a]
      BY <1>5, <3>1
    <3> QED
      BY <3>1, <3>2, <3>3 DEF a
  <2>3. FrontBytes(x) = [i \in 1..(e.scratch + len) |-> mem[i - 1]]
    BY <1>8 DEF FrontBytes
  <2> QED
    BY <1>1, <1>2, <2>1, <2>2, <2>3 DEF Stacks!Extended
<1> QED
  BY <1>2, <1>9, <1>10, <1>11 DEF x

\* pop(): the bytes last pushed are gone, the others stay.
LEMMA PopProps ==
    ASSUME NEW v, WellFormed(v), NEW n \in 0..v.size
    PROVE  /\ WellFormed(pop(v, n))
           /\ FrontBytes(pop(v, n)) = FrontBytes(v)
           /\ BackBytes(pop(v, n)) = Stacks!Cut(BackBytes(v), n)
<1> DEFINE x == pop(v, n)
<1>1. /\ v.reserved \in Nat /\ v.size \in Nat /\ v.cur \in Nat /\ v.scratch \in Nat
      /\ v.mem \in [0..(v.reserved - 1) -> Cell] /\ v.cur = v.reserved - v.size
      /\ v.scratch <= v.cur /\ v.buf \in BOOLEAN /\ (~v.buf => v.reserved = 0)
      /\ v.reserved % MinAlign = 0
  BY DEF WellFormed
<1>2. /\ x.buf = v.buf /\ x.mem = v.mem /\ x.reserved = v.reserved /\ x.size = v.size - n
      /\ x.cur = v.cur + n /\ x.scratch = v.scratch
      /\ x = [buf |-> x.buf, mem |-> x.mem, reserved |-> x.reserved, size |-> x.size,
              cur |-> x.cur, scratch |-> x.scratch]
  BY DEF pop, With
<1> HIDE DEF x
<1>3. v.size - n \in Nat /\ v.cur + n \in Nat /\ v.cur + n = v.reserved - (v.size - n)
      /\ v.scratch <= v.cur + n
  BY <1>1
<1>4. WellFormed(x)
  BY <1>1, <1>2, <1>3 DEF WellFormed
<1>5. FrontBytes(x) = FrontBytes(v)
  BY <1>2 DEF FrontBytes
<1>6. Len(BackBytes(v)) = v.size
  BY EndsAreSequences
<1>7. \A o \in 1..(v.size - n) : BackBytes(v)[o] = v.mem[v.reserved - o]
  BY <1>1 DEF BackBytes
<1>8. BackBytes(x) = Stacks!Cut(BackBytes(v), n)
  BY <1>2, <1>6, <1>7 DEF BackBytes, Stacks!Cut
<1> QED
  BY <1>4, <1>5, <1>8 DEF x

\* scratch_pop() and clear_scratch().
LEMMA ScratchPopProps ==
    ASSUME NEW v, WellFormed(v), NEW n \in 0..v.scratch
    PROVE  /\ WellFormed(scratch_pop(v, n))
           /\ BackBytes(scratch_pop(v, n)) = BackBytes(v)
           /\ FrontBytes(scratch_pop(v, n)) = Stacks!Cut(FrontBytes(v), n)
<1> DEFINE x == scratch_pop(v, n)
<1>1. /\ v.reserved \in Nat /\ v.size \in Nat /\ v.cur \in Nat /\ v.scratch \in Nat
      /\ v.mem \in [0..(v.reserved - 1) -> Cell] /\ v.cur = v.reserved - v.size
      /\ v.scratch <= v.cur /\ v.buf \in BOOLEAN /\ (~v.buf => v.reserved = 0)
      /\ v.reserved % MinAlign = 0
  BY DEF WellFormed
<1>2. /\ x.buf = v.buf /\ x.mem = v.mem /\ x.reserved = v.reserved /\ x.size = v.size
      /\ x.cur = v.cur /\ x.scratch = v.scratch - n
      /\ x = [buf |-> x.buf, mem |-> x.mem, reserved |-> x.reserved, size |-> x.size,
              cur |-> x.cur, scratch |-> x.scratch]
  BY DEF scratch_pop, With
<1> HIDE DEF x
<1>3. v.scratch - n \in Nat /\ v.scratch - n <= v.cur
  BY <1>1
<1>4. WellFormed(x)
  BY <1>1, <1>2, <1>3 DEF WellFormed
<1>5. BackBytes(x) = BackBytes(v)
  BY <1>2 DEF BackBytes
<1>6. Len(FrontBytes(v)) = v.scratch
  BY EndsAreSequences
<1>7. \A i \in 1..(v.scratch - n) : FrontBytes(v)[i] = v.mem[i - 1]
  BY <1>1 DEF FrontBytes
<1>8. FrontBytes(x) = Stacks!Cut(FrontBytes(v), n)
  BY <1>2, <1>6, <1>7 DEF FrontBytes, Stacks!Cut
<1> QED
  BY <1>4, <1>5, <1>8 DEF x

LEMMA FreshProps == WellFormed(FreshVec) /\ BackBytes(FreshVec) = <<>> /\ FrontBytes(FreshVec) = <<>>
<1>1. MinAlign \in Nat \ {0}
  BY VecConstants
<1>2. 0 % MinAlign = 0
  BY <1>1
<1>3. FreshVec.mem \in [0..(FreshVec.reserved - 1) -> Cell]
  BY DEF FreshVec
<1>4. WellFormed(FreshVec)
  BY <1>2, <1>3 DEF WellFormed, FreshVec
<1>5. BackBytes(FreshVec) = <<>> /\ FrontBytes(FreshVec) = <<>>
  BY DEF BackBytes, FrontBytes, FreshVec
<1> QED
  BY <1>4, <1>5

\* clear(), and the clear() at the end of reset() and release().
LEMMA ClearProps ==
    ASSUME NEW v, WellFormed(v)
    PROVE  /\ WellFormed(clear(v)) /\ BackBytes(clear(v)) = <<>> /\ FrontBytes(clear(v)) = <<>>
           /\ Dropped(v) = FreshVec
<1>1. Dropped(v) = FreshVec
  BY DEF Dropped, clear, WellFormed
<1>2. CASE ~v.buf
  BY <1>1, <1>2, FreshProps DEF clear
<1>3. CASE v.buf
  <2> DEFINE x == clear(v)
  <2>1. /\ x.buf = v.buf /\ x.mem = v.mem /\ x.reserved = v.reserved /\ x.size = 0
        /\ x.cur = v.reserved /\ x.scratch = 0
        /\ x = [buf |-> x.buf, mem |-> x.mem, reserved |-> x.reserved, size |-> x.size,
                cur |-> x.cur, scratch |-> x.scratch]
    BY <1>3 DEF clear, With
  <2> HIDE DEF x
  <2>2. WellFormed(x)
    BY <2>1 DEF WellFormed
  <2>3. BackBytes(x) = <<>> /\ FrontBytes(x) = <<>>
    BY <2>1 DEF BackBytes, FrontBytes
  <2> QED
    BY <1>1, <2>2, <2>3 DEF x
<1>4. v.buf \in BOOLEAN
  BY DEF WellFormed
<1> QED
  BY <1>2, <1>3, <1>4

LEMMA ChunkBytes ==
    ASSUME NEW bytes \in Chunks
    PROVE  \E len \in 0..MaxLen : bytes \in [1..len -> Cell]
BY DEF Chunks, Cell

\* Every operation keeps the members consistent and is, for the two ends, one
\* operation of a pair of stacks (or nothing).
LEMMA StepProps ==
    ASSUME VecOK, [VecNext]_vec
    PROVE  VecOK' /\ [Stacks!Next]_(Stacks!vars)
<1> USE DEF Stacks!vars, Stacks!Next
<1>0. MaxLen \in Nat /\ WellFormed(vec)
  BY VecConstants DEF VecOK
<1>1. CASE VecPush
  <2>1. PICK bytes \in Chunks : vec' = push(vec, bytes)
    BY <1>1 DEF VecPush
  <2>2. PICK len \in 0..MaxLen : bytes \in [1..len -> Cell]
    BY ChunkBytes
  <2>3. len \in Nat
    BY <1>0
  <2>4. /\ WellFormed(vec') /\ FrontBytes(vec') = FrontBytes(vec)
        /\ BackBytes(vec') = Stacks!Stacked(BackBytes(vec), bytes)
    BY <1>0, <2>1, <2>2, <2>3, PushProps
  <2>5. Stacks!PushBack
    BY <2>2, <2>4 DEF Stacks!PushBack, Stacks!Chunk
  <2> QED
    BY <2>4, <2>5 DEF VecOK
<1>2. CASE VecFill
  <2>1. PICK n \in 0..MaxLen : vec' = push(vec, Zeros(n))
    BY <1>2 DEF VecFill, fill
  <2>2. Zeros(n) \in [1..n -> Cell] /\ n \in Nat
    BY <1>0, VecConstants DEF Zeros, Cell
  <2>4. /\ WellFormed(vec') /\ FrontBytes(vec') = FrontBytes(vec)
        /\ BackBytes(vec') = Stacks!Stacked(BackBytes(vec), Zeros(n))
    BY <1>0, <2>1, <2>2, PushProps
  <2>5. Stacks!PushBack
    BY <2>2, <2>4 DEF Stacks!PushBack, Stacks!Chunk
  <2> QED
    BY <2>4, <2>5 DEF VecOK
<1>3. CASE MakeSpace
  <2>1. PICK n \in 0..MaxLen : vec' = make_space(vec, n)
    BY <1>3 DEF MakeSpace
  <2>2. n \in Nat
    BY <1>0
  <2>3. WellFormed(vec') /\ FrontBytes(vec') = FrontBytes(vec)
    BY <1>0, <2>1, <2>2, MakeSpaceProps
  <2>4. PICK bytes \in [1..n -> Cell] : BackBytes(vec') = Stacks!Stacked(BackBytes(vec), bytes)
    BY <1>0, <2>1, <2>2, MakeSpaceProps
  <2>5. Stacks!PushBack
    BY <2>3, <2>4 DEF Stacks!PushBack, Stacks!Chunk
  <2> QED
    BY <2>3, <2>5 DEF VecOK
<1>4. CASE EnsureSpace
  <2>1. PICK n \in 0..MaxLen : vec' = ensure_space(vec, n)
    BY <1>4 DEF EnsureSpace
  <2>2. n \in Nat
    BY <1>0
  <2>3. WellFormed(vec') /\ FrontBytes(vec') = FrontBytes(vec) /\ BackBytes(vec') = BackBytes(vec)
    BY <1>0, <2>1, <2>2, EnsureProps
  <2> QED
    BY <2>3 DEF VecOK
<1>5. CASE ScratchPush
  <2>1. PICK bytes \in Chunks : vec' = scratch_push_small(vec, bytes)
    BY <1>5 DEF ScratchPush
  <2>2. PICK len \in 0..MaxLen : bytes \in [1..len -> Cell]
    BY ChunkBytes
  <2>3. len \in Nat
    BY <1>0
  <2>4. /\ WellFormed(vec') /\ BackBytes(vec') = BackBytes(vec)
        /\ FrontBytes(vec') = Stacks!Extended(FrontBytes(vec), bytes)
    BY <1>0, <2>1, <2>2, <2>3, ScratchPushProps
  <2>5. Stacks!PushFront
    BY <2>2, <2>4 DEF Stacks!PushFront, Stacks!Chunk
  <2> QED
    BY <2>4, <2>5 DEF VecOK
<1>6. CASE VecPop
  <2>1. PICK n \in 1..vec.size : vec' = pop(vec, n)
    BY <1>6 DEF VecPop
  <2>2. vec.size \in Nat /\ n \in 0..vec.size /\ Len(BackBytes(vec)) = vec.size
    BY <1>0, EndsAreSequences DEF WellFormed
  <2>3. /\ WellFormed(vec') /\ FrontBytes(vec') = FrontBytes(vec)
        /\ BackBytes(vec') = Stacks!Cut(BackBytes(vec), n)
    BY <1>0, <2>1, <2>2, PopProps
  <2>4. Stacks!PopBack
    BY <2>2, <2>3 DEF Stacks!PopBack
  <2> QED
    BY <2>3, <2>4 DEF VecOK
<1>7. CASE ScratchPop \/ ClearScratch
  <2>1. vec.scratch \in Nat /\ Len(FrontBytes(vec)) = vec.scratch
    BY <1>0, EndsAreSequences DEF WellFormed
  <2>2. PICK n \in 0..vec.scratch : vec' = scratch_pop(vec, n)
    BY <1>7, <2>1 DEF ScratchPop, ClearScratch, clear_scratch
  <2>3. /\ WellFormed(vec') /\ BackBytes(vec') = BackBytes(vec)
        /\ FrontBytes(vec') = Stacks!Cut(FrontBytes(vec), n)
    BY <1>0, <2>2, ScratchPopProps
  <2>4. Stacks!PopFront
    BY <2>1, <2>2, <2>3 DEF Stacks!PopFront
  <2> QED
    BY <2>3, <2>4 DEF VecOK
<1>8. CASE VecClear \/ Drop
  <2>1. WellFormed(vec') /\ BackBytes(vec') = <<>> /\ FrontBytes(vec') = <<>>
    BY <1>0, <1>8, ClearProps, FreshProps DEF VecClear, Drop
  <2>2. Stacks!Clear
    BY <2>1 DEF Stacks!Clear
  <2> QED
    BY <2>1, <2>2 DEF VecOK
<1>9. CASE UNCHANGED vec
  BY <1>0, <1>9 DEF VecOK
<1> QED
  BY <1>1, <1>2, <1>3, <1>4, <1>5, <1>6, <1>7, <1>8, <1>9 DEF VecNext

\* vector_downward: cur_, scratch_, size_ and reserved_ agree in every state,
\* the scratch pad never reaches the buffer, and the capacity is aligned.
THEOREM VectorConsistent == VecSpec => []VecOK
<1>1. VecInit => VecOK
  BY FreshProps DEF VecInit, VecOK
<1>2. VecOK /\ [VecNext]_vec => VecOK'
  BY StepProps
<1> QED
  BY <1>1, <1>2, PTL DEF VecSpec

\* vector_downward implements two independent stacks: no reallocation, at any
\* growth, loses, moves or mixes a byte of either end.
THEOREM VectorActsAsTwoStacks == VecSpec => ActsAsTwoStacks
<1>1. VecInit => VecOK /\ Stacks!Init
  BY FreshProps DEF VecInit, VecOK, Stacks!Init
<1>2. VecOK /\ [VecNext]_vec => VecOK' /\ [Stacks!Next]_(Stacks!vars)
  BY StepProps
<1> QED
  BY <1>1, <1>2, PTL DEF VecSpec, ActsAsTwoStacks, Stacks!Spec

-------------------------------------------------------------------------------
(* Who owns a block *)

Record == [life : Lives, alloc : Allocators \cup {Default}, own : BOOLEAN,
           buf : Blocks \cup {NoBlock}]

OwnersTypeOK == /\ holder \in [Objects -> Record]
                /\ maker \in [Blocks -> Allocators \cup {Default, Nobody}]
                /\ alive \subseteq Allocators
                /\ raw \subseteq Blocks

(* Only a live object has a block or an allocator to delete, and what it has
   is still good. *)
ObjectOK(o) ==
    /\ holder[o].life # "live" => ~holder[o].own /\ holder[o].buf = NoBlock
    /\ holder[o].own => holder[o].alloc # Default
    /\ holder[o].life = "live" => holder[o].alloc \in alive \cup {Default}
    /\ holder[o].buf # NoBlock => /\ maker[holder[o].buf] = holder[o].alloc
                                  /\ holder[o].buf \notin raw

(* No two objects share a block, and no live object uses an allocator that
   another one will delete. *)
PairOK(o, p) ==
    o # p => /\ holder[o].buf = holder[p].buf => holder[o].buf = NoBlock
             /\ holder[o].own /\ holder[p].life = "live" => holder[p].alloc # holder[o].alloc

BlockOK(b) == /\ b \in raw => maker[b] # Nobody
              /\ maker[b] # Nobody /\ b \notin raw => \E o \in Objects : holder[o].buf = b

OwnersInv == /\ OwnersTypeOK
             /\ \A o \in Objects : ObjectOK(o)
             /\ \A o, p \in Objects : PairOK(o, p)
             /\ \A b \in Blocks : BlockOK(b)
-------------------------------------------------------------------------------
LEMMA InitOK == OwnersInit => OwnersInv
<1> SUFFICES ASSUME OwnersInit PROVE OwnersInv
  OBVIOUS
<1>1. OwnersTypeOK
  BY DEF OwnersInit, OwnersTypeOK, Gone, Record, Lives
<1>2. \A o \in Objects : ObjectOK(o)
  BY DEF OwnersInit, ObjectOK, Gone
<1>3. \A o, p \in Objects : PairOK(o, p)
  BY DEF OwnersInit, PairOK, Gone
<1>4. \A b \in Blocks : BlockOK(b)
  BY DEF OwnersInit, BlockOK
<1> QED
  BY <1>1, <1>2, <1>3, <1>4 DEF OwnersInv

(* What the types say of one object. *)
LEMMA Fields ==
  ASSUME OwnersInv, NEW o \in Objects
  PROVE  /\ holder[o] \in Record
         /\ holder[o].buf \in Blocks \cup {NoBlock}
         /\ holder[o].alloc \in Allocators \cup {Default}
         /\ holder[o].alloc # Nobody
         /\ holder[o].buf # NoBlock => maker[holder[o].buf] # Nobody
<1>1. /\ holder[o] \in Record
      /\ holder[o].buf \in Blocks \cup {NoBlock}
      /\ holder[o].alloc \in Allocators \cup {Default}
  BY DEF OwnersInv, OwnersTypeOK, Record
<1>2. holder[o].alloc # Nobody
  BY <1>1, OwnersConstants
<1> QED
  BY <1>1, <1>2 DEF OwnersInv, ObjectOK

LEMMA ConstructOK ==
  ASSUME NEW v \in Vectors, OwnersInv, Construct(v)  PROVE  OwnersInv'
<1>1. PICK a \in alive \cup {Default}, own \in BOOLEAN :
        /\ own => a # Default
        /\ \A o \in Objects : holder[o].alloc = a => a = Default
        /\ holder' = [holder EXCEPT
              ![v] = [life |-> "live", alloc |-> a, own |-> own, buf |-> NoBlock]]
  BY DEF Construct
<1>2. v \in Objects /\ holder[v].life = "none" /\ UNCHANGED <<maker, alive, raw>>
  BY DEF Construct, Objects, Is
<1>3. OwnersTypeOK'
  BY <1>1, <1>2 DEF OwnersInv, OwnersTypeOK, Record, Lives
<1>4. /\ holder'[v] = [life |-> "live", alloc |-> a, own |-> own, buf |-> NoBlock]
      /\ \A o \in Objects : o # v => holder'[o] = holder[o]
  BY <1>1, <1>2 DEF OwnersInv, OwnersTypeOK
<1>5. \A o \in Objects : ObjectOK(o)'
  BY <1>1, <1>2, <1>4 DEF OwnersInv, ObjectOK
<1>6. \A o, p \in Objects : PairOK(o, p)'
  BY <1>1, <1>2, <1>4 DEF OwnersInv, ObjectOK, PairOK
<1>7. \A b \in Blocks : BlockOK(b)'
  BY <1>1, <1>2, <1>4, OwnersConstants DEF OwnersInv, ObjectOK, BlockOK
<1> QED
  BY <1>3, <1>5, <1>6, <1>7 DEF OwnersInv

LEMMA GrowOK ==
  ASSUME NEW v \in Vectors, OwnersInv, Grow(v)  PROVE  OwnersInv'
<1>1. PICK b \in Free :
        /\ holder' = [holder EXCEPT ![v] = Holding(@, b)]
        /\ maker' = [Freed(maker, holder[v]) EXCEPT ![b] = holder[v].alloc]
  BY DEF Grow
<1>2. /\ v \in Objects /\ holder[v].life = "live" /\ UNCHANGED <<alive, raw>>
      /\ b \in Blocks /\ maker[b] = Nobody
  BY <1>1 DEF Grow, Objects, Is, Free
<1>3. OwnersTypeOK'
  BY <1>1, <1>2 DEF OwnersInv, OwnersTypeOK, Record, Lives, Holding, Freed
<1>4. /\ holder'[v].life = "live" /\ holder'[v].alloc = holder[v].alloc
      /\ holder'[v].own = holder[v].own /\ holder'[v].buf = b
      /\ \A o \in Objects : o # v => holder'[o] = holder[o]
  BY <1>1, <1>2 DEF OwnersInv, OwnersTypeOK, Holding
<1>5. \A c \in Blocks : maker'[c] = IF c = b THEN holder[v].alloc
                                    ELSE IF c = holder[v].buf THEN Nobody ELSE maker[c]
  BY <1>1, <1>2 DEF Freed
<1>6. holder[v].alloc # Nobody /\ b # NoBlock
  BY <1>2, Fields, OwnersConstants
<1>7. \A o \in Objects : holder[o].buf # b
  BY <1>2, <1>6, Fields
<1>8. ASSUME NEW o \in Objects PROVE ObjectOK(o)'
  <2>1. CASE o = v
    <3>1. b \notin raw
      BY <1>2 DEF OwnersInv, BlockOK
    <3>2. holder[v].own => holder[v].alloc # Default
      BY <1>2 DEF OwnersInv, ObjectOK
    <3>3. holder[v].alloc \in alive \cup {Default}
      BY <1>2 DEF OwnersInv, ObjectOK
    <3> QED
      BY <2>1, <1>2, <1>4, <1>5, <3>1, <3>2, <3>3 DEF ObjectOK
  <2>2. CASE o # v
    <3>1. ObjectOK(o) /\ holder'[o] = holder[o]
      BY <2>2, <1>4 DEF OwnersInv
    <3>2. holder[o].buf # NoBlock => maker'[holder[o].buf] = maker[holder[o].buf]
      BY <2>2, <1>2, <1>5, <1>7, Fields DEF OwnersInv, PairOK
    <3> QED
      BY <1>2, <3>1, <3>2 DEF ObjectOK
  <2> QED
    BY <2>1, <2>2
<1>9. \A o, p \in Objects : PairOK(o, p)'
  BY <1>2, <1>4, <1>7 DEF OwnersInv, PairOK
<1>10. ASSUME NEW c \in Blocks PROVE BlockOK(c)'
  <2>1. BlockOK(c)
    BY DEF OwnersInv
  <2>2. CASE c = b
    BY <2>2, <1>2, <1>4, <1>5, <1>6 DEF BlockOK
  <2>3. CASE c # b /\ c = holder[v].buf
    <3>1. c \notin raw
      BY <1>2, <2>3, OwnersConstants DEF OwnersInv, ObjectOK
    <3> QED
      BY <2>3, <3>1, <1>2, <1>5 DEF BlockOK
  <2>4. CASE c # b /\ c # holder[v].buf
    <3>1. maker'[c] = maker[c] /\ raw' = raw
      BY <2>4, <1>2, <1>5
    <3>2. ASSUME NEW o \in Objects, holder[o].buf = c PROVE holder'[o].buf = c
      BY <3>2, <2>4, <1>4
    <3> QED
      BY <2>1, <3>1, <3>2 DEF BlockOK
  <2> QED
    BY <2>2, <2>3, <2>4
<1> QED
  BY <1>3, <1>8, <1>9, <1>10 DEF OwnersInv

(* An object dies: the assignments and the destructors. *)
LEMMA FreedOK ==
  ASSUME NEW v \in Objects, OwnersInv
  PROVE  /\ Freed(maker, holder[v]) \in [Blocks -> Allocators \cup {Default, Nobody}]
         /\ Deleted(alive, holder[v]) \subseteq Allocators
         /\ \A b \in Blocks : Freed(maker, holder[v])[b]
                               = IF b = holder[v].buf THEN Nobody ELSE maker[b]
         /\ \A o \in Objects : o # v /\ holder[o].life = "live"
               => holder[o].alloc \in Deleted(alive, holder[v]) \cup {Default}
         /\ \A o \in Objects : o # v /\ holder[o].buf # NoBlock
               => Freed(maker, holder[v])[holder[o].buf] = holder[o].alloc
<1>1. /\ Freed(maker, holder[v]) \in [Blocks -> Allocators \cup {Default, Nobody}]
      /\ \A b \in Blocks : Freed(maker, holder[v])[b]
                            = IF b = holder[v].buf THEN Nobody ELSE maker[b]
  BY DEF OwnersInv, OwnersTypeOK, Freed
<1>2. Deleted(alive, holder[v]) \subseteq Allocators
  BY DEF OwnersInv, OwnersTypeOK, Deleted
<1>3. ASSUME NEW o \in Objects, o # v, holder[o].life = "live"
      PROVE  holder[o].alloc \in Deleted(alive, holder[v]) \cup {Default}
  BY <1>3 DEF OwnersInv, ObjectOK, PairOK, Deleted
<1>4. ASSUME NEW o \in Objects, o # v, holder[o].buf # NoBlock
      PROVE  Freed(maker, holder[v])[holder[o].buf] = holder[o].alloc
  <2>1. holder[o].buf \in Blocks /\ holder[o].buf # holder[v].buf
    BY <1>4, Fields DEF OwnersInv, PairOK
  <2> QED
    BY <1>1, <1>4, <2>1 DEF OwnersInv, ObjectOK
<1> QED
  BY <1>1, <1>2, <1>3, <1>4

(* v takes what w had, after v's own contents have died; w has no block left,
   and at most the use of its allocator. *)
LEMMA TakeOver ==
  ASSUME NEW v \in Objects, NEW w \in Objects, v # w, OwnersInv,
         holder[w].life = "live",
         NEW left \in Record, ~left.own, left.buf = NoBlock,
         left.life = "live" => \/ left.alloc = Default
                               \/ left.alloc = holder[w].alloc /\ ~holder[w].own,
         holder' = [holder EXCEPT ![v] = holder[w], ![w] = left],
         maker' = Freed(maker, holder[v]),
         alive' = Deleted(alive, holder[v]),
         raw' = raw
  PROVE  OwnersInv'
<1>1. OwnersTypeOK'
  BY FreedOK, Fields DEF OwnersInv, OwnersTypeOK
<1>2. /\ holder'[v] = holder[w] /\ holder'[w] = left
      /\ \A o \in Objects : o # v /\ o # w => holder'[o] = holder[o]
  BY DEF OwnersInv, OwnersTypeOK
<1>3. \A o \in Objects : ObjectOK(o)'
  <2> SUFFICES ASSUME NEW o \in Objects PROVE ObjectOK(o)'
    OBVIOUS
  <2>1. CASE o = v
    BY <2>1, <1>2, FreedOK DEF OwnersInv, ObjectOK
  <2>2. CASE o = w
    BY <2>2, <1>2, FreedOK DEF ObjectOK
  <2>3. CASE o # v /\ o # w
    <3>1. ObjectOK(o) /\ holder'[o] = holder[o]
      BY <2>3, <1>2 DEF OwnersInv
    <3>2. holder[o].life = "live" => holder[o].alloc \in alive' \cup {Default}
      BY <2>3, FreedOK
    <3>3. holder[o].buf # NoBlock => maker'[holder[o].buf] = holder[o].alloc
      BY <2>3, FreedOK
    <3> QED
      BY <3>1, <3>2, <3>3 DEF ObjectOK
  <2> QED
    BY <2>1, <2>2, <2>3
<1>4. ASSUME NEW o \in Objects, NEW p \in Objects PROVE PairOK(o, p)'
  <2>1. CASE o = w
    BY <2>1, <1>2 DEF PairOK
  <2>2. CASE p = w /\ o # w
    <3>1. CASE o = v
      BY <3>1, <2>2, <1>2 DEF OwnersInv, ObjectOK, PairOK
    <3>2. CASE o # v
      <4>1. ObjectOK(o) /\ PairOK(o, w) /\ holder'[o] = holder[o]
        BY <3>2, <2>2, <1>2 DEF OwnersInv
      <4> QED
        BY <4>1, <2>2, <1>2 DEF ObjectOK, PairOK
    <3> QED
      BY <3>1, <3>2
  <2>3. CASE o = v /\ p # w
    <3>1. p # v => PairOK(w, p) /\ holder'[p] = holder[p]
      BY <2>3, <1>2 DEF OwnersInv
    <3> QED
      BY <2>3, <3>1, <1>2 DEF PairOK
  <2>4. CASE p = v /\ o # w
    <3>1. o # v => PairOK(o, w) /\ holder'[o] = holder[o]
      BY <2>4, <1>2 DEF OwnersInv
    <3> QED
      BY <2>4, <3>1, <1>2 DEF PairOK
  <2>5. CASE o \notin {v, w} /\ p \notin {v, w}
    <3>1. PairOK(o, p) /\ holder'[o] = holder[o] /\ holder'[p] = holder[p]
      BY <2>5, <1>2 DEF OwnersInv
    <3> QED
      BY <3>1 DEF PairOK
  <2> QED
    BY <2>1, <2>2, <2>3, <2>4, <2>5
<1>5. ASSUME NEW b \in Blocks PROVE BlockOK(b)'
  <2>1. CASE b = holder[v].buf
    BY <2>1, FreedOK, OwnersConstants DEF OwnersInv, ObjectOK, BlockOK
  <2>2. CASE b # holder[v].buf
    <3>1. BlockOK(b) /\ maker'[b] = maker[b] /\ raw' = raw
      BY <2>2, FreedOK DEF OwnersInv
    <3>2. ASSUME NEW o \in Objects, holder[o].buf = b
          PROVE  \E q \in Objects : holder'[q].buf = b
      BY <3>2, <2>2, <1>2
    <3> QED
      BY <3>1, <3>2 DEF BlockOK
  <2> QED
    BY <2>1, <2>2
<1> QED
  BY <1>1, <1>3, <1>4, <1>5 DEF OwnersInv

(* The death of an object that is not live changes nothing. *)
LEMMA NothingToFree ==
  ASSUME NEW v \in Objects, OwnersInv, holder[v].life # "live"
  PROVE  Freed(maker, holder[v]) = maker /\ Deleted(alive, holder[v]) = alive
<1>1. ~holder[v].own /\ \A b \in Blocks : b # holder[v].buf
  BY OwnersConstants DEF OwnersInv, ObjectOK
<1>2. maker = [b \in Blocks |-> maker[b]]
  BY DEF OwnersInv, OwnersTypeOK
<1>3. Freed(maker, holder[v]) = [b \in Blocks |-> maker[b]]
  BY <1>1 DEF Freed
<1> QED
  BY <1>1, <1>2, <1>3 DEF Deleted

LEMMA MoveConstructOK ==
  ASSUME NEW v \in Vectors, NEW w \in Vectors, OwnersInv, MoveConstruct(v, w)
  PROVE  OwnersInv'
<1>1. /\ v \in Objects /\ w \in Objects /\ v # w
      /\ holder[v].life # "live" /\ holder[w].life = "live"
      /\ holder' = [holder EXCEPT ![v] = holder[w], ![w] = MovedFrom(holder[w])]
      /\ maker' = maker /\ alive' = alive /\ raw' = raw
  BY DEF MoveConstruct, Objects, Is
<1> DEFINE left == MovedFrom(holder[w])
<1>2. left \in Record /\ left.life # "live" /\ ~left.own /\ left.buf = NoBlock
  BY <1>1, Fields DEF MovedFrom, Record, Lives
<1> HIDE DEF left
<1>3. holder' = [holder EXCEPT ![v] = holder[w], ![w] = left]
  BY <1>1 DEF left
<1>4. maker' = Freed(maker, holder[v]) /\ alive' = Deleted(alive, holder[v])
  BY <1>1, NothingToFree
<1> QED
  BY <1>1, <1>2, <1>3, <1>4, TakeOver

LEMMA MoveAssignOK ==
  ASSUME NEW v \in Vectors, NEW w \in Vectors, OwnersInv, MoveAssign(v, w)
  PROVE  OwnersInv'
<1>1. /\ v \in Objects /\ w \in Objects /\ v # w /\ holder[w].life = "live"
      /\ holder' = [holder EXCEPT ![v] = holder[w], ![w] = MovedFrom(holder[w])]
      /\ maker' = Freed(maker, holder[v])
      /\ alive' = Deleted(alive, holder[v])
      /\ raw' = raw
  BY DEF MoveAssign, Objects, Is
<1> DEFINE left == MovedFrom(holder[w])
<1>2. left \in Record /\ left.life # "live" /\ ~left.own /\ left.buf = NoBlock
  BY <1>1, Fields DEF MovedFrom, Record, Lives
<1> HIDE DEF left
<1>3. holder' = [holder EXCEPT ![v] = holder[w], ![w] = left]
  BY <1>1 DEF left
<1> QED
  BY <1>1, <1>2, <1>3, TakeOver

LEMMA BoxMoveOK ==
  ASSUME NEW d \in Boxes, NEW e \in Boxes, OwnersInv, BoxMove(d, e)
  PROVE  OwnersInv'
<1>1. /\ d \in Objects /\ e \in Objects /\ d # e /\ holder[e].life = "live"
      /\ holder' = [holder EXCEPT ![d] = holder[e], ![e] = Gone]
      /\ maker' = Freed(maker, holder[d])
      /\ alive' = Deleted(alive, holder[d])
      /\ raw' = raw
  BY DEF BoxMove, Objects, Is
<1>2. Gone \in Record /\ Gone.life # "live" /\ ~Gone.own /\ Gone.buf = NoBlock
  BY DEF Gone, Record, Lives
<1> QED
  BY <1>1, <1>2, TakeOver

LEMMA ReleaseOK ==
  ASSUME NEW v \in Vectors, NEW d \in Boxes, OwnersInv, Release(v, d)
  PROVE  OwnersInv'
<1> DEFINE rest == IF holder[v].own THEN Default ELSE holder[v].alloc
           left == [life |-> "live", alloc |-> rest, own |-> FALSE, buf |-> NoBlock]
<1>1. /\ v \in Objects /\ d \in Objects /\ v # d
      /\ holder[v].life = "live" /\ holder[d].life # "live"
      /\ holder' = [holder EXCEPT ![d] = holder[v], ![v] = left]
      /\ maker' = maker /\ alive' = alive /\ raw' = raw
  BY OwnersConstants DEF Release, Objects, Is
<1>2. rest = Default \/ (rest = holder[v].alloc /\ ~holder[v].own)
  OBVIOUS
<1>3. rest \in Allocators \cup {Default}
  BY <1>1, <1>2, Fields
<1> HIDE DEF rest
<1>4. left \in Record /\ ~left.own /\ left.buf = NoBlock /\ left.alloc = rest
  BY <1>3 DEF Record, Lives
<1> HIDE DEF left
<1>5. maker' = Freed(maker, holder[d]) /\ alive' = Deleted(alive, holder[d])
  BY <1>1, NothingToFree
<1> QED
  BY <1>1, <1>2, <1>3, <1>4, <1>5, TakeOver

LEMMA SwapOK ==
  ASSUME NEW v \in Vectors, NEW w \in Vectors, OwnersInv, Swap(v, w)
  PROVE  OwnersInv'
<1>1. /\ v \in Objects /\ w \in Objects
      /\ holder' = [holder EXCEPT ![v] = holder[w], ![w] = holder[v]]
      /\ UNCHANGED <<maker, alive, raw>>
  BY DEF Swap, Objects
<1>2. OwnersTypeOK'
  BY <1>1 DEF OwnersInv, OwnersTypeOK
<1> DEFINE Other(o) == IF o = v THEN w ELSE IF o = w THEN v ELSE o
<1>3. \A o \in Objects : Other(o) \in Objects /\ holder'[o] = holder[Other(o)]
  BY <1>1 DEF OwnersInv, OwnersTypeOK
<1>4. \A o, p \in Objects : /\ o # p => Other(o) # Other(p)
                            /\ Other(Other(o)) = o
  BY <1>1
<1> HIDE DEF Other
<1>5. ASSUME NEW o \in Objects PROVE ObjectOK(o)'
  <2>1. ObjectOK(Other(o)) /\ holder'[o] = holder[Other(o)]
    BY <1>3 DEF OwnersInv
  <2> QED
    BY <1>1, <2>1 DEF ObjectOK
<1>6. ASSUME NEW o \in Objects, NEW p \in Objects PROVE PairOK(o, p)'
  <2>1. PICK q \in Objects, r \in Objects :
          /\ o # p => q # r
          /\ holder'[o] = holder[q] /\ holder'[p] = holder[r]
    BY <1>3, <1>4
  <2>2. PairOK(q, r)
    BY DEF OwnersInv
  <2>3. ASSUME o # p, holder'[o].buf = holder'[p].buf PROVE holder'[o].buf = NoBlock
    BY <2>1, <2>2, <2>3 DEF PairOK
  <2>4. ASSUME o # p, holder'[o].own, holder'[p].life = "live"
        PROVE  holder'[p].alloc # holder'[o].alloc
    BY <2>1, <2>2, <2>4 DEF PairOK
  <2> QED
    BY <2>3, <2>4 DEF PairOK
<1>7. ASSUME NEW b \in Blocks PROVE BlockOK(b)'
  <2>1. BlockOK(b)
    BY DEF OwnersInv
  <2>2. ASSUME NEW o \in Objects, holder[o].buf = b
        PROVE  \E q \in Objects : holder'[q].buf = b
    <3>1. Other(o) \in Objects /\ holder'[Other(o)] = holder[o]
      BY <1>3, <1>4
    <3> QED
      BY <2>2, <3>1
  <2> QED
    BY <1>1, <2>1, <2>2 DEF BlockOK
<1> QED
  BY <1>2, <1>5, <1>6, <1>7 DEF OwnersInv

LEMMA AdoptOK ==
  ASSUME NEW m \in Vectors, NEW src \in Vectors, OwnersInv, Adopt(m, src)
  PROVE  OwnersInv'
<1>1. /\ m \in Objects /\ src \in Objects /\ m # src
      /\ holder[m].life = "live" /\ holder[src].life = "live"
      /\ ~holder[m].own /\ holder[m].buf = NoBlock
      /\ holder[src].alloc = Default
      /\ holder' = [holder EXCEPT ![m] = Holding(@, holder[src].buf),
                                  ![src] = Holding(@, NoBlock)]
      /\ maker' = [b \in Blocks |-> IF b = holder[src].buf THEN holder[m].alloc ELSE maker[b]]
      /\ UNCHANGED <<alive, raw>>
  BY DEF Adopt, Objects, Is
<1>2. Holding(holder[m], holder[src].buf) \in Record /\ Holding(holder[src], NoBlock) \in Record
  BY <1>1, Fields DEF Holding, Record
<1>3. /\ holder' \in [Objects -> Record]
      /\ holder'[m] = Holding(holder[m], holder[src].buf)
      /\ holder'[src] = Holding(holder[src], NoBlock)
      /\ \A o \in Objects : o # m /\ o # src => holder'[o] = holder[o]
  BY <1>1, <1>2 DEF OwnersInv, OwnersTypeOK
<1>4. /\ maker' \in [Blocks -> Allocators \cup {Default, Nobody}]
      /\ \A b \in Blocks : maker'[b] = IF b = holder[src].buf THEN holder[m].alloc ELSE maker[b]
  BY <1>1, Fields DEF OwnersInv, OwnersTypeOK
<1>5. OwnersTypeOK'
  BY <1>1, <1>3, <1>4 DEF OwnersInv, OwnersTypeOK
<1>6. ASSUME NEW o \in Objects PROVE ObjectOK(o)'
  <2>1. CASE o = m
    <3>1. ObjectOK(m) /\ ObjectOK(src) /\ holder[src].buf \in Blocks \cup {NoBlock}
      BY <1>1, Fields DEF OwnersInv
    <3> QED
      BY <2>1, <1>1, <1>3, <1>4, <3>1 DEF ObjectOK, Holding
  <2>2. CASE o = src
    <3>1. ObjectOK(src)
      BY <1>1 DEF OwnersInv
    <3> QED
      BY <2>2, <1>1, <1>3, <3>1 DEF ObjectOK, Holding
  <2>3. CASE o # m /\ o # src
    <3>1. ObjectOK(o) /\ holder'[o] = holder[o]
      BY <2>3, <1>3 DEF OwnersInv
    <3>2. holder[o].buf # NoBlock => maker'[holder[o].buf] = maker[holder[o].buf]
      BY <2>3, <1>1, <1>4, Fields DEF OwnersInv, PairOK
    <3>3. alive' = alive /\ raw' = raw
      BY <1>1
    <3> QED
      BY <3>1, <3>2, <3>3 DEF ObjectOK
  <2> QED
    BY <2>1, <2>2, <2>3
<1>7. ASSUME NEW o \in Objects, NEW p \in Objects PROVE PairOK(o, p)'
  <2>1. /\ PairOK(o, p) /\ PairOK(src, p) /\ PairOK(o, src)
        /\ ObjectOK(o) /\ ObjectOK(p)
    BY <1>1 DEF OwnersInv
  <2>2. /\ holder'[o].own = holder[o].own /\ holder'[o].alloc = holder[o].alloc
        /\ holder'[p].life = holder[p].life /\ holder'[p].alloc = holder[p].alloc
    BY <1>3 DEF Holding
  <2>3. ASSUME o # p, holder'[o].buf = holder'[p].buf PROVE holder'[o].buf = NoBlock
    BY <2>1, <2>3, <1>1, <1>3 DEF PairOK, Holding
  <2> QED
    BY <2>1, <2>2, <2>3 DEF PairOK
<1>8. ASSUME NEW b \in Blocks PROVE BlockOK(b)'
  <2>1. BlockOK(b) /\ holder[m].alloc # Nobody /\ b # NoBlock
    BY <1>1, Fields, OwnersConstants DEF OwnersInv
  <2>2. CASE b = holder[src].buf
    <3>1. holder'[m].buf = b /\ maker'[b] # Nobody
      BY <2>1, <2>2, <1>3, <1>4 DEF Holding
    <3> QED
      BY <1>1, <3>1 DEF BlockOK
  <2>3. CASE b # holder[src].buf
    <3>1. maker'[b] = maker[b] /\ raw' = raw
      BY <2>3, <1>1, <1>4
    <3>2. ASSUME NEW o \in Objects, holder[o].buf = b PROVE holder'[o].buf = b
      BY <3>2, <2>1, <2>3, <1>1, <1>3
    <3> QED
      BY <2>1, <3>1, <3>2 DEF BlockOK
  <2> QED
    BY <2>2, <2>3
<1> QED
  BY <1>5, <1>6, <1>7, <1>8 DEF OwnersInv

(* An object loses its block: what is left of it is good, and only the block's
   own fate is new. *)
LEMMA Loses ==
  ASSUME NEW v \in Objects, NEW left \in Record, OwnersInv,
         holder' = [holder EXCEPT ![v] = left], left.buf = NoBlock,
         OwnersTypeOK', ObjectOK(v)',
         left.own => holder[v].own /\ left.alloc = holder[v].alloc,
         left.life = "live" => holder[v].life = "live" /\ left.alloc = holder[v].alloc,
         \A o \in Objects : o # v => ObjectOK(o)',
         \A b \in Blocks : b # holder[v].buf
                             => maker'[b] = maker[b] /\ (b \in raw' <=> b \in raw),
         holder[v].buf # NoBlock =>
            (holder[v].buf \in raw' <=> maker'[holder[v].buf] # Nobody)
  PROVE  OwnersInv'
<1>1. /\ holder'[v] = left
      /\ \A o \in Objects : o # v => holder'[o] = holder[o]
  BY DEF OwnersInv, OwnersTypeOK
<1>2. ASSUME NEW o \in Objects, NEW p \in Objects PROVE PairOK(o, p)'
  <2>1. PairOK(o, p)
    BY DEF OwnersInv
  <2>2. ASSUME o # p, holder'[o].buf = holder'[p].buf PROVE holder'[o].buf = NoBlock
    BY <1>1, <2>1, <2>2 DEF PairOK
  <2>3. ASSUME o # p, holder'[o].own, holder'[p].life = "live"
        PROVE  holder'[p].alloc # holder'[o].alloc
    <3>1. /\ holder[o].own /\ holder'[o].alloc = holder[o].alloc
          /\ holder[p].life = "live" /\ holder'[p].alloc = holder[p].alloc
      BY <2>3, <1>1
    <3> QED
      BY <2>1, <2>3, <3>1 DEF PairOK
  <2> QED
    BY <2>2, <2>3 DEF PairOK
<1>3. ASSUME NEW b \in Blocks PROVE BlockOK(b)'
  <2>1. BlockOK(b) /\ b # NoBlock
    BY OwnersConstants DEF OwnersInv
  <2>2. CASE b = holder[v].buf
    BY <2>1, <2>2 DEF BlockOK
  <2>3. CASE b # holder[v].buf
    <3>1. maker'[b] = maker[b] /\ (b \in raw' <=> b \in raw)
      BY <2>3
    <3>2. ASSUME NEW o \in Objects, holder[o].buf = b PROVE holder'[o].buf = b
      BY <3>2, <2>3, <1>1
    <3> QED
      BY <2>1, <3>1, <3>2 DEF BlockOK
  <2> QED
    BY <2>2, <2>3
<1>4. \A o \in Objects : ObjectOK(o)'
  OBVIOUS
<1> QED
  BY <1>2, <1>3, <1>4 DEF OwnersInv

LEMMA ReleaseRawOK ==
  ASSUME NEW v \in Vectors, OwnersInv, ReleaseRaw(v)  PROVE  OwnersInv'
<1> DEFINE left == Holding(holder[v], NoBlock)
<1>1. /\ v \in Objects /\ holder[v].life = "live" /\ holder[v].buf # NoBlock
      /\ holder' = [holder EXCEPT ![v] = left]
      /\ maker' = maker /\ alive' = alive /\ raw' = raw \cup {holder[v].buf}
  BY DEF ReleaseRaw, Objects, Is
<1>2. /\ left \in Record /\ left.buf = NoBlock /\ left.life = holder[v].life
      /\ left.own = holder[v].own /\ left.alloc = holder[v].alloc
  BY <1>1, Fields DEF Holding, Record
<1> HIDE DEF left
<1>3. /\ holder'[v] = left /\ OwnersTypeOK'
      /\ \A o \in Objects : o # v => holder'[o] = holder[o]
  BY <1>1, <1>2, Fields DEF OwnersInv, OwnersTypeOK
<1>4. ObjectOK(v)'
  <2>1. ObjectOK(v)
    BY <1>1 DEF OwnersInv
  <2> QED
    BY <2>1, <1>1, <1>2, <1>3 DEF ObjectOK
<1>5. ASSUME NEW o \in Objects, o # v PROVE ObjectOK(o)'
  <2>1. ObjectOK(o) /\ PairOK(o, v) /\ holder'[o] = holder[o]
    BY <1>1, <1>3, <1>5 DEF OwnersInv
  <2>2. holder[o].buf # holder[v].buf
    BY <2>1, <1>1, <1>5 DEF PairOK
  <2>3. maker' = maker /\ alive' = alive /\ (holder[o].buf \in raw' => holder[o].buf \in raw)
    BY <1>1, <2>2
  <2> QED
    BY <2>1, <2>3 DEF ObjectOK
<1>6. /\ \A b \in Blocks : b # holder[v].buf
                            => maker'[b] = maker[b] /\ (b \in raw' <=> b \in raw)
      /\ holder[v].buf \in raw' /\ maker'[holder[v].buf] # Nobody
  BY <1>1, Fields
<1> QED
  BY <1>1, <1>2, <1>3, <1>4, <1>5, <1>6, Loses

LEMMA ResetOK ==
  ASSUME NEW v \in Vectors, OwnersInv, Reset(v)  PROVE  OwnersInv'
<1> DEFINE left == Holding(holder[v], NoBlock)
<1>1. /\ v \in Objects /\ holder[v].life = "live"
      /\ holder' = [holder EXCEPT ![v] = left]
      /\ maker' = Freed(maker, holder[v]) /\ alive' = alive /\ raw' = raw
  BY DEF Reset, Objects, Is
<1>2. /\ left \in Record /\ left.buf = NoBlock /\ left.life = holder[v].life
      /\ left.own = holder[v].own /\ left.alloc = holder[v].alloc
  BY <1>1, Fields DEF Holding, Record
<1> HIDE DEF left
<1>3. /\ holder'[v] = left /\ OwnersTypeOK'
      /\ \A o \in Objects : o # v => holder'[o] = holder[o]
  BY <1>1, <1>2, FreedOK DEF OwnersInv, OwnersTypeOK
<1>4. ObjectOK(v)'
  <2>1. ObjectOK(v)
    BY <1>1 DEF OwnersInv
  <2> QED
    BY <2>1, <1>1, <1>2, <1>3 DEF ObjectOK
<1>5. ASSUME NEW o \in Objects, o # v PROVE ObjectOK(o)'
  <2>1. ObjectOK(o) /\ holder'[o] = holder[o] /\ alive' = alive /\ raw' = raw
    BY <1>1, <1>3, <1>5 DEF OwnersInv
  <2>2. holder[o].buf # NoBlock => maker'[holder[o].buf] = holder[o].alloc
    BY <1>1, <1>5, FreedOK
  <2> QED
    BY <2>1, <2>2 DEF ObjectOK
<1>6. /\ \A b \in Blocks : b # holder[v].buf
                            => maker'[b] = maker[b] /\ (b \in raw' <=> b \in raw)
      /\ holder[v].buf # NoBlock =>
            holder[v].buf \notin raw' /\ maker'[holder[v].buf] = Nobody
  <2>1. ObjectOK(v) /\ holder[v].buf \in Blocks \cup {NoBlock}
    BY <1>1, Fields DEF OwnersInv
  <2> QED
    BY <1>1, <2>1, FreedOK DEF ObjectOK
<1> QED
  BY <1>1, <1>2, <1>3, <1>4, <1>5, <1>6, Loses

LEMMA DestroyOK ==
  ASSUME NEW v \in Objects, OwnersInv, Destroy(v)  PROVE  OwnersInv'
<1>1. /\ holder' = [holder EXCEPT ![v] = Gone]
      /\ maker' = Freed(maker, holder[v])
      /\ alive' = Deleted(alive, holder[v]) /\ raw' = raw
  BY DEF Destroy
<1>2. Gone \in Record /\ Gone.buf = NoBlock /\ Gone.life # "live" /\ ~Gone.own
  BY DEF Gone, Record, Lives
<1>3. /\ holder'[v] = Gone /\ OwnersTypeOK'
      /\ \A o \in Objects : o # v => holder'[o] = holder[o]
  BY <1>1, <1>2, FreedOK DEF OwnersInv, OwnersTypeOK
<1>4. ObjectOK(v)'
  BY <1>2, <1>3 DEF ObjectOK
<1>5. ASSUME NEW o \in Objects, o # v PROVE ObjectOK(o)'
  <2>1. ObjectOK(o) /\ holder'[o] = holder[o] /\ raw' = raw
    BY <1>1, <1>3, <1>5 DEF OwnersInv
  <2>2. /\ holder[o].buf # NoBlock => maker'[holder[o].buf] = holder[o].alloc
        /\ holder[o].life = "live" => holder[o].alloc \in alive' \cup {Default}
    BY <1>1, <1>5, FreedOK
  <2> QED
    BY <2>1, <2>2 DEF ObjectOK
<1>6. /\ \A b \in Blocks : b # holder[v].buf
                            => maker'[b] = maker[b] /\ (b \in raw' <=> b \in raw)
      /\ holder[v].buf # NoBlock =>
            holder[v].buf \notin raw' /\ maker'[holder[v].buf] = Nobody
  <2>1. ObjectOK(v) /\ holder[v].buf \in Blocks \cup {NoBlock}
    BY Fields DEF OwnersInv
  <2> QED
    BY <1>1, <2>1, FreedOK DEF ObjectOK
<1> QED
  BY <1>1, <1>2, <1>3, <1>4, <1>5, <1>6, Loses

LEMMA FreeRawOK ==
  ASSUME NEW b \in Blocks, OwnersInv, FreeRaw(b)  PROVE  OwnersInv'
<1>1. /\ b \in raw /\ raw' = raw \ {b} /\ maker' = [maker EXCEPT ![b] = Nobody]
      /\ holder' = holder /\ alive' = alive
  BY DEF FreeRaw
<1>2. OwnersTypeOK' /\ \A c \in Blocks : maker'[c] = IF c = b THEN Nobody ELSE maker[c]
  BY <1>1 DEF OwnersInv, OwnersTypeOK
<1>3. ASSUME NEW o \in Objects PROVE ObjectOK(o)'
  <2>1. ObjectOK(o) /\ holder[o].buf \in Blocks \cup {NoBlock}
    BY Fields DEF OwnersInv
  <2>2. holder[o].buf # NoBlock => holder[o].buf # b
    BY <2>1, <1>1 DEF ObjectOK
  <2> QED
    BY <1>1, <1>2, <2>1, <2>2 DEF ObjectOK
<1>4. \A o, p \in Objects : PairOK(o, p)'
  BY <1>1 DEF OwnersInv, PairOK
<1>5. \A c \in Blocks : BlockOK(c)'
  BY <1>1, <1>2 DEF OwnersInv, BlockOK
<1> QED
  BY <1>2, <1>3, <1>4, <1>5 DEF OwnersInv
-------------------------------------------------------------------------------
(* What the objects, the blocks and the allocators say of each other is kept
   by every call of vector_downward and DetachedBuffer. *)
THEOREM OwnersInvariance == OwnersSpec => []OwnersInv
<1>1. OwnersInv /\ [OwnersNext]_owners => OwnersInv'
  <2> SUFFICES ASSUME OwnersInv, [OwnersNext]_owners PROVE OwnersInv'
    OBVIOUS
  <2>1. CASE UNCHANGED owners
    BY <2>1 DEF owners, OwnersInv, OwnersTypeOK, ObjectOK, PairOK, BlockOK
  <2>2. CASE \E v \in Vectors : Construct(v) \/ Grow(v) \/ ReleaseRaw(v) \/ Reset(v)
    BY <2>2, ConstructOK, GrowOK, ReleaseRawOK, ResetOK
  <2>3. CASE \E v, w \in Vectors : \/ MoveConstruct(v, w) \/ MoveAssign(v, w)
                                  \/ Swap(v, w) \/ Adopt(v, w)
    BY <2>3, MoveConstructOK, MoveAssignOK, SwapOK, AdoptOK
  <2>4. CASE \E v \in Vectors, d \in Boxes : Release(v, d)
    BY <2>4, ReleaseOK
  <2>5. CASE \E d, e \in Boxes : BoxMove(d, e)
    BY <2>5, BoxMoveOK
  <2>6. CASE \E o \in Objects : Destroy(o)
    BY <2>6, DestroyOK
  <2>7. CASE \E b \in Blocks : FreeRaw(b)
    BY <2>7, FreeRawOK
  <2> QED
    BY <2>1, <2>2, <2>3, <2>4, <2>5, <2>6, <2>7 DEF OwnersNext
<1> QED
  BY InitOK, <1>1, PTL DEF OwnersSpec

LEMMA AtMostOne ==
  ASSUME NEW S, \A x, y \in S : x = y
  PROVE  Cardinality(S) = IF S = {} THEN 0 ELSE 1
<1>1. CASE S = {}
  BY <1>1, FS_EmptySet
<1>2. CASE S # {}
  <2>1. PICK x \in S : S = {x}
    BY <1>2
  <2> QED
    BY <2>1, FS_Singleton
<1> QED
  BY <1>1, <1>2

(* BufferOwners: every live block has one holder and a freed one none; an
   allocator that was handed over has one object to delete it. *)
THEOREM OneHolderTheorem == OwnersSpec => []OneHolder
<1>1. OwnersInv => OneHolder
  <2> SUFFICES ASSUME OwnersInv PROVE OneHolder
    OBVIOUS
  <2>1. ASSUME NEW b \in Blocks
        PROVE  Cardinality(HoldersOf(b)) + (IF b \in raw THEN 1 ELSE 0)
                 = (IF maker[b] = Nobody THEN 0 ELSE 1)
    <3>1. BlockOK(b) /\ b # NoBlock
      BY OwnersConstants DEF OwnersInv
    <3>2. \A x, y \in HoldersOf(b) : x = y
      BY <3>1 DEF HoldersOf, OwnersInv, PairOK
    <3>3. Cardinality(HoldersOf(b)) = IF HoldersOf(b) = {} THEN 0 ELSE 1
      BY <3>2, AtMostOne
    <3>4. ASSUME HoldersOf(b) # {} PROVE maker[b] # Nobody /\ b \notin raw
      <4>1. PICK o \in Objects : holder[o].buf = b
        BY <3>4 DEF HoldersOf
      <4> QED
        BY <4>1, <3>1, Fields DEF OwnersInv, ObjectOK
    <3>5. ASSUME HoldersOf(b) = {} PROVE b \in raw <=> maker[b] # Nobody
      BY <3>5, <3>1 DEF HoldersOf, BlockOK
    <3> QED
      BY <3>3, <3>4, <3>5
  <2>2. ASSUME NEW a \in Allocators
        PROVE  Cardinality(OwnersOf(a)) <= 1 /\ (OwnersOf(a) # {} => a \in alive)
    <3>1. \A x, y \in OwnersOf(a) : x = y
      BY DEF OwnersOf, OwnersInv, ObjectOK, PairOK
    <3>2. Cardinality(OwnersOf(a)) = IF OwnersOf(a) = {} THEN 0 ELSE 1
      BY <3>1, AtMostOne
    <3>3. ASSUME OwnersOf(a) # {} PROVE a \in alive
      <4>1. PICK o \in Objects : holder[o].own /\ holder[o].alloc = a
        BY <3>3 DEF OwnersOf
      <4>2. ObjectOK(o)
        BY DEF OwnersInv
      <4> QED
        BY <4>1, <4>2, OwnersConstants DEF ObjectOK
    <3> QED
      BY <3>2, <3>3
  <2> QED
    BY <2>1, <2>2 DEF OneHolder
<1> QED
  BY OwnersInvariance, <1>1, PTL

(* BufferOwners: a block goes back to the allocator it came from, which has
   not been deleted. *)
THEOREM MakerTheorem == OwnersSpec => []BackToItsMaker
<1>1. OwnersInv => BackToItsMaker
  <2> SUFFICES ASSUME OwnersInv, NEW o \in Objects, holder[o].buf # NoBlock
               PROVE  /\ holder[o].alloc = maker[holder[o].buf]
                      /\ holder[o].alloc \in alive \cup {Default}
    BY DEF BackToItsMaker
  <2>1. ObjectOK(o)
    BY DEF OwnersInv
  <2> QED
    BY <2>1 DEF ObjectOK
<1> QED
  BY OwnersInvariance, <1>1, PTL
=============================================================================
