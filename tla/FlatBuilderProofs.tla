------------------------- MODULE FlatBuilderProofs -------------------------
(***************************************************************************)
(* The verifier is sound: a buffer it accepts, whatever bytes are in it,   *)
(* can be read by the accessors to its last leaf.  The argument follows    *)
(* T::Verify(): what one field promises, that the checks of a table only   *)
(* ever turn ok off and leave the depth as it was, what a whole table      *)
(* promises, and from there one level of nested tables after the other.    *)
(* The second half is the builder: what it writes is bytes, so that the    *)
(* first half applies to its buffers, whatever happens to them.            *)
(***************************************************************************)
EXTENDS FlatBuilder, TLAPS, WellFoundedInduction, FiniteSetTheorems

(* A buffer of any length with any bytes in it. *)
IsMemory(m) == m.n \in Nat /\ \A p \in 0 .. m.n - 1 : At(m, p) \in 0 .. 255

-------------------------------------------------------------------------------
(* A non-empty set of numbers has a least element. *)
LEMMA Least ==
  ASSUME NEW S, S \subseteq Nat, S # {}
  PROVE  \E m \in S : \A k \in S : m <= k
<1>1. IsWellFoundedOn(OpToRel(<, Nat), Nat) BY NatLessThanWellFounded, Zenon
<1>2. PICK m \in S : \A k \in S : ~ (<<k, m>> \in OpToRel(<, Nat))
  BY <1>1, WFMin, Zenon
<1>3. \A k \in S : ~ (k < m) BY <1>2, Zenon DEF OpToRel
<1> QED BY <1>3

(* The equation that defines Verifiers has a solution. *)
LEMMA VerifiersDef ==
  ASSUME NEW m, max_depth \in Nat
  PROVE  Verifiers(m) = [l \in 0 .. max_depth |->
           [t \in Int |-> [v \in Counters |->
              IF l = 0 THEN VerifyTableStart(m, t, v)
              ELSE VerifyTable(m, t, v, Verifiers(m)[l - 1])]]]
<1> DEFINE Level(l, f) == [t \in Int |-> [v \in Counters |->
                             IF l = 0 THEN VerifyTableStart(m, t, v)
                             ELSE VerifyTable(m, t, v, f[l - 1])]]
           Fits(f, n) == f = [l \in 0 .. n |-> Level(l, f)]
           Bad == {n \in Nat : ~ \E f : Fits(f, n)}
<1>1. ASSUME NEW f, NEW g, NEW l, l # 0 => f[l - 1] = g[l - 1]
      PROVE  Level(l, f) = Level(l, g)
  <2>1. CASE l = 0
    BY <2>1, Zenon
  <2>2. CASE l # 0
    BY <1>1, <2>2, Zenon
  <2> QED
    BY <2>1, <2>2
<1> HIDE DEF Level
<1>2. ASSUME Bad # {} PROVE FALSE
  <2>1. PICK n \in Bad : \A k \in Bad : n <= k
    BY <1>2, Least
  <2>2. CASE n = 0
    <3> DEFINE f == [l \in 0 .. 0 |-> Level(l, <<>>)]
    <3>1. \A l \in 0 .. 0 : l = 0
      OBVIOUS
    <3>2. \A l \in 0 .. 0 : Level(l, <<>>) = Level(l, f)
      BY <3>1, <1>1
    <3> HIDE DEF f
    <3>3. f = [l \in 0 .. 0 |-> Level(l, f)]
      BY <3>2 DEF f
    <3> QED
      BY <2>1, <2>2, <3>3
  <2>3. CASE n # 0
    <3>1. n \in Nat /\ n - 1 \in Nat /\ ~ (n <= n - 1)
      BY <2>3
    <3>2. PICK f : Fits(f, n - 1)
      <4> HIDE DEF Fits
      <4>1. n - 1 \notin Bad
        BY <2>1, <3>1
      <4> QED
        BY <3>1, <4>1
    <3> DEFINE g == [l \in 0 .. n |-> IF l = n THEN Level(n, f) ELSE f[l]]
    <3>3. ASSUME NEW l \in 0 .. n PROVE g[l] = Level(l, g)
      <4>1. l # 0 => l - 1 \in 0 .. n - 1 /\ l - 1 \in 0 .. n /\ l - 1 # n
        BY <3>1
      <4>2. l # 0 => f[l - 1] = g[l - 1]
        BY <4>1
      <4>3. Level(l, f) = Level(l, g)
        BY <4>2, <1>1
      <4>4. g[l] = Level(l, f)
        <5>1. CASE l = n
          BY <5>1
        <5>2. CASE l # n
          <6>1. l \in 0 .. n - 1
            BY <3>1, <5>2
          <6> QED
            BY <6>1, <3>2, <5>2
        <5> QED
          BY <5>1, <5>2
      <4> QED
        BY <4>3, <4>4
    <3>4. Fits(g, n)
      BY <3>3
    <3> QED
      BY <2>1, <3>4
  <2> QED
    BY <2>2, <2>3
<1>3. PICK f : Fits(f, max_depth)
  BY <1>2
<1>4. f = [l \in 0 .. max_depth |->
           [t \in Int |-> [v \in Counters |->
              IF l = 0 THEN VerifyTableStart(m, t, v)
              ELSE VerifyTable(m, t, v, f[l - 1])]]]
  BY <1>3, Zenon DEF Level
<1> QED
  BY <1>4 DEF Verifiers

(* So has the one that defines SafeTables. *)
LEMMA SafeTablesDef ==
  ASSUME NEW m, max_depth \in Nat
  PROVE  SafeTables(m) = [l \in 0 .. max_depth |->
           [t \in Int |-> l > 0 /\ SafeTable(m, t, SafeTables(m)[l - 1])]]
<1> DEFINE Level(l, f) == [t \in Int |-> l > 0 /\ SafeTable(m, t, f[l - 1])]
           Fits(f, n) == f = [l \in 0 .. n |-> Level(l, f)]
           Bad == {n \in Nat : ~ \E f : Fits(f, n)}
<1>1. ASSUME NEW f, NEW g, NEW l \in Nat, l # 0 => f[l - 1] = g[l - 1]
      PROVE  Level(l, f) = Level(l, g)
  <2>1. CASE l = 0
    <3>1. ~ (l > 0)
      BY <2>1
    <3> QED
      BY <3>1, Zenon
  <2>2. CASE l # 0
    BY <1>1, <2>2, Zenon
  <2> QED
    BY <2>1, <2>2
<1> HIDE DEF Level
<1>2. ASSUME Bad # {} PROVE FALSE
  <2>1. PICK n \in Bad : \A k \in Bad : n <= k
    BY <1>2, Least
  <2>2. CASE n = 0
    <3> DEFINE f == [l \in 0 .. 0 |-> Level(l, <<>>)]
    <3>1. \A l \in 0 .. 0 : l = 0 /\ l \in Nat
      OBVIOUS
    <3>2. \A l \in 0 .. 0 : Level(l, <<>>) = Level(l, f)
      BY <3>1, <1>1
    <3> HIDE DEF f
    <3>3. f = [l \in 0 .. 0 |-> Level(l, f)]
      BY <3>2 DEF f
    <3> QED
      BY <2>1, <2>2, <3>3
  <2>3. CASE n # 0
    <3>1. n \in Nat /\ n - 1 \in Nat /\ ~ (n <= n - 1)
      BY <2>3
    <3>2. PICK f : Fits(f, n - 1)
      <4> HIDE DEF Fits
      <4>1. n - 1 \notin Bad
        BY <2>1, <3>1
      <4> QED
        BY <3>1, <4>1
    <3> DEFINE g == [l \in 0 .. n |-> IF l = n THEN Level(n, f) ELSE f[l]]
    <3>3. ASSUME NEW l \in 0 .. n PROVE g[l] = Level(l, g)
      <4>1. l # 0 => l - 1 \in 0 .. n - 1 /\ l - 1 \in 0 .. n /\ l - 1 # n
        BY <3>1
      <4>2. l # 0 => f[l - 1] = g[l - 1]
        BY <4>1
      <4>3. Level(l, f) = Level(l, g)
        BY <4>2, <1>1
      <4>4. g[l] = Level(l, f)
        <5>1. CASE l = n
          BY <5>1
        <5>2. CASE l # n
          <6>1. l \in 0 .. n - 1
            BY <3>1, <5>2
          <6> QED
            BY <6>1, <3>2, <5>2
        <5> QED
          BY <5>1, <5>2
      <4> QED
        BY <4>3, <4>4
    <3>4. Fits(g, n)
      BY <3>3
    <3> QED
      BY <2>1, <3>4
  <2> QED
    BY <2>2, <2>3
<1>3. PICK f : Fits(f, max_depth)
  BY <1>2
<1> QED
  BY <1>3, Zenon DEF SafeTables, Level

(* The turns of the loop over the tables of a vector, *)
LEMMA TablesLoop ==
  ASSUME NEW ts, Len(ts) \in Nat, NEW v, NEW below
  PROVE  \E a : /\ a[0] = v /\ VerifyTables(ts, v, below) = a[Len(ts)]
                /\ \A n \in 1 .. Len(ts) :
                     a[n] = IF a[n - 1].ok THEN below[ts[n]][a[n - 1]] ELSE a[n - 1]
<1> DEFINE L == Len(ts)
           Turn(n, w) == IF w.ok THEN below[ts[n]][w] ELSE w
           Fits(f, n) == f = [i \in 0 .. n |-> IF i = 0 THEN v ELSE Turn(i, f[i - 1])]
           Bad == {n \in Nat : ~ \E f : Fits(f, n)}
<1> HIDE DEF Turn
<1>1. ASSUME Bad # {} PROVE FALSE
  <2>1. PICK n \in Bad : \A k \in Bad : n <= k
    BY <1>1, Least
  <2>2. n # 0
    <3>1. Fits([i \in 0 .. 0 |-> v], 0)
      OBVIOUS
    <3> QED
      BY <3>1
  <2>3. PICK f : Fits(f, n - 1)
    <3>1. n \in Nat /\ n - 1 \in Nat /\ ~ (n <= n - 1)
      BY <2>2
    <3> HIDE DEF Fits
    <3>2. n - 1 \notin Bad
      BY <2>1, <3>1
    <3> QED
      BY <3>1, <3>2
  <2> DEFINE g == [i \in 0 .. n |-> IF i = n THEN Turn(n, f[n - 1]) ELSE f[i]]
  <2>4. ASSUME NEW i \in 0 .. n
        PROVE  g[i] = IF i = 0 THEN v ELSE Turn(i, g[i - 1])
    <3>1. CASE i = n
      BY <3>1, <2>2
    <3>2. CASE i # n
      <4>1. i \in 0 .. (n - 1) /\ g[i] = f[i] /\ (i # 0 => g[i - 1] = f[i - 1])
        BY <3>2, <2>2
      <4>2. f[i] = IF i = 0 THEN v ELSE Turn(i, f[i - 1])
        BY <4>1, <2>3
      <4> QED
        BY <4>1, <4>2
    <3> QED
      BY <3>1, <3>2
  <2>5. Fits(g, n)
    BY <2>4
  <2> QED
    BY <2>1, <2>5
<1> DEFINE a == CHOOSE f : Fits(f, L)
<1>2. L \notin Bad
  BY <1>1
<1>3. Fits(a, L)
  BY <1>2
<1>4. VerifyTables(ts, v, below) = a[L]
  BY Zenon DEF VerifyTables, Turn
<1>5. a[0] = v
  <2>1. 0 \in 0 .. L
    OBVIOUS
  <2> HIDE DEF a
  <2> QED
    BY <1>3, <2>1
<1>6. \A n \in 1 .. L : a[n] = Turn(n, a[n - 1])
  <2>1. \A n \in 1 .. L : n \in 0 .. L /\ n # 0
    OBVIOUS
  <2> HIDE DEF a
  <2> QED
    BY <1>3, <2>1
<1> HIDE DEF a
<1> QED
  BY <1>4, <1>5, <1>6, Zenon DEF Turn

(* and of the one over the fields of the schema. *)
LEMMA FieldsLoop ==
  ASSUME NEW m, NEW t, NEW v, NEW below, LastField \in Nat
  PROVE  \E a : /\ a[0] = v /\ VerifyFields(m, t, v, below) = a[LastField]
                /\ \A n \in 1 .. LastField :
                     a[n] = IF n \in DOMAIN Schema /\ a[n - 1].ok
                            THEN VerifyField(m, t, n, a[n - 1], below) ELSE a[n - 1]
<1> DEFINE L == LastField
           Turn(n, w) == IF n \in DOMAIN Schema /\ w.ok
                         THEN VerifyField(m, t, n, w, below) ELSE w
           Fits(f, n) == f = [i \in 0 .. n |-> IF i = 0 THEN v ELSE Turn(i, f[i - 1])]
           Bad == {n \in Nat : ~ \E f : Fits(f, n)}
<1> HIDE DEF Turn
<1>1. ASSUME Bad # {} PROVE FALSE
  <2>1. PICK n \in Bad : \A k \in Bad : n <= k
    BY <1>1, Least
  <2>2. n # 0
    <3>1. Fits([i \in 0 .. 0 |-> v], 0)
      OBVIOUS
    <3> QED
      BY <3>1
  <2>3. PICK f : Fits(f, n - 1)
    <3>1. n \in Nat /\ n - 1 \in Nat /\ ~ (n <= n - 1)
      BY <2>2
    <3> HIDE DEF Fits
    <3>2. n - 1 \notin Bad
      BY <2>1, <3>1
    <3> QED
      BY <3>1, <3>2
  <2> DEFINE g == [i \in 0 .. n |-> IF i = n THEN Turn(n, f[n - 1]) ELSE f[i]]
  <2>4. ASSUME NEW i \in 0 .. n
        PROVE  g[i] = IF i = 0 THEN v ELSE Turn(i, g[i - 1])
    <3>1. CASE i = n
      BY <3>1, <2>2
    <3>2. CASE i # n
      <4>1. i \in 0 .. (n - 1) /\ g[i] = f[i] /\ (i # 0 => g[i - 1] = f[i - 1])
        BY <3>2, <2>2
      <4>2. f[i] = IF i = 0 THEN v ELSE Turn(i, f[i - 1])
        BY <4>1, <2>3
      <4> QED
        BY <4>1, <4>2
    <3> QED
      BY <3>1, <3>2
  <2>5. Fits(g, n)
    BY <2>4
  <2> QED
    BY <2>1, <2>5
<1> DEFINE a == CHOOSE f : Fits(f, L)
<1>2. L \notin Bad
  BY <1>1
<1>3. Fits(a, L)
  BY <1>2
<1>4. VerifyFields(m, t, v, below) = a[L]
  BY Zenon DEF VerifyFields, Turn
<1>5. a[0] = v
  <2>1. 0 \in 0 .. L
    OBVIOUS
  <2> HIDE DEF a
  <2> QED
    BY <1>3, <2>1
<1>6. \A n \in 1 .. L : a[n] = Turn(n, a[n - 1])
  <2>1. \A n \in 1 .. L : n \in 0 .. L /\ n # 0
    OBVIOUS
  <2> HIDE DEF a
  <2> QED
    BY <1>3, <2>1
<1> HIDE DEF a
<1> QED
  BY <1>4, <1>5, <1>6, Zenon DEF Turn

(* The last field is one of the schema. *)
LEMMA LastFieldIs ==
  ASSUME SchemaOK
  PROVE  LastField \in Nat /\ \A f \in DOMAIN Schema : f \in 1 .. LastField
<1> DEFINE F == DOMAIN Schema
           M == MaxVOffset
           S == {M - f : f \in F \cup {0}}
<1>1. M \in Nat /\ F \subseteq 4 .. M
  <2>1. MaxVOffset \in Nat
    BY DEF MaxVOffset
  <2>2. DOMAIN Schema \subseteq 4 .. MaxVOffset
    BY Zenon DEF SchemaOK
  <2> QED
    BY <2>1, <2>2
<1> HIDE DEF F, M
<1>2. S \subseteq Nat /\ S # {}
  <2>1. \A f \in F \cup {0} : M - f \in Nat
    BY <1>1
  <2>2. M - 0 \in S
    BY Zenon
  <2> QED
    BY <2>1, <2>2, Zenon
<1>3. PICK x \in S : \A y \in S : x <= y
  BY <1>2, Least
<1>4. PICK f \in F \cup {0} : x = M - f
  OBVIOUS
<1> HIDE DEF S
<1>5. \A g \in F : g <= f
  <2> TAKE g \in F
  <2>1. M - g \in S
    BY DEF S
  <2> QED
    BY <2>1, <1>1, <1>3, <1>4
<1>6. LastField \in F \cup {0} /\ \A g \in F : g <= LastField
  <2>1. LastField = CHOOSE h \in F \cup {0} : \A g \in F : g <= h
    BY DEF LastField, F
  <2> QED
    BY <1>5, <2>1
<1> QED
  BY <1>1, <1>6 DEF F

-------------------------------------------------------------------------------
(* What a check of the verifier says about the bytes *)

LEMMA ScalarIs ==
  ASSUME NEW m, IsMemory(m), NEW p \in Int, NEW size \in {1, 2, 4, 8}, Inside(m, p, size)
  PROVE  Scalar(m, p, size) \in Nat
<1>1. \A q \in 0 .. m.n - 1 : At(m, q) \in Nat
  BY DEF IsMemory
<1>2. m.n \in Nat /\ 0 <= p /\ p + size <= m.n
  BY DEF IsMemory, Inside
<1>3. At(m, p) \in Nat
  <2>1. p \in 0 .. m.n - 1
    BY <1>2
  <2> QED
    BY <1>1, <2>1
<1>4. size # 1 => At(m, p + 1) \in Nat
  <2>1. size # 1 => p + 1 \in 0 .. m.n - 1
    BY <1>2
  <2> QED
    BY <1>1, <2>1
<1> DEFINE a == At(m, p)
           b == At(m, p + 1)
           low == a + (IF size = 1 THEN 0 ELSE 256 * b)
<1>5. low \in Nat
  <2> HIDE DEF a, b
  <2>1. a \in Nat /\ (size # 1 => b \in Nat)
    BY <1>3, <1>4 DEF a, b
  <2> QED
    BY <2>1
<1>6. Scalar(m, p, size) = Huge \/ Scalar(m, p, size) = low
  BY Zenon DEF Scalar
<1>7. Huge \in Nat
  BY DEF Huge
<1> HIDE DEF low
<1> QED
  BY <1>5, <1>6, <1>7

LEMMA SignedIs ==
  ASSUME NEW m, IsMemory(m), NEW p \in Int, Inside(m, p, 4)
  PROVE  Signed(m, p) \in Int
<1>1. \A q \in 0 .. m.n - 1 : At(m, q) \in Nat
  BY DEF IsMemory
<1>2. m.n \in Nat /\ 0 <= p /\ p + 4 <= m.n
  BY DEF IsMemory, Inside
<1> DEFINE a == At(m, p)
           b == At(m, p + 1)
           s == Scalar(m, p, 4)
           h == Huge
           k == a + 256 * b - h
<1>3. a \in Nat /\ b \in Nat
  <2>1. p \in 0 .. m.n - 1 /\ p + 1 \in 0 .. m.n - 1
    BY <1>2
  <2> QED
    BY <1>1, <2>1
<1>4. s \in Nat
  BY ScalarIs
<1>5. h \in Nat
  BY DEF Huge
<1>6. Signed(m, p) = s \/ Signed(m, p) = k \/ Signed(m, p) = -h
  BY Zenon DEF Signed
<1> HIDE DEF a, b, h, s
<1>7. s \in Int /\ k \in Int /\ -h \in Int
  BY <1>3, <1>4, <1>5
<1> QED
  BY <1>6, <1>7

LEMMA VerifyInside ==
  ASSUME NEW m, IsMemory(m), NEW p \in Int, NEW n \in Nat, Verify(m, p, n)
  PROVE  Inside(m, p, n) /\ 0 <= p
BY DEF IsMemory, Verify, Inside

LEMMA VectorSafe ==
  ASSUME NEW m, IsMemory(m), NEW p \in Int, NEW s \in Nat, VerifyVectorOrString(m, p, s)
  PROVE  SafeVector(m, p, s) /\ Size(m, p) \in Nat
<1> DEFINE k == s * Size(m, p)
<1>1. VerifyScalar(m, p, 4) /\ Verify(m, p, 4 + k)
  BY Zenon DEF VerifyVectorOrString
<1>2. Inside(m, p, 4)
  <2>1. Verify(m, p, 4)
    BY <1>1 DEF VerifyScalar
  <2> QED
    BY <2>1, VerifyInside
<1>3. Size(m, p) \in Nat
  BY <1>2, ScalarIs DEF Size
<1>4. k \in Nat
  BY <1>3
<1>5. SafeVector(m, p, s) <=> Inside(m, p, 4) /\ Inside(m, p + 4, k)
  BY Zenon DEF SafeVector, Data
<1> HIDE DEF k
<1>6. Inside(m, p, 4 + k)
  <2>1. 4 + k \in Nat
    BY <1>4
  <2> QED
    BY <1>1, <2>1, VerifyInside
<1>7. Inside(m, p + 4, k)
  BY <1>4, <1>6 DEF Inside, IsMemory
<1> QED
  BY <1>2, <1>3, <1>5, <1>7

LEMMA StringSafe ==
  ASSUME NEW m, IsMemory(m), NEW p \in Int, VerifyString(m, p)
  PROVE  SafeString(m, p)
<1>1. /\ VerifyVectorOrString(m, p, 1) /\ Verify(m, Data(p) + Size(m, p), 1)
      /\ Terminator(m, p) = 0
  BY Zenon DEF VerifyString
<1>2. SafeVector(m, p, 1) /\ Size(m, p) \in Nat
  BY <1>1, VectorSafe
<1>3. Inside(m, p, 4)
  BY <1>2 DEF SafeVector
<1> DEFINE z == Size(m, p)
<1> HIDE DEF z
<1>4. Inside(m, p + 4, z + 1)
  <2>1. Verify(m, p + 4 + z, 1) /\ z \in Nat
    BY <1>1, <1>2 DEF Data, z
  <2> QED
    BY <2>1, <1>3 DEF Verify, Inside, IsMemory
<1> QED
  BY <1>1, <1>2, <1>4, Zenon DEF SafeString, Data, z

(* The pointers in a vector of offsets are addresses. *)
LEMMA PointersAre ==
  ASSUME NEW m, IsMemory(m), NEW p \in Int, SafeVector(m, p, 4), Size(m, p) \in Nat
  PROVE  /\ Pointers(m, p) \in Seq(Int) /\ Len(Pointers(m, p)) = Size(m, p)
<1> DEFINE z == Size(m, p)
           ptr(i) == (p + 4 + 4 * (i - 1)) + Scalar(m, p + 4 + 4 * (i - 1), 4)
<1>1. z \in Nat /\ Inside(m, p, 4) /\ Inside(m, p + 4, 4 * z)
  BY DEF SafeVector, Data
<1>2. Pointers(m, p) = [i \in 1 .. z |-> Follow(m, Iterate(m, p, 4)[i], 4)]
  BY DEF Pointers
<1>3. Iterate(m, p, 4) = [i \in 1 .. z |-> p + 4 + 4 * (i - 1)]
  BY DEF Iterate, Data
<1> HIDE DEF z
<1>4. ASSUME NEW i \in 1 .. z PROVE Follow(m, Iterate(m, p, 4)[i], 4) \in Int
  <2> DEFINE a == p + 4 + 4 * (i - 1)
  <2>1. Iterate(m, p, 4)[i] = a
    BY <1>3
  <2>2. a \in Int
    BY <1>1
  <2>3. Inside(m, a, 4)
    BY <1>1 DEF Inside, IsMemory
  <2> HIDE DEF a
  <2>4. Scalar(m, a, 4) \in Nat
    BY <2>2, <2>3, ScalarIs
  <2>5. Follow(m, a, 4) \in Int
    BY <2>2, <2>4 DEF Follow
  <2> QED
    BY <2>1, <2>5
<1> QED
  BY <1>1, <1>2, <1>4 DEF z

LEMMA StringsSafe ==
  ASSUME NEW m, IsMemory(m), NEW p \in Int, VerifyVectorOrString(m, p, 4),
         VerifyVectorOfStrings(m, p)
  PROVE  /\ SafeVector(m, p, 4)
         /\ \A i \in 1 .. Size(m, p) : SafeString(m, Pointers(m, p)[i])
<1>1. SafeVector(m, p, 4) /\ Size(m, p) \in Nat
  BY VectorSafe
<1>2. Pointers(m, p) \in Seq(Int) /\ Len(Pointers(m, p)) = Size(m, p)
  BY <1>1, PointersAre
<1>3. ASSUME NEW i \in 1 .. Size(m, p) PROVE SafeString(m, Pointers(m, p)[i])
  <2>1. Pointers(m, p)[i] \in Int
    BY <1>1, <1>2
  <2>2. VerifyString(m, Pointers(m, p)[i])
    BY Zenon DEF VerifyVectorOfStrings
  <2> QED
    BY <2>1, <2>2, StringSafe
<1> QED
  BY <1>1, <1>3

LEMMA OffsetSafe ==
  ASSUME NEW m, IsMemory(m), NEW p \in Int, NEW size \in {4, 8}, VerifyOffset(m, p, size)
  PROVE  Inside(m, p, size) /\ Follow(m, p, size) \in Int
<1>1. Verify(m, p, size)
  BY DEF VerifyOffset, VerifyScalar
<1>2. size \in Nat /\ size \in {1, 2, 4, 8}
  OBVIOUS
<1>3. Inside(m, p, size)
  BY <1>1, <1>2, VerifyInside
<1>4. Scalar(m, p, size) \in Nat
  BY <1>2, <1>3, ScalarIs
<1> QED
  BY <1>3, <1>4 DEF Follow

(* A check that holds changes nothing. *)
LEMMA CheckHolds ==
  ASSUME NEW v \in Counters, NEW c \in BOOLEAN, Check(v, c).ok
  PROVE  c /\ Check(v, c) = v
<1>1. CASE c = TRUE
  <2> DEFINE b == v.ok
  <2>1. b \in BOOLEAN /\ v = [v EXCEPT !.ok = b]
    BY DEF Counters
  <2>2. (b /\ TRUE) = b
    BY <2>1
  <2>3. Check(v, c) = [v EXCEPT !.ok = b /\ TRUE]
    BY <1>1, Zenon DEF Check
  <2> HIDE DEF b
  <2> QED
    BY <1>1, <2>1, <2>2, <2>3, Zenon
<1>2. CASE c = FALSE
  <2>1. Check(v, c) = [v EXCEPT !.ok = FALSE]
    <3> DEFINE b == v.ok
    <3>1. Check(v, c) = [v EXCEPT !.ok = b /\ FALSE]
      BY <1>2, Zenon DEF Check
    <3>2. (b /\ FALSE) = FALSE
      OBVIOUS
    <3> HIDE DEF b
    <3> QED
      BY <3>1, <3>2, Zenon
  <2>2. [v EXCEPT !.ok = FALSE].ok = FALSE
    BY DEF Counters
  <2>3. Check(v, c).ok = FALSE
    BY <2>1, <2>2, Zenon
  <2> QED
    BY <2>3, Zenon
<1> QED
  BY <1>1, <1>2, Zenon

LEMMA Deeper ==
  ASSUME NEW B, NEW v \in [ok : B, depth : Nat, tables : Nat]
  PROVE  LET x == [v EXCEPT !.depth = @ + 1, !.tables = @ + 1]
         IN  x \in [ok : B, depth : Nat, tables : Nat] /\ x.depth = v.depth + 1
<1> DEFINE x1 == [v EXCEPT !.depth = @ + 1]
           x == [x1 EXCEPT !.tables = @ + 1]
<1>1. x1 \in [ok : B, depth : Nat, tables : Nat] /\ x1.depth = v.depth + 1
  OBVIOUS
<1>2. [v EXCEPT !.depth = @ + 1, !.tables = @ + 1] = x
  OBVIOUS
<1> HIDE DEF x1
<1>3. x \in [ok : B, depth : Nat, tables : Nat] /\ x.depth = x1.depth
  BY <1>1
<1> QED
  BY <1>1, <1>2, <1>3

LEMMA Shallower ==
  ASSUME NEW v \in Counters, v.depth > 0
  PROVE  EndTable(v) \in Counters /\ EndTable(v).depth = v.depth - 1
<1>1. ASSUME NEW B, NEW w \in [ok : B, depth : Nat, tables : Nat], w.depth > 0
      PROVE  /\ [w EXCEPT !.depth = @ - 1] \in [ok : B, depth : Nat, tables : Nat]
             /\ [w EXCEPT !.depth = @ - 1].depth = w.depth - 1
  BY <1>1
<1> QED
  BY <1>1, Zenon DEF EndTable, Counters

(* The start of a table: its virtual table can be read, and one more level
   was still to be had. *)
LEMMA StartSafe ==
  ASSUME NEW m, IsMemory(m), NEW t \in Int, NEW v \in Counters,
         VerifyTableStart(m, t, v).ok
  PROVE  LET vtable == GetVTable(m, t)
             size == Scalar(m, vtable, 2)
             w == VerifyTableStart(m, t, v)
         IN  /\ Inside(m, t, 4) /\ 0 <= t /\ vtable \in Int /\ Inside(m, vtable, 2)
             /\ size \in Nat /\ size % 2 = 0 /\ Inside(m, vtable, size)
             /\ w \in Counters /\ w.depth = v.depth + 1 /\ w.depth <= max_depth
<1> DEFINE vtable == GetVTable(m, t)
           size == Scalar(m, vtable, 2)
           x == [v EXCEPT !.depth = @ + 1, !.tables = @ + 1]
           y == VerifyComplexity(v)
           start == VerifyTableStart(m, t, v)
           fits == VerifyAlignment(size, 2) /\ Verify(m, vtable, size)
           less == x.depth <= max_depth /\ x.tables <= max_tables
<1>1. x \in Counters /\ x.depth = v.depth + 1
  BY Deeper DEF Counters
<1>2. y = Check(x, less)
  BY Zenon DEF VerifyComplexity
<1>3. fits \in BOOLEAN /\ less \in BOOLEAN
  OBVIOUS
<1>4. start = IF ~VerifyScalar(m, t, 4) THEN Check(v, FALSE)
              ELSE IF ~y.ok \/ ~VerifyScalar(m, vtable, 2) THEN Check(y, FALSE)
              ELSE Check(y, fits)
  BY Zenon DEF VerifyTableStart
<1> HIDE DEF vtable, x, y, start, size
<1>5. VerifyScalar(m, t, 4)
  <2> SUFFICES ASSUME ~VerifyScalar(m, t, 4) PROVE FALSE
    OBVIOUS
  <2>1. Check(v, FALSE).ok
    BY <1>4, Zenon DEF start
  <2> QED
    BY <2>1, CheckHolds
<1>6. y \in [ok : BOOLEAN, depth : Nat, tables : Nat]
  <2>1. ASSUME NEW B, NEW w \in [ok : B, depth : Nat, tables : Nat], NEW b \in BOOLEAN
        PROVE  [w EXCEPT !.ok = b] \in [ok : BOOLEAN, depth : Nat, tables : Nat]
    OBVIOUS
  <2>2. (x.ok /\ less) \in BOOLEAN
    OBVIOUS
  <2> QED
    BY <1>1, <1>2, <2>1, <2>2, Zenon DEF Check, Counters
<1>7. y.ok /\ VerifyScalar(m, vtable, 2)
  <2> SUFFICES ASSUME ~y.ok \/ ~VerifyScalar(m, vtable, 2) PROVE FALSE
    OBVIOUS
  <2>1. Check(y, FALSE).ok
    BY <1>4, <1>5, Zenon DEF start
  <2> QED
    BY <1>6, <2>1, CheckHolds DEF Counters
<1>8. y = x /\ less
  BY <1>1, <1>2, <1>3, <1>7, CheckHolds
<1>9. start = y /\ fits
  <2>1. start = Check(y, fits) /\ start.ok
    BY <1>4, <1>5, <1>7, Zenon DEF start
  <2> QED
    BY <1>3, <1>6, <2>1, CheckHolds DEF Counters
<1>10. start \in Counters /\ start.depth = v.depth + 1 /\ start.depth <= max_depth
  BY <1>1, <1>8, <1>9, Zenon
<1>11. Inside(m, t, 4) /\ 0 <= t
  <2>1. Verify(m, t, 4) /\ 4 \in Nat
    BY <1>5 DEF VerifyScalar
  <2> QED
    BY <2>1, VerifyInside
<1>12. vtable \in Int
  BY <1>11, SignedIs DEF vtable, GetVTable
<1>13. Inside(m, vtable, 2)
  <2>1. Verify(m, vtable, 2) /\ 2 \in Nat
    BY <1>7 DEF VerifyScalar
  <2> QED
    BY <1>12, <2>1, VerifyInside
<1>14. size \in Nat
  BY <1>12, <1>13, ScalarIs DEF size
<1>15. Inside(m, vtable, size) /\ size % 2 = 0
  <2>1. Verify(m, vtable, size) /\ size % 2 = 0
    BY <1>9, Zenon DEF VerifyAlignment
  <2> QED
    BY <1>12, <1>14, <2>1, VerifyInside
<1> QED
  BY <1>10, <1>11, <1>12, <1>13, <1>14, <1>15, Zenon DEF start, size, vtable

-------------------------------------------------------------------------------
(* Loops of checks *)

(* A loop that ends with ok never lost it. *)
LEMMA StaysOk ==
  ASSUME NEW L \in Nat, NEW a, a[L].ok, \A n \in 1 .. L : a[n].ok => a[n - 1].ok
  PROVE  \A n \in 0 .. L : a[n].ok
<1> DEFINE Bad == {j \in 0 .. L : ~ a[L - j].ok}
<1>1. ASSUME Bad # {} PROVE FALSE
  <2>1. Bad \subseteq Nat
    OBVIOUS
  <2>2. PICK j \in Bad : \A k \in Bad : j <= k
    BY <1>1, <2>1, Least
  <2>3. j # 0
    <3>1. L - 0 = L
      OBVIOUS
    <3> QED
      BY <3>1
  <2> DEFINE n == L - (j - 1)
  <2>4. /\ j - 1 \in 0 .. L /\ n \in 1 .. L /\ n - 1 = L - j /\ ~ (j <= j - 1)
    BY <2>3
  <2>5. j - 1 \notin Bad
    BY <2>2, <2>4
  <2>6. a[n].ok
    BY <2>4, <2>5
  <2> HIDE DEF n
  <2>7. a[n - 1].ok
    BY <2>4, <2>6
  <2> QED
    BY <2>4, <2>7
<1>2. ASSUME NEW n \in 0 .. L PROVE a[n].ok
  <2>1. L - n \in 0 .. L /\ L - (L - n) = n
    OBVIOUS
  <2> QED
    BY <1>1, <2>1
<1> QED
  BY <1>2

(* What every turn keeps holds after each. *)
LEMMA StaysGood ==
  ASSUME NEW L \in Nat, NEW a, NEW G, a[0] \in G,
         \A n \in 1 .. L : a[n - 1] \in G => a[n] \in G
  PROVE  \A n \in 0 .. L : a[n] \in G
<1> DEFINE Bad == {n \in 0 .. L : a[n] \notin G}
<1>1. ASSUME Bad # {} PROVE FALSE
  <2>1. Bad \subseteq Nat
    OBVIOUS
  <2>2. PICK n \in Bad : \A k \in Bad : n <= k
    BY <1>1, <2>1, Least
  <2>3. n # 0
    OBVIOUS
  <2>4. n \in 1 .. L /\ n - 1 \in 0 .. L /\ ~ (n <= n - 1)
    BY <2>3
  <2>5. a[n - 1] \in G
    BY <2>2, <2>4
  <2> QED
    BY <2>4, <2>5
<1> QED
  BY <1>1

(* The counters d levels deep. *)
AtDepth(d) == {v \in Counters : v.depth = d}

(* verify accepts only tables of safe, and gives the depth back. *)
Sound(verify, safe, d) ==
  \A t \in Int, v \in AtDepth(d) :
     verify[t][v].ok => verify[t][v] \in AtDepth(d) /\ safe[t]

LEMMA TablesSafe ==
  ASSUME NEW ts \in Seq(Int), NEW d, NEW v \in AtDepth(d), NEW below, NEW safe,
         Sound(below, safe, d), VerifyTables(ts, v, below).ok
  PROVE  /\ VerifyTables(ts, v, below) \in AtDepth(d)
         /\ \A i \in 1 .. Len(ts) : safe[ts[i]]
<1> DEFINE L == Len(ts)
           w == VerifyTables(ts, v, below)
<1>1. L \in Nat /\ \A n \in 1 .. L : ts[n] \in Int
  OBVIOUS
<1>2. PICK a : /\ a[0] = v /\ w = a[L]
               /\ \A n \in 1 .. L :
                    a[n] = IF a[n - 1].ok THEN below[ts[n]][a[n - 1]] ELSE a[n - 1]
  BY <1>1, TablesLoop
<1> HIDE DEF L, w
<1>3. \A n \in 0 .. L : a[n].ok
  <2>1. a[L].ok
    BY <1>2 DEF w
  <2>2. \A n \in 1 .. L : a[n].ok => a[n - 1].ok
    BY <1>2
  <2> QED
    BY <1>1, <2>1, <2>2, StaysOk
<1>4. ASSUME NEW n \in 1 .. L, a[n - 1] \in AtDepth(d)
      PROVE  a[n] \in AtDepth(d) /\ safe[ts[n]]
  <2>1. n - 1 \in 0 .. L /\ n \in 0 .. L
    BY <1>1
  <2>2. a[n] = below[ts[n]][a[n - 1]] /\ a[n].ok
    BY <1>2, <1>3, <2>1
  <2>3. ts[n] \in Int
    BY <1>1
  <2> QED
    BY <1>4, <2>2, <2>3, Zenon DEF Sound
<1>5. \A n \in 0 .. L : a[n] \in AtDepth(d)
  <2>1. a[0] \in AtDepth(d)
    BY <1>2
  <2>2. \A n \in 1 .. L : a[n - 1] \in AtDepth(d) => a[n] \in AtDepth(d)
    BY <1>4
  <2> QED
    BY <1>1, <2>1, <2>2, StaysGood
<1>6. \A n \in 1 .. L : n - 1 \in 0 .. L
  BY <1>1
<1>7. \A n \in 1 .. L : safe[ts[n]]
  BY <1>4, <1>5, <1>6
<1>8. w \in AtDepth(d)
  BY <1>1, <1>2, <1>5
<1> QED
  BY <1>7, <1>8 DEF w, L

(* Where a field of a table lies, if it is there. *)
LEMMA AddressIs ==
  ASSUME NEW m, IsMemory(m), NEW t \in Nat, NEW field \in Nat, field % 2 = 0, field >= 4,
         GetVTable(m, t) \in Int, Scalar(m, GetVTable(m, t), 2) \in Nat,
         Scalar(m, GetVTable(m, t), 2) % 2 = 0,
         Inside(m, GetVTable(m, t), Scalar(m, GetVTable(m, t), 2))
  PROVE  /\ field < Scalar(m, GetVTable(m, t), 2) => Inside(m, GetVTable(m, t) + field, 2)
         /\ CheckField(m, t, field) => GetAddressOf(m, t, field) \in Int \ {0}
         /\ GetAddressOf(m, t, field) # Null <=> CheckField(m, t, field)
<1> DEFINE vtable == GetVTable(m, t)
           size == Scalar(m, vtable, 2)
           off == GetOptionalFieldOffset(m, t, field)
           at == GetAddressOf(m, t, field)
<1>1. off = IF field < size THEN Scalar(m, vtable + field, 2) ELSE 0
  BY Zenon DEF GetOptionalFieldOffset
<1>2. at = IF off # 0 THEN t + off ELSE 0
  BY Zenon DEF GetAddressOf, CheckField, Null
<1>3. vtable \in Int /\ size \in Nat /\ size % 2 = 0 /\ Inside(m, vtable, size)
  OBVIOUS
<1> HIDE DEF vtable, size, off, at
<1>4. field < size => Inside(m, vtable + field, 2)
  <2> SUFFICES ASSUME field < size PROVE Inside(m, vtable + field, 2)
    OBVIOUS
  <2>1. field + 2 <= size
    BY <1>3
  <2> QED
    BY <1>3, <2>1 DEF Inside, IsMemory
<1>5. off \in Nat
  <2>1. CASE field < size
    <3>1. vtable + field \in Int
      BY <1>3
    <3>2. Scalar(m, vtable + field, 2) \in Nat
      BY <1>4, <2>1, <3>1, ScalarIs
    <3> QED
      BY <1>1, <2>1, <3>2
  <2>2. CASE ~ (field < size)
    BY <1>1, <2>2
  <2> QED
    BY <2>1, <2>2
<1>6. /\ off # 0 => at \in Int \ {0}
      /\ at # 0 <=> off # 0
  BY <1>2, <1>5
<1> QED
  BY <1>4, <1>6, Zenon DEF vtable, size, off, at, CheckField, Null

-------------------------------------------------------------------------------
(* A table that the verifier accepts *)

(* What a field refers to can be read. *)
LEMMA ContentSafe ==
  ASSUME NEW m, IsMemory(m), StructSize \in Nat, NEW type \in Types, NEW at \in Int,
         ~ (IsScalar(type) \/ type = "struct"),
         VerifyOffset(m, at, Width(type)),
         Content(m, Follow(m, at, Width(type)), type), NEW below,
         type = "table" => below[Follow(m, at, Width(type))],
         type = "tables" => \A i \in 1 .. Size(m, Follow(m, at, Width(type))) :
                              below[Pointers(m, Follow(m, at, Width(type)))[i]]
  PROVE  SafeField(m, at, type, below)
<1> DEFINE w == Width(type)
           p == Follow(m, at, w)
<1>1. w \in {4, 8}
  BY DEF Width, Types, IsScalar
<1> HIDE DEF w
<1>2. VerifyOffset(m, at, w)
  BY DEF w
<1>3. Inside(m, at, w) /\ p \in Int
  BY <1>1, <1>2, OffsetSafe
<1>4. /\ Content(m, p, type)
      /\ type = "table" => below[p]
      /\ type = "tables" => \A i \in 1 .. Size(m, p) : below[Pointers(m, p)[i]]
  BY Zenon DEF w
<1> HIDE DEF p
<1>5. SafeField(m, at, type, below) <=>
        /\ Inside(m, at, w)
        /\ CASE IsScalar(type) \/ type = "struct" -> TRUE
             [] type \in {"string", "string64"} -> SafeString(m, p)
             [] type = "bytes" -> SafeVector(m, p, 1)
             [] type = "longs" -> SafeVector(m, p, 8)
             [] type = "structs" -> SafeVector(m, p, StructSize)
             [] type = "strings" ->
                    /\ SafeVector(m, p, 4)
                    /\ \A i \in 1..Size(m, p) : SafeString(m, Pointers(m, p)[i])
             [] type = "table" -> below[p]
             [] type = "tables" ->
                    /\ SafeVector(m, p, 4)
                    /\ \A i \in 1..Size(m, p) : below[Pointers(m, p)[i]]
  BY Zenon DEF SafeField, p, w
<1>6. CASE type \in {"string", "string64"}
  <2>1. VerifyString(m, p)
    BY <1>4, <1>6 DEF Content
  <2>2. SafeString(m, p)
    BY <1>3, <2>1, StringSafe
  <2> QED
    BY <1>3, <1>5, <1>6, <2>2 DEF IsScalar
<1>7. CASE type = "bytes"
  <2>1. VerifyVectorOrString(m, p, 1) /\ 1 \in Nat
    BY <1>4, <1>7 DEF Content
  <2>2. SafeVector(m, p, 1)
    BY <1>3, <2>1, VectorSafe
  <2> QED
    BY <1>3, <1>5, <1>7, <2>2 DEF IsScalar
<1>8. CASE type = "longs"
  <2>1. VerifyVectorOrString(m, p, 8) /\ 8 \in Nat
    BY <1>4, <1>8 DEF Content
  <2>2. SafeVector(m, p, 8)
    BY <1>3, <2>1, VectorSafe
  <2> QED
    BY <1>3, <1>5, <1>8, <2>2 DEF IsScalar
<1>9. CASE type = "structs"
  <2>1. VerifyVectorOrString(m, p, StructSize)
    BY <1>4, <1>9 DEF Content
  <2>2. SafeVector(m, p, StructSize)
    BY <1>3, <2>1, VectorSafe
  <2> QED
    BY <1>3, <1>5, <1>9, <2>2 DEF IsScalar
<1>10. CASE type = "strings"
  <2>1. VerifyVectorOrString(m, p, 4) /\ VerifyVectorOfStrings(m, p)
    BY <1>4, <1>10 DEF Content
  <2>2. /\ SafeVector(m, p, 4)
        /\ \A i \in 1 .. Size(m, p) : SafeString(m, Pointers(m, p)[i])
    BY <1>3, <2>1, StringsSafe
  <2> QED
    BY <1>3, <1>5, <1>10, <2>2 DEF IsScalar
<1>11. CASE type = "table"
  BY <1>3, <1>4, <1>5, <1>11 DEF IsScalar
<1>12. CASE type = "tables"
  <2>1. VerifyVectorOrString(m, p, 4) /\ 4 \in Nat
    BY <1>4, <1>12 DEF Content
  <2>2. SafeVector(m, p, 4)
    BY <1>3, <2>1, VectorSafe
  <2> QED
    BY <1>3, <1>4, <1>5, <1>12, <2>2 DEF IsScalar
<1> QED
  BY <1>6, <1>7, <1>8, <1>9, <1>10, <1>11, <1>12 DEF Types, IsScalar

(* One field of a table whose start was accepted. *)
LEMMA FieldSafe ==
  ASSUME SchemaOK, NEW m, IsMemory(m), NEW t \in Nat, NEW field \in DOMAIN Schema,
         NEW d, NEW v \in AtDepth(d), NEW below, NEW safe, Sound(below, safe, d),
         GetAddressOf(m, t, field) # Null => GetAddressOf(m, t, field) \in Int,
         VerifyField(m, t, field, v, below).ok
  PROVE  /\ VerifyField(m, t, field, v, below) \in AtDepth(d)
         /\ GetAddressOf(m, t, field) # Null =>
              SafeField(m, GetAddressOf(m, t, field), Schema[field], safe)
<1> DEFINE type == Schema[field]
           at == GetAddressOf(m, t, field)
           w == Width(type)
           p == Follow(m, at, w)
           here == VerifyAlignment(at, AlignOf(type)) /\ Verify(m, at, w)
           r == VerifyField(m, t, field, v, below)
           inline == IsScalar(type) \/ type = "struct"
           bad == ~VerifyOffset(m, at, w) \/ ~Content(m, p, type)
<1>1. r = IF at = Null THEN v
          ELSE IF inline THEN Check(v, here)
          ELSE IF bad THEN Check(v, FALSE)
          ELSE IF type = "table" THEN VerifyTables(<<p>>, v, below)
          ELSE IF type = "tables" THEN VerifyTables(Pointers(m, p), v, below)
          ELSE v
  BY Zenon DEF VerifyField, VerifyFieldAt
<1>2. type \in Types /\ StructSize \in Nat
  BY Zenon DEF SchemaOK
<1>3. v \in Counters
  BY DEF AtDepth
<1>4. /\ r.ok /\ v \in AtDepth(d)
      /\ at # Null => at \in Int
      /\ here \in BOOLEAN /\ FALSE \in BOOLEAN
  OBVIOUS
<1> HIDE DEF type, at, w, p, here, r, inline, bad
<1>5. CASE at = Null
  BY <1>1, <1>4, <1>5 DEF at, r
<1>6. CASE at # Null /\ inline
  <2>1. here /\ r = v
    <3>1. r = Check(v, here)
      BY <1>1, <1>6, Zenon
    <3> QED
      BY <1>3, <1>4, <3>1, CheckHolds
  <2>2. w \in Nat
    BY <1>2, <1>6 DEF w, Width, inline, IsScalar
  <2>3. Inside(m, at, w)
    <3>1. Verify(m, at, w)
      BY <2>1 DEF here
    <3> QED
      BY <1>4, <1>6, <2>2, <3>1, VerifyInside
  <2>4. SafeField(m, at, type, safe)
    <3>1. SafeField(m, at, type, safe) <=>
            /\ Inside(m, at, w)
            /\ CASE IsScalar(type) \/ type = "struct" -> TRUE
                 [] type \in {"string", "string64"} -> SafeString(m, p)
                 [] type = "bytes" -> SafeVector(m, p, 1)
                 [] type = "longs" -> SafeVector(m, p, 8)
                 [] type = "structs" -> SafeVector(m, p, StructSize)
                 [] type = "strings" ->
                        /\ SafeVector(m, p, 4)
                        /\ \A i \in 1..Size(m, p) : SafeString(m, Pointers(m, p)[i])
                 [] type = "table" -> safe[p]
                 [] type = "tables" ->
                        /\ SafeVector(m, p, 4)
                        /\ \A i \in 1..Size(m, p) : safe[Pointers(m, p)[i]]
      BY Zenon DEF SafeField, p, w
    <3> QED
      BY <1>2, <1>6, <2>3, <3>1 DEF inline, IsScalar, Types
  <2> QED
    BY <1>4, <2>1, <2>4 DEF at, r, type
<1>7. CASE at # Null /\ ~inline
  <2>1. ~bad
    <3> SUFFICES ASSUME bad PROVE FALSE
      OBVIOUS
    <3>1. Check(v, FALSE).ok
      BY <1>1, <1>4, <1>7, Zenon
    <3> QED
      BY <1>3, <1>4, <3>1, CheckHolds
  <2>2. VerifyOffset(m, at, w) /\ Content(m, p, type)
    BY <2>1 DEF bad
  <2>3. w \in {4, 8}
    BY <1>2, <1>7 DEF w, Width, Types, IsScalar, inline
  <2>4. p \in Int
    BY <1>4, <1>7, <2>2, <2>3, OffsetSafe DEF p
  <2>5. /\ r \in AtDepth(d)
        /\ type = "table" => safe[p]
        /\ type = "tables" => \A i \in 1 .. Size(m, p) : safe[Pointers(m, p)[i]]
    <3>1. CASE type = "table"
      <4> DEFINE ts == <<p>>
      <4>1. ts \in Seq(Int) /\ Len(ts) = 1 /\ ts[1] = p
        BY <2>4
      <4>2. r = VerifyTables(ts, v, below)
        BY <1>1, <1>7, <2>1, <3>1, Zenon
      <4> HIDE DEF ts
      <4>3. r \in AtDepth(d) /\ \A i \in 1 .. Len(ts) : safe[ts[i]]
        BY <1>4, <4>1, <4>2, TablesSafe
      <4>4. safe[p]
        BY <4>1, <4>3
      <4> QED
        BY <3>1, <4>3, <4>4
    <3>2. CASE type = "tables"
      <4> DEFINE ts == Pointers(m, p)
      <4>1. VerifyVectorOrString(m, p, 4) /\ 4 \in Nat
        BY <2>2, <3>2 DEF Content
      <4>2. SafeVector(m, p, 4) /\ Size(m, p) \in Nat
        BY <2>4, <4>1, VectorSafe
      <4>3. ts \in Seq(Int) /\ Len(ts) = Size(m, p)
        BY <2>4, <4>2, PointersAre
      <4>4. r = VerifyTables(ts, v, below)
        <5>1. type # "table"
          BY <3>2
        <5> QED
          BY <1>1, <1>7, <2>1, <3>2, <5>1, Zenon
      <4> HIDE DEF ts
      <4>5. r \in AtDepth(d) /\ \A i \in 1 .. Len(ts) : safe[ts[i]]
        BY <1>4, <4>3, <4>4, TablesSafe
      <4> QED
        BY <3>2, <4>3, <4>5 DEF ts
    <3>3. CASE type # "table" /\ type # "tables"
      BY <1>1, <1>4, <1>7, <2>1, <3>3
    <3> QED
      BY <3>1, <3>2, <3>3
  <2>6. SafeField(m, at, type, safe)
    BY <1>2, <1>4, <1>7, <2>2, <2>5, ContentSafe DEF inline, p, w
  <2> QED
    BY <2>5, <2>6 DEF at, r, type
<1> QED
  BY <1>5, <1>6, <1>7

(* A whole table. *)
LEMMA TableSafe ==
  ASSUME SchemaOK, NEW m, IsMemory(m), NEW t \in Int, NEW d \in Nat, NEW v \in AtDepth(d),
         NEW below, NEW safe, Sound(below, safe, d + 1), VerifyTable(m, t, v, below).ok
  PROVE  VerifyTable(m, t, v, below) \in AtDepth(d) /\ SafeTable(m, t, safe)
<1>0. \E a : /\ a[0] = VerifyTableStart(m, t, v)
             /\ VerifyFields(m, t, VerifyTableStart(m, t, v), below) = a[LastField]
             /\ \A n \in 1 .. LastField :
                  a[n] = IF n \in DOMAIN Schema /\ a[n - 1].ok
                         THEN VerifyField(m, t, n, a[n - 1], below) ELSE a[n - 1]
  BY LastFieldIs, FieldsLoop
<1> DEFINE start == VerifyTableStart(m, t, v)
           w == VerifyFields(m, t, start, below)
           r == VerifyTable(m, t, v, below)
           L == LastField
           vtable == GetVTable(m, t)
           size == Scalar(m, vtable, 2)
<1>1. r = IF w.ok THEN EndTable(w) ELSE w
  BY Zenon DEF VerifyTable, Ended
<1>2. w.ok
  <2> SUFFICES ASSUME ~w.ok PROVE FALSE
    OBVIOUS
  <2>1. r = w
    BY <1>1, Zenon
  <2> HIDE DEF w
  <2> QED
    BY <2>1
<1>3. L \in Nat /\ \A f \in DOMAIN Schema : f \in 1 .. L
  BY LastFieldIs
<1>4. PICK a : /\ a[0] = start /\ w = a[L]
               /\ \A n \in 1 .. L :
                    a[n] = IF n \in DOMAIN Schema /\ a[n - 1].ok
                           THEN VerifyField(m, t, n, a[n - 1], below) ELSE a[n - 1]
  BY <1>0, Zenon
<1>5. v \in Counters /\ v.depth = d
  BY DEF AtDepth
<1> HIDE DEF w, L
<1>6. \A n \in 0 .. L : a[n].ok
  <2>1. \A n \in 1 .. L : a[n].ok => a[n - 1].ok
    BY <1>4
  <2> QED
    BY <1>2, <1>3, <1>4, <2>1, StaysOk
<1>7. /\ Inside(m, t, 4) /\ 0 <= t /\ vtable \in Int /\ Inside(m, vtable, 2)
      /\ size \in Nat /\ size % 2 = 0 /\ Inside(m, vtable, size)
      /\ start \in AtDepth(d + 1)
  <2>1. 0 \in 0 .. L
    BY <1>3
  <2>2. VerifyTableStart(m, t, v).ok
    BY <1>4, <1>6, <2>1, Zenon
  <2> QED
    BY <1>5, <2>2, StartSafe DEF AtDepth
<1> HIDE DEF start, r
<1>8. t \in Nat
  BY <1>7
<1>9. ASSUME NEW f \in DOMAIN Schema
      PROVE  /\ f < size => Inside(m, vtable + f, 2)
             /\ CheckField(m, t, f) => GetAddressOf(m, t, f) \in Int \ {0}
             /\ GetAddressOf(m, t, f) # Null <=> CheckField(m, t, f)
  <2>1. f \in Nat /\ f % 2 = 0 /\ f >= 4
    <3>1. f \in 4 .. MaxVOffset /\ f % 2 = 0
      BY Zenon DEF SchemaOK
    <3>2. MaxVOffset \in Nat
      BY DEF MaxVOffset
    <3> QED
      BY <3>1, <3>2
  <2> QED
    BY <1>7, <1>8, <2>1, AddressIs
<1>10. ASSUME NEW n \in 1 .. L, a[n - 1] \in AtDepth(d + 1)
       PROVE  /\ a[n] \in AtDepth(d + 1)
              /\ n \in DOMAIN Schema /\ CheckField(m, t, n) =>
                   SafeField(m, GetAddressOf(m, t, n), Schema[n], safe)
  <2>1. n - 1 \in 0 .. L /\ n \in 0 .. L
    BY <1>3
  <2>2. a[n].ok /\ a[n - 1].ok
    BY <1>6, <2>1
  <2>3. CASE n \in DOMAIN Schema
    <3>1. a[n] = VerifyField(m, t, n, a[n - 1], below)
      BY <1>4, <2>2, <2>3
    <3>2. VerifyField(m, t, n, a[n - 1], below).ok
      BY <2>2, <3>1, Zenon
    <3>3. GetAddressOf(m, t, n) # Null => GetAddressOf(m, t, n) \in Int
      BY <1>9, <2>3
    <3>4. /\ VerifyField(m, t, n, a[n - 1], below) \in AtDepth(d + 1)
          /\ GetAddressOf(m, t, n) # Null =>
               SafeField(m, GetAddressOf(m, t, n), Schema[n], safe)
      BY <1>8, <1>10, <2>3, <3>2, <3>3, FieldSafe
    <3> QED
      BY <1>9, <2>3, <3>1, <3>4, Zenon
  <2>4. CASE n \notin DOMAIN Schema
    <3>1. a[n] = a[n - 1]
      BY <1>4, <2>4
    <3> QED
      BY <1>10, <2>4, <3>1, Zenon
  <2> QED
    BY <2>3, <2>4
<1>11. \A n \in 0 .. L : a[n] \in AtDepth(d + 1)
  <2>1. a[0] \in AtDepth(d + 1)
    BY <1>4, <1>7, Zenon
  <2>2. \A n \in 1 .. L : a[n - 1] \in AtDepth(d + 1) => a[n] \in AtDepth(d + 1)
    BY <1>10
  <2> QED
    BY <1>3, <2>1, <2>2, StaysGood
<1>12. \A n \in 1 .. L : n - 1 \in 0 .. L
  BY <1>3
<1>13. \A f \in DOMAIN Schema : CheckField(m, t, f) =>
          SafeField(m, GetAddressOf(m, t, f), Schema[f], safe)
  <2> TAKE f \in DOMAIN Schema
  <2>1. f \in 1 .. L /\ a[f - 1] \in AtDepth(d + 1)
    BY <1>3, <1>11, <1>12
  <2> QED
    BY <2>1, <1>10
<1>14. SafeTable(m, t, safe)
  <2> HIDE DEF vtable, size
  <2>1. \A f \in DOMAIN Schema : f < size =>
          /\ Inside(m, vtable + f, 2)
          /\ CheckField(m, t, f) => SafeField(m, GetAddressOf(m, t, f), Schema[f], safe)
    BY <1>9, <1>13, Zenon
  <2> QED
    BY <1>7, <2>1, Zenon DEF SafeTable, vtable, size
<1>15. r \in AtDepth(d)
  <2>1. L \in 0 .. L
    BY <1>3
  <2>2. w \in AtDepth(d + 1)
    BY <1>4, <1>11, <2>1, Zenon
  <2>3. w \in Counters /\ w.depth = d + 1 /\ w.depth > 0 /\ (d + 1) - 1 = d
    BY <2>2 DEF AtDepth
  <2>4. EndTable(w) \in Counters /\ EndTable(w).depth = d
    BY <2>3, Shallower
  <2> QED
    BY <1>1, <1>2, <2>4 DEF AtDepth
<1> QED
  BY <1>14, <1>15 DEF r

(* Every level of the verifier accepts only tables that can be read as deep. *)
LEMMA LevelsSound ==
  ASSUME SchemaOK, NEW m, IsMemory(m)
  PROVE  \A l \in 0 .. max_depth : Sound(Verifiers(m)[l], SafeTables(m)[l], max_depth - l)
<1> DEFINE M == max_depth
           V == Verifiers(m)
           S == SafeTables(m)
           Bad == {l \in 0 .. M : ~ Sound(V[l], S[l], M - l)}
<1>1. M \in Nat
  BY DEF SchemaOK
<1>2. /\ V = [l \in 0 .. M |-> [t \in Int |-> [v \in Counters |->
                IF l = 0 THEN VerifyTableStart(m, t, v)
                ELSE VerifyTable(m, t, v, V[l - 1])]]]
      /\ S = [l \in 0 .. M |-> [t \in Int |-> l > 0 /\ SafeTable(m, t, S[l - 1])]]
  BY <1>1, VerifiersDef, SafeTablesDef, Zenon
<1> HIDE DEF M, V, S
<1>3. \A l \in 0 .. M : \A t \in Int : \A v \in Counters :
        V[l][t][v] = IF l = 0 THEN VerifyTableStart(m, t, v)
                     ELSE VerifyTable(m, t, v, V[l - 1])
  <2> TAKE l \in 0 .. M
  <2> TAKE t \in Int
  <2> TAKE v \in Counters
  <2> DEFINE f == V[l - 1]
             g == [x \in Int |-> [y \in Counters |->
                    IF l = 0 THEN VerifyTableStart(m, x, y) ELSE VerifyTable(m, x, y, f)]]
  <2>1. V[l] = g
    BY <1>2, Zenon
  <2>2. g[t][v] = IF l = 0 THEN VerifyTableStart(m, t, v) ELSE VerifyTable(m, t, v, f)
    BY Zenon
  <2> HIDE DEF g
  <2> QED
    BY <2>1, <2>2, Zenon
<1>4. \A l \in 0 .. M : \A t \in Int : S[l][t] = (l > 0 /\ SafeTable(m, t, S[l - 1]))
  <2> TAKE l \in 0 .. M
  <2> TAKE t \in Int
  <2> DEFINE f == S[l - 1]
             g == [x \in Int |-> l > 0 /\ SafeTable(m, x, f)]
  <2>1. S[l] = g
    BY <1>2, Zenon
  <2>2. g[t] = (l > 0 /\ SafeTable(m, t, f))
    BY Zenon
  <2> HIDE DEF g
  <2> QED
    BY <2>1, <2>2, Zenon
<1>5. ASSUME Bad # {} PROVE FALSE
  <2>1. Bad \subseteq Nat
    OBVIOUS
  <2>2. PICK l \in Bad : \A k \in Bad : l <= k
    BY <1>5, <2>1, Least
  <2>3. l \in 0 .. M /\ ~ Sound(V[l], S[l], M - l)
    OBVIOUS
  <2> HIDE DEF Bad
  <2>4. CASE l = 0
    <3>1. ASSUME NEW t \in Int, NEW v \in AtDepth(M - l), V[l][t][v].ok PROVE FALSE
      <4>1. v \in Counters /\ v.depth = M
        BY <1>1, <2>4 DEF AtDepth
      <4>2. VerifyTableStart(m, t, v).ok
        BY <1>3, <2>3, <2>4, <3>1, <4>1
      <4>3. /\ VerifyTableStart(m, t, v).depth = v.depth + 1
            /\ VerifyTableStart(m, t, v).depth <= M
        BY <4>1, <4>2, StartSafe DEF M
      <4> QED
        BY <1>1, <4>1, <4>3
    <3> QED
      BY <2>3, <3>1, Zenon DEF Sound
  <2>5. CASE l # 0
    <3> DEFINE d == M - l
    <3>1. /\ d \in Nat /\ l - 1 \in 0 .. M /\ ~ (l <= l - 1) /\ M - (l - 1) = d + 1 /\ l > 0
      BY <1>1, <2>3, <2>5
    <3>2. Sound(V[l - 1], S[l - 1], d + 1)
      BY <2>2, <3>1 DEF Bad
    <3> HIDE DEF d
    <3>3. ASSUME NEW t \in Int, NEW v \in AtDepth(d), V[l][t][v].ok
          PROVE  V[l][t][v] \in AtDepth(d) /\ S[l][t]
      <4>1. v \in Counters
        BY DEF AtDepth
      <4>2. V[l][t][v] = VerifyTable(m, t, v, V[l - 1])
        BY <1>3, <2>3, <2>5, <4>1
      <4>3. S[l][t] = (l > 0 /\ SafeTable(m, t, S[l - 1]))
        BY <1>4, <2>3
      <4>4. VerifyTable(m, t, v, V[l - 1]).ok
        BY <3>3, <4>2, Zenon
      <4>5. VerifyTable(m, t, v, V[l - 1]) \in AtDepth(d) /\ SafeTable(m, t, S[l - 1])
        BY <3>1, <3>2, <4>4, TableSafe
      <4> QED
        BY <3>1, <4>2, <4>3, <4>5, Zenon
    <3> QED
      BY <2>3, <3>3, Zenon DEF Sound, d
  <2> QED
    BY <2>4, <2>5
<1> QED
  BY <1>5 DEF M, V, S

(* flatbuffers::Verifier is sound: whatever the schema, the options and the
   bytes, in a buffer that VerifyBuffer() accepts the accessors stay inside the
   buffer from the root to the last leaf. *)
THEOREM VerifierIsSound ==
  ASSUME NEW m, IsMemory(m), NEW identifier, NEW start \in Nat,
         VerifyBufferFromStart(m, identifier, start)
  PROVE  Safe(m, start)
<1>0. SchemaOK
  BY SchemaConstants
<1> DEFINE root == Follow(m, start, 4)
           d == max_depth - max_depth
<1>1. VerifyOffset(m, start, 4) /\ Verifiers(m)[max_depth][root][Fresh].ok
  BY Zenon DEF VerifyBufferFromStart
<1>2. Inside(m, start, 4) /\ root \in Int
  BY <1>0, <1>1, OffsetSafe
<1>3. max_depth \in Nat
  BY <1>0 DEF SchemaOK
<1>4. Fresh \in AtDepth(d)
  BY <1>3 DEF Fresh, AtDepth, Counters
<1>5. Sound(Verifiers(m)[max_depth], SafeTables(m)[max_depth], d)
  <2>1. max_depth \in 0 .. max_depth
    BY <1>3
  <2> QED
    BY <1>0, <2>1, LevelsSound
<1> HIDE DEF root, d
<1>6. SafeTables(m)[max_depth][root]
  BY <1>1, <1>2, <1>4, <1>5, Zenon DEF Sound
<1> QED
  BY <1>2, <1>6, Zenon DEF Safe, GetRoot, root

-------------------------------------------------------------------------------
(* The buffers of the builder *)

(* Where the root offset lies is known once the buffer is finished. *)
LEMMA StartIsKnown == Spec => [](sealed.start \in Nat)
<1>1. Init => sealed.start \in Nat
  BY DEF Init, Unsealed
<1>2. sealed.start \in Nat /\ [Next]_vars => (sealed.start \in Nat)'
  <2> SUFFICES ASSUME sealed.start \in Nat, [Next]_vars PROVE sealed'.start \in Nat
    OBVIOUS
  <2>1. CASE FinishBuffer
    <3>1. PICK root \in Tables, prefixed \in BOOLEAN, identifier \in {<<>>, Identifier} :
            sealed' = [root |-> root, identifier |-> identifier,
                       start |-> IF ~prefixed THEN 0 ELSE IF Is64Aware THEN 8 ELSE 4]
      BY <2>1, Zenon DEF FinishBuffer
    <3> QED
      BY <3>1
  <2>2. CASE Clear
    BY <2>2 DEF Clear, Unsealed
  <2>3. CASE UNCHANGED sealed
    BY <2>3
  <2>4. CASE \/ CreateString \/ CreateSharedString \/ CreateString64
             \/ CreateBytes \/ CreateUninitializedVector \/ CreateLongs
             \/ CreateVectorOfStructs \/ CreateVectorOfStrings
             \/ CreateVectorOfTables \/ CreateVectorOfSortedTables
    <3>1. UNCHANGED sealed
      BY <2>4, Zenon DEF CreateString, CreateSharedString, CreateString64, CreateBytes,
           CreateUninitializedVector, CreateLongs, CreateVectorOfStructs,
           CreateVectorOfStrings, CreateVectorOfTables, CreateVectorOfSortedTables, Made
    <3> QED
      BY <2>3, <3>1
  <2>5. CASE StartTable \/ AddScalar \/ AddReference \/ AddInline \/ EndOfTable \/ Mutate
    <3>1. UNCHANGED sealed
      BY <2>5, Zenon DEF StartTable, AddScalar, AddReference, AddInline, EndOfTable, Mutate, Add
    <3> QED
      BY <2>3, <3>1
  <2>6. CASE UNCHANGED vars
    BY <2>6 DEF vars
  <2> QED
    BY <2>1, <2>2, <2>4, <2>5, <2>6, Zenon DEF Next
<1> QED
  BY <1>1, <1>2, PTL DEF Spec

LEMMA ElementOf ==
  ASSUME NEW S, NEW s \in Seq(S)
  PROVE  \A i \in 1 .. Len(s) : s[i] \in S
OBVIOUS

LEMMA SequenceOf ==
  ASSUME NEW S, NEW n \in Nat, NEW F(_), \A i \in 1 .. n : F(i) \in S
  PROVE  [i \in 1 .. n |-> F(i)] \in Seq(S) /\ Len([i \in 1 .. n |-> F(i)]) = n
OBVIOUS
-------------------------------------------------------------------------------
(* What is in the buffer of the builder is bytes *)

Byte == 0 .. 255

Entry == [off : Int, id : Int]

Builder == [back : Seq(Byte), scratch : Seq(Int \cup Entry), num_field_loc : Nat,
            max_voffset : Int, len64 : Int, nested : BOOLEAN, finished : BOOLEAN,
            minalign : Nat \ {0}, pool : SUBSET Int]

(* c is b with more in the buffer. *)
Wrote(b, c) == /\ b \in Builder /\ c \in Builder
               /\ c.scratch = b.scratch /\ c.num_field_loc = b.num_field_loc
               /\ c.pool = b.pool /\ c.len64 = b.len64
               /\ Len(c.back) >= Len(b.back)

LEMMA WroteMore ==
  ASSUME NEW b, NEW c, NEW d, Wrote(b, c), Wrote(c, d)
  PROVE  Wrote(b, d)
<1>1. Len(b.back) \in Nat /\ Len(c.back) \in Nat /\ Len(d.back) \in Nat
  BY DEF Wrote, Builder
<1> QED
  BY <1>1 DEF Wrote

LEMMA WroteNothing == \A b \in Builder : Wrote(b, b)
<1> SUFFICES ASSUME NEW b \in Builder PROVE Wrote(b, b)
  OBVIOUS
<1>1. Len(b.back) \in Nat
  BY DEF Builder
<1> QED
  BY <1>1 DEF Wrote

LEMMA ReverseIs ==
  ASSUME NEW S, NEW s \in Seq(S)
  PROVE  Reverse(s) \in Seq(S) /\ Len(Reverse(s)) = Len(s)
<1>1. \A i \in 1 .. Len(s) : Len(s) - i + 1 \in 1 .. Len(s)
  OBVIOUS
<1>2. Reverse(s) = [i \in 1 .. Len(s) |-> s[Len(s) - i + 1]]
  BY DEF Reverse
<1>3. \A i \in 1 .. Len(s) : s[Len(s) - i + 1] \in S
  BY <1>1, ElementOf
<1> QED
  BY <1>2, <1>3, SequenceOf

LEMMA ByteOfNumber == \A n \in Int : n % 256 \in Byte
BY DEF Byte

LEMMA BytesAre ==
  ASSUME NEW n \in Int, NEW size \in Nat
  PROVE  Bytes(n, size) \in Seq(Byte) /\ Len(Bytes(n, size)) = size
<1> DEFINE F(i) == CASE i = 1 -> n % 256
                     [] i = 2 -> (n \div 256) % 256
                     [] OTHER -> IF n < 0 THEN 255 ELSE 0
<1>1. \A i \in 1 .. size : F(i) \in Byte
  <2>1. n % 256 \in Byte /\ (n \div 256) % 256 \in Byte
    BY ByteOfNumber
  <2>2. 0 \in Byte /\ 255 \in Byte
    BY DEF Byte
  <2> QED
    BY <2>1, <2>2
<1>2. Bytes(n, size) = [i \in 1 .. size |-> F(i)]
  BY DEF Bytes
<1> HIDE DEF F
<1>3. [i \in 1 .. size |-> F(i)] \in Seq(Byte) /\ Len([i \in 1 .. size |-> F(i)]) = size
  BY <1>1, SequenceOf
<1> QED
  BY <1>2, <1>3, Zenon

LEMMA BackIs ==
  ASSUME NEW b \in Builder, NEW x \in Seq(Byte), Len(x) >= Len(b.back)
  PROVE  Wrote(b, [b EXCEPT !.back = x]) /\ [b EXCEPT !.back = x].back = x
BY DEF Wrote, Builder

LEMMA PushIs ==
  ASSUME NEW b \in Builder, NEW bytes \in Seq(Byte)
  PROVE  Wrote(b, Push(b, bytes)) /\ Len(Push(b, bytes).back) = Len(b.back) + Len(bytes)
<1> DEFINE s == b.back
           r == Reverse(bytes)
<1>1. s \in Seq(Byte)
  BY DEF Builder
<1>2. r \in Seq(Byte) /\ Len(r) = Len(bytes)
  BY ReverseIs
<1>3. Push(b, bytes) = [b EXCEPT !.back = s \o r]
  BY DEF Push
<1> HIDE DEF s, r
<1>4. s \o r \in Seq(Byte) /\ Len(s \o r) = Len(s) + Len(bytes) /\ Len(s) \in Nat
      /\ Len(bytes) \in Nat
  BY <1>1, <1>2
<1>5. Wrote(b, [b EXCEPT !.back = s \o r]) /\ [b EXCEPT !.back = s \o r].back = s \o r
  <2> DEFINE x == s \o r
  <2>1. x \in Seq(Byte) /\ Len(x) >= Len(b.back)
    BY <1>4 DEF s
  <2> HIDE DEF x
  <2>2. Wrote(b, [b EXCEPT !.back = x]) /\ [b EXCEPT !.back = x].back = x
    BY <2>1, BackIs
  <2> QED
    BY <2>2 DEF x
<1> QED
  BY <1>3, <1>4, <1>5 DEF s

LEMMA FillIs ==
  ASSUME NEW b \in Builder, NEW n \in Nat
  PROVE  Wrote(b, Fill(b, n)) /\ Len(Fill(b, n).back) = Len(b.back) + n
<1> DEFINE z == [i \in 1 .. n |-> 0]
<1>1. z \in Seq(Byte) /\ Len(z) = n
  <2>1. 0 \in Byte
    BY DEF Byte
  <2> QED
    BY <2>1, SequenceOf
<1>2. Fill(b, n) = Push(b, z)
  BY DEF Fill
<1> HIDE DEF z
<1> QED
  BY <1>1, <1>2, PushIs

LEMMA SizeIs ==
  ASSUME NEW b \in Builder
  PROVE  GetSize(b) \in Nat /\ GetSizeRelative32BitRegion(b) \in Int
BY DEF Builder, GetSize, GetSizeRelative32BitRegion

LEMMA PaddingIs == \A size \in Int, a \in Nat \ {0} : PaddingBytes(size, a) \in Nat
BY DEF PaddingBytes

LEMMA TrackIs ==
  ASSUME NEW b \in Builder, NEW size \in Nat
  PROVE  Wrote(b, TrackMinAlign(b, size))
<1>1. Most(b.minalign, size) \in Nat \ {0}
  BY DEF Most, Builder
<1>2. Len(b.back) \in Nat
  BY DEF Builder
<1>3. TrackMinAlign(b, size) = [b EXCEPT !.minalign = Most(b.minalign, size)]
  BY DEF TrackMinAlign
<1> QED
  BY <1>1, <1>2, <1>3, SMTT(30) DEF Wrote, Builder

LEMMA AlignIs ==
  ASSUME NEW b \in Builder, NEW size \in Nat \ {0}
  PROVE  Wrote(b, Align(b, size))
<1> DEFINE c == TrackMinAlign(b, size)
           n == PaddingBytes(GetSize(b), size)
<1>1. Wrote(b, c)
  BY TrackIs
<1>2. n \in Nat
  BY SizeIs, PaddingIs
<1>3. Align(b, size) = Fill(c, n)
  BY DEF Align
<1> HIDE DEF c, n
<1>4. Wrote(c, Fill(c, n))
  BY <1>1, <1>2, FillIs DEF Wrote
<1> QED
  BY <1>1, <1>3, <1>4, WroteMore

LEMMA PreAlignIs ==
  ASSUME NEW b \in Builder, NEW len \in Nat, NEW a \in Nat \ {0}
  PROVE  Wrote(b, PreAlign(b, len, a))
<1> DEFINE c == TrackMinAlign(b, a)
           n == PaddingBytes(GetSize(b) + len, a)
<1>1. Wrote(b, c)
  BY TrackIs
<1>2. n \in Nat
  <2>1. GetSize(b) + len \in Int
    BY SizeIs
  <2> QED
    BY <2>1, PaddingIs
<1>3. PreAlign(b, len, a) = IF len = 0 THEN b ELSE Fill(c, n)
  BY DEF PreAlign
<1> HIDE DEF c, n
<1>4. Wrote(c, Fill(c, n))
  BY <1>1, <1>2, FillIs DEF Wrote
<1> QED
  BY <1>1, <1>3, <1>4, WroteMore, WroteNothing

LEMMA PushElementIs ==
  ASSUME NEW b \in Builder, NEW n \in Int, NEW size \in Nat \ {0}
  PROVE  Wrote(b, PushElement(b, n, size))
<1> DEFINE c == Align(b, size)
           s == Bytes(n, size)
<1>1. Wrote(b, c)
  BY AlignIs
<1>2. s \in Seq(Byte)
  BY BytesAre
<1>3. PushElement(b, n, size) = Push(c, s)
  BY DEF PushElement
<1> HIDE DEF c, s
<1>4. Wrote(c, Push(c, s))
  BY <1>1, <1>2, PushIs DEF Wrote
<1> QED
  BY <1>1, <1>3, <1>4, WroteMore

LEMMA PushOffsetIs ==
  ASSUME NEW b \in Builder, NEW off \in Int, NEW size \in Nat \ {0}
  PROVE  Wrote(b, PushOffset(b, off, size))
<1> DEFINE c == Align(b, size)
           n == ReferTo(c, off, size)
<1>1. Wrote(b, c)
  BY AlignIs
<1>2. n \in Int
  <2>1. c \in Builder
    BY <1>1 DEF Wrote
  <2> HIDE DEF c
  <2> QED
    BY <2>1, SizeIs DEF ReferTo
<1>3. PushOffset(b, off, size) = PushElement(c, n, size)
  BY DEF PushOffset
<1> HIDE DEF c, n
<1>4. Wrote(c, PushElement(c, n, size))
  BY <1>1, <1>2, PushElementIs DEF Wrote
<1> QED
  BY <1>1, <1>3, <1>4, WroteMore

LEMMA StoreStringIs ==
  ASSUME NEW b \in Builder, NEW chars \in Seq(Byte)
  PROVE  Wrote(b, StoreString(b, chars))
<1> DEFINE c == PreAlign(b, Len(chars) + 1, 4)
           d == Fill(c, 1)
           e == Push(d, chars)
<1>1. Wrote(b, c)
  BY PreAlignIs
<1>2. Wrote(c, d)
  BY <1>1, FillIs DEF Wrote
<1>3. Wrote(d, e)
  BY <1>2, PushIs DEF Wrote
<1>4. StoreString(b, chars) = PushElement(e, Len(chars), 4)
  BY DEF StoreString
<1> HIDE DEF c, d, e
<1>5. Wrote(e, PushElement(e, Len(chars), 4))
  BY <1>3, PushElementIs DEF Wrote
<1>6. Wrote(b, e)
  BY <1>1, <1>2, <1>3, WroteMore
<1> QED
  BY <1>4, <1>5, <1>6, WroteMore

LEMMA NestedIs ==
  ASSUME NEW b \in Builder, NEW v \in BOOLEAN
  PROVE  Wrote(b, [b EXCEPT !.nested = v])
<1>1. Len(b.back) \in Nat
  BY DEF Builder
<1> QED
  BY <1>1, SMTT(60) DEF Wrote, Builder

LEMMA StartVectorIs ==
  ASSUME NEW b \in Builder, NEW len \in Nat, NEW size \in Nat, NEW a \in Nat \ {0}
  PROVE  Wrote(b, StartVector(b, len, size, a))
<1> DEFINE n == len * size
           c == PreAlign(b, n, 4)
           d == PreAlign(c, n, a)
<1>1. n \in Nat
  OBVIOUS
<1>2. StartVector(b, len, size, a) = [d EXCEPT !.nested = TRUE]
  BY DEF StartVector
<1> HIDE DEF n
<1>3. Wrote(b, c)
  BY <1>1, PreAlignIs
<1> HIDE DEF c
<1>4. Wrote(c, d)
  BY <1>1, <1>3, PreAlignIs DEF Wrote
<1> HIDE DEF d
<1>5. Wrote(d, [d EXCEPT !.nested = TRUE])
  BY <1>4, NestedIs DEF Wrote
<1>6. Wrote(b, d)
  BY <1>3, <1>4, WroteMore
<1> QED
  BY <1>2, <1>5, <1>6, WroteMore

LEMMA EndVectorIs ==
  ASSUME NEW b \in Builder, NEW len \in Nat
  PROVE  Wrote(b, EndVector(b, len))
<1> DEFINE c == PushElement(b, len, 4)
<1>1. Wrote(b, c)
  BY PushElementIs
<1>2. EndVector(b, len) = [c EXCEPT !.nested = FALSE]
  BY DEF EndVector
<1> HIDE DEF c
<1>3. Wrote(c, [c EXCEPT !.nested = FALSE])
  BY <1>1, NestedIs DEF Wrote
<1> QED
  BY <1>1, <1>2, <1>3, WroteMore

LEMMA StoreVectorIs ==
  ASSUME NEW b \in Builder, NEW len \in Nat, NEW size \in Nat \ {0}, NEW bytes \in Seq(Byte)
  PROVE  Wrote(b, StoreVector(b, len, size, bytes))
<1> DEFINE c == StartVector(b, len, size, size)
           d == Push(c, bytes)
<1>1. Wrote(b, c)
  BY StartVectorIs
<1>2. StoreVector(b, len, size, bytes) = EndVector(d, len)
  BY DEF StoreVector
<1> HIDE DEF c
<1>3. Wrote(c, d)
  BY <1>1, PushIs DEF Wrote
<1> HIDE DEF d
<1>4. Wrote(d, EndVector(d, len))
  BY <1>3, EndVectorIs DEF Wrote
<1>5. Wrote(b, d)
  BY <1>1, <1>3, WroteMore
<1> QED
  BY <1>2, <1>4, <1>5, WroteMore

LEMMA StoreStructsIs ==
  ASSUME SchemaOK, NEW b \in Builder, NEW len \in Nat, NEW bytes \in Seq(Byte)
  PROVE  Wrote(b, StoreStructs(b, len, bytes))
<1> DEFINE n == (len * StructSize) \div StructAlign
           c == StartVector(b, n, StructSize, StructAlign)
           d == Push(c, bytes)
<1>1. StructSize \in Nat /\ StructAlign \in Nat \ {0}
  BY Zenon DEF SchemaOK
<1>2. n \in Nat
  <2> DEFINE k == len * StructSize
  <2>1. k \in Nat
    BY <1>1
  <2> HIDE DEF k
  <2>2. k \div StructAlign \in Nat
    BY <1>1, <2>1
  <2> QED
    BY <2>2 DEF k
<1>3. StoreStructs(b, len, bytes) = EndVector(d, len)
  BY DEF StoreStructs
<1> HIDE DEF n
<1>4. Wrote(b, c)
  BY <1>1, <1>2, StartVectorIs
<1> HIDE DEF c
<1>5. Wrote(c, d)
  BY <1>4, PushIs DEF Wrote
<1> HIDE DEF d
<1>6. Wrote(d, EndVector(d, len))
  BY <1>5, EndVectorIs DEF Wrote
<1>7. Wrote(b, d)
  BY <1>4, <1>5, WroteMore
<1> QED
  BY <1>3, <1>6, <1>7, WroteMore

LEMMA WriteAtIs ==
  ASSUME NEW b \in Builder, NEW o \in Int, NEW bytes \in Seq(Byte)
  PROVE  Wrote(b, WriteAt(b, o, bytes))
<1> DEFINE s == b.back
           x == [i \in DOMAIN s |-> IF o - Len(bytes) < i /\ i <= o THEN bytes[o - i + 1]
                                    ELSE s[i]]
<1>1. s \in Seq(Byte)
  BY DEF Builder
<1>2. WriteAt(b, o, bytes) = [b EXCEPT !.back = x]
  BY DEF WriteAt
<1> HIDE DEF s
<1>3. Len(s) \in Nat /\ DOMAIN s = 1 .. Len(s)
  BY <1>1
<1>4. \A i \in 1 .. Len(s) :
         (IF o - Len(bytes) < i /\ i <= o THEN bytes[o - i + 1] ELSE s[i]) \in Byte
  <2> SUFFICES ASSUME NEW i \in 1 .. Len(s)
               PROVE  (IF o - Len(bytes) < i /\ i <= o THEN bytes[o - i + 1] ELSE s[i]) \in Byte
    OBVIOUS
  <2>1. s[i] \in Byte
    BY <1>1, ElementOf
  <2>2. ASSUME o - Len(bytes) < i /\ i <= o PROVE bytes[o - i + 1] \in Byte
    <3>1. o - i + 1 \in 1 .. Len(bytes)
      BY <1>3, <2>2
    <3> QED
      BY <3>1, ElementOf
  <2> QED
    BY <2>1, <2>2
<1>5. x \in Seq(Byte) /\ Len(x) = Len(s)
  BY <1>3, <1>4
<1> HIDE DEF x
<1>6. Len(x) >= Len(b.back)
  BY <1>3, <1>5 DEF s
<1> QED
  BY <1>2, <1>5, <1>6, BackIs

LEMMA StoreUninitializedIs ==
  ASSUME NEW b \in Builder, NEW len \in Nat, NEW bytes \in Seq(Byte)
  PROVE  Wrote(b, StoreUninitialized(b, len, bytes))
<1> DEFINE c == StartVector(b, len, 1, 1)
           d == Fill(c, Len(bytes))
           e == EndVector(d, len)
           o == GetSizeRelative32BitRegion(d)
<1>1. Wrote(b, c)
  BY StartVectorIs
<1>2. StoreUninitialized(b, len, bytes) = WriteAt(e, o, bytes)
  BY DEF StoreUninitialized
<1> HIDE DEF c
<1>3. Wrote(c, d)
  BY <1>1, FillIs DEF Wrote
<1> HIDE DEF d
<1>4. Wrote(d, e) /\ o \in Int
  BY <1>3, EndVectorIs, SizeIs DEF Wrote
<1> HIDE DEF e, o
<1>5. Wrote(e, WriteAt(e, o, bytes))
  BY <1>4, WriteAtIs DEF Wrote
<1>6. Wrote(b, e)
  BY <1>1, <1>3, <1>4, WroteMore
<1> QED
  BY <1>2, <1>5, <1>6, WroteMore

(* The turns of the loops that push offsets, *)
LEMMA OffsetsLoop ==
  ASSUME NEW b, NEW offs, Len(offs) \in Nat
  PROVE  \E a : /\ a[0] = b /\ PushOffsets(b, offs) = a[Len(offs)]
                /\ \A n \in 1 .. Len(offs) : a[n] = PushOffset(a[n - 1], offs[n], 4)
<1> DEFINE L == Len(offs)
           Turn(n, w) == PushOffset(w, offs[n], 4)
           Fits(f, n) == f = [i \in 0 .. n |-> IF i = 0 THEN b ELSE Turn(i, f[i - 1])]
           Bad == {n \in Nat : ~ \E f : Fits(f, n)}
<1> HIDE DEF Turn
<1>1. ASSUME Bad # {} PROVE FALSE
  <2>1. PICK n \in Bad : \A k \in Bad : n <= k
    BY <1>1, Least
  <2>2. n # 0
    <3>1. Fits([i \in 0 .. 0 |-> b], 0)
      OBVIOUS
    <3> QED
      BY <3>1
  <2>3. PICK f : Fits(f, n - 1)
    <3>1. n \in Nat /\ n - 1 \in Nat /\ ~ (n <= n - 1)
      BY <2>2
    <3> HIDE DEF Fits
    <3>2. n - 1 \notin Bad
      BY <2>1, <3>1
    <3> QED
      BY <3>1, <3>2
  <2> DEFINE g == [i \in 0 .. n |-> IF i = n THEN Turn(n, f[n - 1]) ELSE f[i]]
  <2>4. ASSUME NEW i \in 0 .. n
        PROVE  g[i] = IF i = 0 THEN b ELSE Turn(i, g[i - 1])
    <3>1. CASE i = n
      BY <3>1, <2>2
    <3>2. CASE i # n
      <4>1. i \in 0 .. (n - 1) /\ g[i] = f[i] /\ (i # 0 => g[i - 1] = f[i - 1])
        BY <3>2, <2>2
      <4>2. f[i] = IF i = 0 THEN b ELSE Turn(i, f[i - 1])
        BY <4>1, <2>3
      <4> QED
        BY <4>1, <4>2
    <3> QED
      BY <3>1, <3>2
  <2>5. Fits(g, n)
    BY <2>4
  <2> QED
    BY <2>1, <2>5
<1> DEFINE a == CHOOSE f : Fits(f, L)
<1>2. L \notin Bad
  BY <1>1
<1>3. Fits(a, L)
  BY <1>2
<1>4. PushOffsets(b, offs) = a[L]
  BY Zenon DEF PushOffsets, Turn
<1>5. a[0] = b
  <2>1. 0 \in 0 .. L
    OBVIOUS
  <2> HIDE DEF a
  <2> QED
    BY <1>3, <2>1
<1>6. \A n \in 1 .. L : a[n] = Turn(n, a[n - 1])
  <2>1. \A n \in 1 .. L : n \in 0 .. L /\ n # 0
    OBVIOUS
  <2> HIDE DEF a
  <2> QED
    BY <1>3, <2>1
<1> HIDE DEF a
<1> QED
  BY <1>4, <1>5, <1>6, Zenon DEF Turn

(* that store strings, *)
LEMMA StringsLoop ==
  ASSUME NEW b, NEW strings, Len(strings) \in Nat
  PROVE  \E a : /\ a[0] = b /\ StoreAll(b, strings) = a[Len(strings)]
                /\ \A n \in 1 .. Len(strings) : a[n] = Remembered(StoreString(a[n - 1], strings[n]))
<1> DEFINE L == Len(strings)
           Turn(n, w) == Remembered(StoreString(w, strings[n]))
           Fits(f, n) == f = [i \in 0 .. n |-> IF i = 0 THEN b ELSE Turn(i, f[i - 1])]
           Bad == {n \in Nat : ~ \E f : Fits(f, n)}
<1> HIDE DEF Turn
<1>1. ASSUME Bad # {} PROVE FALSE
  <2>1. PICK n \in Bad : \A k \in Bad : n <= k
    BY <1>1, Least
  <2>2. n # 0
    <3>1. Fits([i \in 0 .. 0 |-> b], 0)
      OBVIOUS
    <3> QED
      BY <3>1
  <2>3. PICK f : Fits(f, n - 1)
    <3>1. n \in Nat /\ n - 1 \in Nat /\ ~ (n <= n - 1)
      BY <2>2
    <3> HIDE DEF Fits
    <3>2. n - 1 \notin Bad
      BY <2>1, <3>1
    <3> QED
      BY <3>1, <3>2
  <2> DEFINE g == [i \in 0 .. n |-> IF i = n THEN Turn(n, f[n - 1]) ELSE f[i]]
  <2>4. ASSUME NEW i \in 0 .. n
        PROVE  g[i] = IF i = 0 THEN b ELSE Turn(i, g[i - 1])
    <3>1. CASE i = n
      BY <3>1, <2>2
    <3>2. CASE i # n
      <4>1. i \in 0 .. (n - 1) /\ g[i] = f[i] /\ (i # 0 => g[i - 1] = f[i - 1])
        BY <3>2, <2>2
      <4>2. f[i] = IF i = 0 THEN b ELSE Turn(i, f[i - 1])
        BY <4>1, <2>3
      <4> QED
        BY <4>1, <4>2
    <3> QED
      BY <3>1, <3>2
  <2>5. Fits(g, n)
    BY <2>4
  <2> QED
    BY <2>1, <2>5
<1> DEFINE a == CHOOSE f : Fits(f, L)
<1>2. L \notin Bad
  BY <1>1
<1>3. Fits(a, L)
  BY <1>2
<1>4. StoreAll(b, strings) = a[L]
  BY Zenon DEF StoreAll, Turn
<1>5. a[0] = b
  <2>1. 0 \in 0 .. L
    OBVIOUS
  <2> HIDE DEF a
  <2> QED
    BY <1>3, <2>1
<1>6. \A n \in 1 .. L : a[n] = Turn(n, a[n - 1])
  <2>1. \A n \in 1 .. L : n \in 0 .. L /\ n # 0
    OBVIOUS
  <2> HIDE DEF a
  <2> QED
    BY <1>3, <2>1
<1> HIDE DEF a
<1> QED
  BY <1>4, <1>5, <1>6, Zenon DEF Turn

(* and that sort. *)
LEMMA SortLoop ==
  ASSUME NEW b, NEW offs, Len(offs) \in Nat
  PROVE  \E a : /\ a[0] = <<>> /\ Sorted(b, offs) = a[Len(offs)]
                /\ \A n \in 1 .. Len(offs) : a[n] = Inserted(b, a[n - 1], offs[n])
<1> DEFINE L == Len(offs)
           Turn(n, w) == Inserted(b, w, offs[n])
           Fits(f, n) == f = [i \in 0 .. n |-> IF i = 0 THEN <<>> ELSE Turn(i, f[i - 1])]
           Bad == {n \in Nat : ~ \E f : Fits(f, n)}
<1> HIDE DEF Turn
<1>1. ASSUME Bad # {} PROVE FALSE
  <2>1. PICK n \in Bad : \A k \in Bad : n <= k
    BY <1>1, Least
  <2>2. n # 0
    <3>1. Fits([i \in 0 .. 0 |-> <<>>], 0)
      OBVIOUS
    <3> QED
      BY <3>1
  <2>3. PICK f : Fits(f, n - 1)
    <3>1. n \in Nat /\ n - 1 \in Nat /\ ~ (n <= n - 1)
      BY <2>2
    <3> HIDE DEF Fits
    <3>2. n - 1 \notin Bad
      BY <2>1, <3>1
    <3> QED
      BY <3>1, <3>2
  <2> DEFINE g == [i \in 0 .. n |-> IF i = n THEN Turn(n, f[n - 1]) ELSE f[i]]
  <2>4. ASSUME NEW i \in 0 .. n
        PROVE  g[i] = IF i = 0 THEN <<>> ELSE Turn(i, g[i - 1])
    <3>1. CASE i = n
      BY <3>1, <2>2
    <3>2. CASE i # n
      <4>1. i \in 0 .. (n - 1) /\ g[i] = f[i] /\ (i # 0 => g[i - 1] = f[i - 1])
        BY <3>2, <2>2
      <4>2. f[i] = IF i = 0 THEN <<>> ELSE Turn(i, f[i - 1])
        BY <4>1, <2>3
      <4> QED
        BY <4>1, <4>2
    <3> QED
      BY <3>1, <3>2
  <2>5. Fits(g, n)
    BY <2>4
  <2> QED
    BY <2>1, <2>5
<1> DEFINE a == CHOOSE f : Fits(f, L)
<1>2. L \notin Bad
  BY <1>1
<1>3. Fits(a, L)
  BY <1>2
<1>4. Sorted(b, offs) = a[L]
  BY Zenon DEF Sorted, Turn
<1>5. a[0] = <<>>
  <2>1. 0 \in 0 .. L
    OBVIOUS
  <2> HIDE DEF a
  <2> QED
    BY <1>3, <2>1
<1>6. \A n \in 1 .. L : a[n] = Turn(n, a[n - 1])
  <2>1. \A n \in 1 .. L : n \in 0 .. L /\ n # 0
    OBVIOUS
  <2> HIDE DEF a
  <2> QED
    BY <1>3, <2>1
<1> HIDE DEF a
<1> QED
  BY <1>4, <1>5, <1>6, Zenon DEF Turn

(* Up to n, step by step. *)
LEMMA UpTo ==
  ASSUME NEW G, NEW n \in Nat, 0 \in G, \A i \in 1 .. n : i - 1 \in G => i \in G
  PROVE  n \in G
<1> DEFINE Bad == {i \in Nat : i <= n /\ i \notin G}
<1>1. ASSUME Bad # {} PROVE FALSE
  <2>1. PICK k \in Bad : \A i \in Bad : k <= i
    BY <1>1, Least
  <2>2. k # 0
    OBVIOUS
  <2>3. k \in 1 .. n /\ k - 1 \in Nat /\ k - 1 <= n /\ ~ (k <= k - 1)
    BY <2>2
  <2>4. k - 1 \in G
    BY <2>1, <2>3
  <2> QED
    BY <2>3, <2>4
<1> QED
  BY <1>1

LEMMA PushOffsetsIs ==
  ASSUME NEW b \in Builder, NEW offs \in Seq(Int)
  PROVE  Wrote(b, PushOffsets(b, offs))
<1>1. Len(offs) \in Nat
  OBVIOUS
<1>2. PICK a : /\ a[0] = b /\ PushOffsets(b, offs) = a[Len(offs)]
               /\ \A n \in 1 .. Len(offs) : a[n] = PushOffset(a[n - 1], offs[n], 4)
  BY <1>1, OffsetsLoop
<1> DEFINE G == {n \in Nat : Wrote(b, a[n])}
<1>3. 0 \in G
  BY <1>2, WroteNothing
<1>4. ASSUME NEW i \in 1 .. Len(offs), i - 1 \in G PROVE i \in G
  <2> DEFINE c == a[i - 1]
             d == a[i]
             off == offs[i]
  <2>1. Wrote(b, c)
    BY <1>4
  <2>2. off \in Int
    BY ElementOf
  <2>3. d = PushOffset(c, off, 4)
    BY <1>2
  <2> HIDE DEF c, d, off
  <2>4. Wrote(c, d)
    BY <2>1, <2>2, <2>3, PushOffsetIs DEF Wrote
  <2>5. Wrote(b, d)
    BY <2>1, <2>4, WroteMore
  <2> QED
    BY <2>5 DEF d
<1> HIDE DEF G
<1>5. Len(offs) \in G
  BY <1>1, <1>3, <1>4, UpTo
<1> QED
  BY <1>2, <1>5 DEF G

LEMMA StoreOffsetsIs ==
  ASSUME NEW b \in Builder, NEW offs \in Seq(Int)
  PROVE  Wrote(b, StoreOffsets(b, offs))
<1> DEFINE n == Len(offs)
           c == StartVector(b, n, 4, 4)
           r == Reverse(offs)
           d == PushOffsets(c, r)
<1>1. n \in Nat /\ r \in Seq(Int)
  BY ReverseIs
<1>2. StoreOffsets(b, offs) = EndVector(d, n)
  BY DEF StoreOffsets
<1> HIDE DEF n, r
<1>3. Wrote(b, c)
  BY <1>1, StartVectorIs
<1> HIDE DEF c
<1>4. Wrote(c, d)
  BY <1>1, <1>3, PushOffsetsIs DEF Wrote
<1> HIDE DEF d
<1>5. Wrote(d, EndVector(d, n))
  BY <1>1, <1>4, EndVectorIs DEF Wrote
<1>6. Wrote(b, d)
  BY <1>3, <1>4, WroteMore
<1> QED
  BY <1>2, <1>5, <1>6, WroteMore

(* Offsets of strings wait in the scratch pad of b, at least n of them. *)
Waiting(b, n) == b \in Builder /\ b.scratch \in Seq(Int) /\ Len(b.scratch) >= n

LEMMA RememberedIs ==
  ASSUME NEW b, NEW n \in Nat, Waiting(b, n)
  PROVE  Waiting(Remembered(b), n + 1) /\ Remembered(b).num_field_loc = b.num_field_loc
<1> DEFINE o == GetSizeRelative32BitRegion(b)
           s == Append(b.scratch, o)
<1>1. b \in Builder /\ b.scratch \in Seq(Int) /\ Len(b.scratch) >= n
  BY DEF Waiting
<1>2. o \in Int
  BY <1>1, SizeIs
<1> HIDE DEF o
<1>3. s \in Seq(Int) /\ Len(s) >= n + 1 /\ s \in Seq(Int \cup Entry)
  BY <1>1, <1>2
<1>4. Remembered(b) = [b EXCEPT !.scratch = s]
  BY DEF Remembered, o
<1> HIDE DEF s
<1>5. [b EXCEPT !.scratch = s] \in Builder /\ [b EXCEPT !.scratch = s].scratch = s
      /\ [b EXCEPT !.scratch = s].num_field_loc = b.num_field_loc
  BY <1>1, <1>3 DEF Builder
<1> QED
  BY <1>3, <1>4, <1>5 DEF Waiting

StringTurns(a, b, strings) ==
    /\ a[0] = b /\ StoreAll(b, strings) = a[Len(strings)]
    /\ \A n \in 1 .. Len(strings) : a[n] = Remembered(StoreString(a[n - 1], strings[n]))

LEMMA StringsAreStored ==
  ASSUME NEW x, NEW y, Len(y) \in Nat
  PROVE  \E a : StringTurns(a, x, y)
BY StringsLoop, SMT DEF StringTurns

LEMMA StoreAllIs ==
  ASSUME NEW b, Waiting(b, 0), NEW strings \in Seq(Seq(Byte))
  PROVE  /\ Waiting(StoreAll(b, strings), Len(strings))
         /\ StoreAll(b, strings).num_field_loc = b.num_field_loc
<1>1. Len(strings) \in Nat
  OBVIOUS
<1>2. PICK a : StringTurns(a, b, strings)
  BY <1>1, StringsAreStored, Zenon
<1>t. /\ a[0] = b /\ StoreAll(b, strings) = a[Len(strings)]
      /\ \A n \in 1 .. Len(strings) : a[n] = Remembered(StoreString(a[n - 1], strings[n]))
  BY <1>2, Zenon DEF StringTurns
<1> DEFINE G == {n \in Nat : Waiting(a[n], n) /\ a[n].num_field_loc = b.num_field_loc}
<1>3. 0 \in G
  BY <1>t
<1>4. ASSUME NEW i \in 1 .. Len(strings), i - 1 \in G PROVE i \in G
  <2> DEFINE c == a[i - 1]
             s == strings[i]
             d == StoreString(c, s)
             k == i - 1
  <2>1. Waiting(c, k) /\ c.num_field_loc = b.num_field_loc /\ k \in Nat /\ i = k + 1
    BY <1>4
  <2>2. s \in Seq(Byte)
    BY ElementOf
  <2>3. a[i] = Remembered(d)
    BY <1>t
  <2> HIDE DEF c, s, k
  <2>4. Wrote(c, d)
    BY <2>1, <2>2, StoreStringIs DEF Waiting
  <2> HIDE DEF d
  <2>5. Waiting(d, k) /\ d.num_field_loc = b.num_field_loc
    BY <2>1, <2>4 DEF Wrote, Waiting
  <2>6. Waiting(a[i], i) /\ a[i].num_field_loc = b.num_field_loc
    BY <2>1, <2>3, <2>5, RememberedIs
  <2> QED
    BY <2>6
<1> HIDE DEF G
<1>5. Len(strings) \in G
  BY <1>1, <1>3, <1>4, UpTo
<1> QED
  BY <1>t, <1>5 DEF G

LEMMA StoreStringsIs ==
  ASSUME NEW b, Waiting(b, 0), NEW strings \in Seq(Seq(Byte))
  PROVE  Waiting(StoreStrings(b, strings), 0)
         /\ StoreStrings(b, strings).num_field_loc = b.num_field_loc
<1> DEFINE n == Len(strings)
           c == StoreAll(b, strings)
           offs == [i \in 1 .. n |-> c.scratch[Len(c.scratch) - i + 1]]
           d == StartVector(c, n, 4, 4)
           e == PushOffsets(d, offs)
           s == SubSeq(e.scratch, 1, Len(e.scratch) - n)
           f == [e EXCEPT !.scratch = s]
<1>1. n \in Nat /\ Waiting(c, n) /\ c.num_field_loc = b.num_field_loc
  BY StoreAllIs
<1>2. StoreStrings(b, strings) = EndVector(f, n)
  BY DEF StoreStrings
<1> HIDE DEF n, c
<1>3. offs \in Seq(Int)
  <2>1. \A i \in 1 .. n : c.scratch[Len(c.scratch) - i + 1] \in Int
    <3> SUFFICES ASSUME NEW i \in 1 .. n PROVE c.scratch[Len(c.scratch) - i + 1] \in Int
      OBVIOUS
    <3>1. Len(c.scratch) - i + 1 \in 1 .. Len(c.scratch)
      BY <1>1 DEF Waiting
    <3> QED
      BY <1>1, <3>1, ElementOf DEF Waiting
  <2> QED
    BY <1>1, <2>1
<1> HIDE DEF offs
<1>4. Wrote(c, d)
  BY <1>1, StartVectorIs DEF Waiting
<1> HIDE DEF d
<1>5. Wrote(d, e)
  BY <1>3, <1>4, PushOffsetsIs DEF Wrote
<1> HIDE DEF e
<1>6. e \in Builder /\ e.scratch \in Seq(Int) /\ e.num_field_loc = b.num_field_loc
  BY <1>1, <1>4, <1>5 DEF Wrote, Waiting
<1>7. s \in Seq(Int) /\ s \in Seq(Int \cup Entry)
  <2> DEFINE k == Len(e.scratch) - n
             t == e.scratch
  <2>1. t \in Seq(Int) /\ k \in Int /\ k <= Len(t)
    BY <1>1, <1>6
  <2> HIDE DEF k
  <2>2. SubSeq(t, 1, k) \in Seq(Int)
    BY <2>1
  <2> HIDE DEF s
  <2>3. s \in Seq(Int)
    BY <2>2 DEF s, k
  <2> QED
    BY <2>3
<1> HIDE DEF s
<1>8. f \in Builder /\ f.scratch = s /\ f.num_field_loc = b.num_field_loc
  BY <1>6, <1>7 DEF Builder
<1> HIDE DEF f
<1>9. Wrote(f, EndVector(f, n))
  BY <1>1, <1>8, EndVectorIs
<1> QED
  BY <1>2, <1>7, <1>8, <1>9 DEF Wrote, Waiting

LEMMA InsertAtIs ==
  ASSUME NEW s \in Seq(Int), NEW k \in Int, NEW e \in Int, 1 <= k, k <= Len(s) + 1
  PROVE  InsertAt(s, k, e) \in Seq(Int)
<1>1. SubSeq(s, 1, k - 1) \in Seq(Int) /\ SubSeq(s, k, Len(s)) \in Seq(Int)
      /\ <<e>> \in Seq(Int)
  OBVIOUS
<1> DEFINE x == SubSeq(s, 1, k - 1)
           y == <<e>>
           z == SubSeq(s, k, Len(s))
<1>2. InsertAt(s, k, e) = x \o y \o z
  BY Zenon DEF InsertAt
<1> HIDE DEF x, y, z
<1>3. x \in Seq(Int) /\ y \in Seq(Int) /\ z \in Seq(Int)
  BY <1>1, Zenon DEF x, y, z
<1>4. x \o y \o z \in Seq(Int)
  BY <1>3
<1> QED
  BY <1>2, <1>4, Zenon

LEMMA InsertedIs ==
  ASSUME NEW b, NEW s \in Seq(Int), NEW off \in Int
  PROVE  Inserted(b, s, off) \in Seq(Int)
<1> DEFINE N == {i \in 1 .. Len(s) : KeyAt(b, s[i]) <= KeyAt(b, off)}
           c == Cardinality(N)
<1>1. c \in Nat /\ c <= Len(s)
  <2>1. IsFiniteSet(1 .. Len(s)) /\ Cardinality(1 .. Len(s)) = Len(s)
    <3>1. 1 \in Int /\ Len(s) \in Int /\ Len(s) \in Nat
      OBVIOUS
    <3>2. IsFiniteSet(1 .. Len(s))
      BY <3>1, FS_Interval
    <3>3. Cardinality(1 .. Len(s)) = IF 1 > Len(s) THEN 0 ELSE Len(s) - 1 + 1
      BY <3>1, FS_Interval, Zenon
    <3> QED
      BY <3>1, <3>2, <3>3
  <2>2. N \subseteq 1 .. Len(s)
    OBVIOUS
  <2> QED
    BY <2>1, <2>2, FS_Subset, FS_CardinalityType
<1>2. Inserted(b, s, off) = InsertAt(s, c + 1, off)
  BY DEF Inserted
<1> HIDE DEF c
<1>3. c + 1 \in Int /\ 1 <= c + 1 /\ c + 1 <= Len(s) + 1
  BY <1>1
<1> DEFINE k == c + 1
<1> HIDE DEF k
<1>4. InsertAt(s, k, off) \in Seq(Int)
  BY <1>3, InsertAtIs DEF k
<1> QED
  BY <1>2, <1>4, Zenon DEF k

LEMMA SortedIs ==
  ASSUME NEW b, NEW offs \in Seq(Int)
  PROVE  Sorted(b, offs) \in Seq(Int)
<1>1. Len(offs) \in Nat
  OBVIOUS
<1>2. PICK a : /\ a[0] = <<>> /\ Sorted(b, offs) = a[Len(offs)]
               /\ \A n \in 1 .. Len(offs) : a[n] = Inserted(b, a[n - 1], offs[n])
  BY <1>1, SortLoop
<1> DEFINE G == {n \in Nat : a[n] \in Seq(Int)}
<1>3. 0 \in G
  <2>1. <<>> \in Seq(Int)
    OBVIOUS
  <2>2. a[0] \in Seq(Int)
    BY <1>2, <2>1, Zenon
  <2> QED
    BY <2>2
<1>4. ASSUME NEW i \in 1 .. Len(offs), i - 1 \in G PROVE i \in G
  <2>1. offs[i] \in Int /\ a[i - 1] \in Seq(Int)
    BY <1>4, ElementOf
  <2> QED
    BY <1>2, <2>1, InsertedIs
<1> HIDE DEF G
<1>5. Len(offs) \in G
  BY <1>1, <1>3, <1>4, UpTo
<1> QED
  BY <1>2, <1>5 DEF G

LEMMA IndexInJoined ==
  ASSUME NEW size \in Nat, NEW n \in Nat, NEW i \in 1 .. size * n
  PROVE  /\ 1 + ((i - 1) \div size) \in 1 .. n
         /\ 1 + ((i - 1) % size) \in 1 .. size
<1> DEFINE k == i - 1
           q == k \div size
           r == k % size
<1>1. size * n \in Nat /\ k \in Nat /\ k < size * n
  OBVIOUS
<1>2. size # 0
  BY <1>1
<1> HIDE DEF k
<1>3. q \in Int /\ r \in 0 .. size - 1 /\ k = (size * q) + r
  BY <1>1, <1>2
<1> HIDE DEF q, r
<1>4. size * q <= k /\ k < size * (q + 1)
  <2>1. size * (q + 1) = (size * q) + size
    BY <1>3
  <2> QED
    BY <1>3, <2>1
<1>5. q < n
  <2> SUFFICES ASSUME n <= q PROVE FALSE
    BY <1>3
  <2>1. size * n <= size * q
    BY <1>3
  <2> QED
    BY <1>1, <1>3, <1>4, <2>1
<1>6. 0 <= q
  <2> SUFFICES ASSUME q + 1 <= 0 PROVE FALSE
    BY <1>3
  <2>1. size * (q + 1) <= 0
    BY <1>3
  <2> QED
    BY <1>1, <1>3, <1>4, <2>1
<1>7. 1 + q \in 1 .. n /\ 1 + r \in 1 .. size
  BY <1>3, <1>5, <1>6
<1> QED
  BY <1>7 DEF k, q, r

LEMMA JoinedIs ==
  ASSUME NEW elements \in Seq(Seq(Byte)), NEW size \in Nat,
         \A i \in 1 .. Len(elements) : Len(elements[i]) = size
  PROVE  Joined(elements, size) \in Seq(Byte)
<1> DEFINE n == Len(elements)
           F(i) == elements[1 + ((i - 1) \div size)][1 + ((i - 1) % size)]
<1>1. n \in Nat /\ size * n \in Nat
  OBVIOUS
<1>2. ASSUME NEW i \in 1 .. size * n PROVE F(i) \in Byte
  <2> DEFINE q == 1 + ((i - 1) \div size)
             r == 1 + ((i - 1) % size)
             s == elements[q]
  <2>1. q \in 1 .. n /\ r \in 1 .. size
    BY <1>1, IndexInJoined
  <2> HIDE DEF q, r
  <2>2. s \in Seq(Byte) /\ Len(s) = size
    BY <2>1, ElementOf
  <2> HIDE DEF s
  <2>3. s[r] \in Byte
    BY <2>1, <2>2, ElementOf
  <2> QED
    BY <2>3 DEF s, q, r
<1>3. Joined(elements, size) = [i \in 1 .. size * n |-> F(i)]
  BY DEF Joined
<1> HIDE DEF F
<1>4. [i \in 1 .. size * n |-> F(i)] \in Seq(Byte)
  BY <1>1, <1>2, SequenceOf
<1> QED
  BY <1>3, <1>4

LEMMA StructOfIs ==
  ASSUME SchemaOK, NEW n \in Int
  PROVE  StructOf(n) \in Seq(Byte) /\ Len(StructOf(n)) = StructSize
<1>1. StructSize \in Nat
  BY DEF SchemaOK
<1> DEFINE F(i) == (n + i) % 256
<1>2. \A i \in 1 .. StructSize : F(i) \in Byte
  BY <1>1, ByteOfNumber
<1>3. StructOf(n) = [i \in 1 .. StructSize |-> F(i)]
  BY DEF StructOf
<1> HIDE DEF F
<1>4. [i \in 1 .. StructSize |-> F(i)] \in Seq(Byte)
      /\ Len([i \in 1 .. StructSize |-> F(i)]) = StructSize
  BY <1>1, <1>2, SequenceOf
<1> QED
  BY <1>3, <1>4, Zenon

LEMMA ListsAre ==
  ASSUME ProgramOK, NEW S
  PROVE  \A s \in Lists(S) : s \in Seq(S) /\ DOMAIN s = 1 .. Len(s)
<1> SUFFICES ASSUME NEW s \in Lists(S) PROVE s \in Seq(S) /\ DOMAIN s = 1 .. Len(s)
  OBVIOUS
<1>1. PICK n \in 0 .. MaxElements : s \in [1 .. n -> S]
  BY Zenon DEF Lists
<1>2. n \in Nat
  BY DEF ProgramOK
<1>3. s \in Seq(S)
  BY <1>1, <1>2
<1> QED
  BY <1>3

(* The scratch pad: offsets of virtual tables, and on top of them what an open
   table knows of its fields. *)
ScratchOK(b) ==
    /\ b.num_field_loc <= Len(b.scratch)
    /\ \A i \in 1 .. Len(b.scratch) :
          IF i <= Len(b.scratch) - b.num_field_loc THEN b.scratch[i] \in Int
          ELSE b.scratch[i] \in Entry

(* A builder with a scratch pad in order. *)
InOrder(b) == b \in Builder /\ ScratchOK(b)

LEMMA WroteInOrder ==
  ASSUME NEW b, NEW c, InOrder(b), Wrote(b, c)
  PROVE  InOrder(c)
BY DEF InOrder, Wrote, ScratchOK

LEMMA OffsetsOnly ==
  ASSUME NEW b, InOrder(b), b.num_field_loc = 0
  PROVE  b.scratch \in Seq(Int)
<1>1. Len(b.scratch) \in Nat /\ b.scratch \in Seq(Int \cup Entry)
  BY DEF InOrder, Builder
<1>2. \A i \in 1 .. Len(b.scratch) : b.scratch[i] \in Int
  BY <1>1 DEF InOrder, ScratchOK
<1> QED
  BY <1>1, <1>2

LEMMA WaitingInOrder ==
  ASSUME NEW b, Waiting(b, 0), b.num_field_loc = 0
  PROVE  InOrder(b)
<1>1. b \in Builder /\ b.scratch \in Seq(Int) /\ Len(b.scratch) \in Nat
  BY DEF Waiting
<1>2. \A i \in 1 .. Len(b.scratch) : b.scratch[i] \in Int
  BY <1>1, ElementOf
<1> QED
  BY <1>1, <1>2 DEF InOrder, ScratchOK

(* b with the scratch pad x, y fields of the open table on top of it. *)
WithScratch(b, x, y, z) == [b EXCEPT !.scratch = x, !.num_field_loc = y, !.max_voffset = z]

LEMMA ScratchIs ==
  ASSUME NEW b \in Builder, NEW x \in Seq(Int \cup Entry), NEW y \in Nat, NEW z \in Int
  PROVE  /\ WithScratch(b, x, y, z) \in Builder
         /\ WithScratch(b, x, y, z).scratch = x
         /\ WithScratch(b, x, y, z).num_field_loc = y
         /\ WithScratch(b, x, y, z).back = b.back
         /\ WithScratch(b, x, y, z).len64 = b.len64
BY DEF Builder, WithScratch

LEMMA TrackFieldIs ==
  ASSUME NEW b, InOrder(b), NEW field \in Int
  PROVE  InOrder(TrackField(b, field))
<1> DEFINE e == [off |-> GetSizeRelative32BitRegion(b), id |-> field]
           s == b.scratch
           t == Append(s, e)
           n == b.num_field_loc
           m == Most(b.max_voffset, field)
           c == TrackField(b, field)
<1>1. b \in Builder /\ s \in Seq(Int \cup Entry) /\ n \in Nat /\ Len(s) \in Nat
  BY DEF InOrder, Builder
<1>2. e \in Entry
  BY <1>1, SizeIs DEF Entry
<1>3. m \in Int
  BY <1>1 DEF Most, Builder
<1>4. c = WithScratch(b, t, n + 1, m)
  BY DEF TrackField, WithScratch
<1> HIDE DEF e, m
<1>5. t \in Seq(Int \cup Entry) /\ Len(t) = Len(s) + 1
      /\ \A i \in 1 .. Len(t) : t[i] = IF i = Len(t) THEN e ELSE s[i]
  BY <1>1, <1>2
<1>6. n <= Len(s) /\ \A i \in 1 .. Len(s) : IF i <= Len(s) - n THEN s[i] \in Int ELSE s[i] \in Entry
  BY DEF InOrder, ScratchOK
<1> HIDE DEF t, c
<1>7. c \in Builder /\ c.scratch = t /\ c.num_field_loc = n + 1
  <2>1. n + 1 \in Nat
    BY <1>1
  <2> DEFINE y == n + 1
  <2> HIDE DEF y
  <2>2. y \in Nat /\ c = WithScratch(b, t, y, m)
    BY <1>4, <2>1 DEF y
  <2>3. c \in Builder /\ c.scratch = t /\ c.num_field_loc = y
    <3>1. b \in Builder /\ t \in Seq(Int \cup Entry) /\ m \in Int /\ y \in Nat
      BY <1>1, <1>3, <1>5, <2>2, Zenon
    <3>2. WithScratch(b, t, y, m) \in Builder
      BY <3>1, ScratchIs
    <3>3. WithScratch(b, t, y, m).scratch = t
      BY <3>1, Zenon DEF WithScratch, Builder
    <3>4. WithScratch(b, t, y, m).num_field_loc = y
      BY <3>1, Zenon DEF WithScratch, Builder
    <3> QED
      BY <2>2, <3>2, <3>3, <3>4, Zenon
  <2> QED
    BY <2>3, Zenon DEF y
<1> HIDE DEF s, n
<1>8. n + 1 <= Len(t)
  BY <1>1, <1>5, <1>6
<1>9. ASSUME NEW i \in 1 .. Len(t)
      PROVE  IF i <= Len(t) - (n + 1) THEN t[i] \in Int ELSE t[i] \in Entry
  <2>1. CASE i = Len(t)
    <3>1. ~ (i <= Len(t) - (n + 1)) /\ t[i] = e
      BY <1>1, <1>5, <2>1
    <3> QED
      BY <1>2, <3>1
  <2>2. CASE i # Len(t)
    <3>1. i \in 1 .. Len(s) /\ t[i] = s[i] /\ Len(t) - (n + 1) = Len(s) - n
      BY <1>1, <1>5, <2>2
    <3> QED
      BY <1>6, <3>1, Zenon
  <2> QED
    BY <2>1, <2>2
<1> QED
  BY <1>7, <1>8, <1>9, Zenon DEF InOrder, ScratchOK, c

LEMMA AddElementIs ==
  ASSUME NEW b, InOrder(b), NEW field \in Int, NEW n \in Int, IsScalar(Schema[field])
  PROVE  InOrder(AddElement(b, field, n))
<1> DEFINE w == Width(Schema[field])
           c == PushElement(b, n, w)
<1>1. w \in Nat \ {0}
  BY DEF IsScalar, Width
<1> HIDE DEF w
<1>2. InOrder(c)
  BY <1>1, PushElementIs, WroteInOrder DEF InOrder
<1> HIDE DEF c
<1>3. InOrder(TrackField(c, field))
  BY <1>2, TrackFieldIs
<1>4. AddElement(b, field, n) = IF n = 0 /\ ~ ForceDefaults THEN b ELSE TrackField(c, field)
  BY Zenon DEF AddElement, c, w
<1> QED
  BY <1>3, <1>4

LEMMA AddOffsetIs ==
  ASSUME NEW b, InOrder(b), NEW field \in Int, NEW off \in Int, Schema[field] # "struct"
  PROVE  InOrder(AddOffset(b, field, off))
<1> DEFINE w == Width(Schema[field])
           c == PushOffset(b, off, w)
<1>1. w \in Nat \ {0}
  BY DEF Width
<1> HIDE DEF w
<1>2. InOrder(c)
  BY <1>1, PushOffsetIs, WroteInOrder DEF InOrder
<1> HIDE DEF c
<1>3. InOrder(TrackField(c, field))
  BY <1>2, TrackFieldIs
<1> QED
  BY <1>3, Zenon DEF AddOffset, c, w

LEMMA AddStructIs ==
  ASSUME SchemaOK, NEW b, InOrder(b), NEW field \in Int, NEW bytes \in Seq(Byte)
  PROVE  InOrder(AddStruct(b, field, bytes))
<1> DEFINE c == Align(b, StructAlign)
           d == Push(c, bytes)
<1>1. StructAlign \in Nat \ {0}
  BY DEF SchemaOK
<1>2. InOrder(c)
  BY <1>1, AlignIs, WroteInOrder DEF InOrder
<1> HIDE DEF c
<1>3. InOrder(d)
  BY <1>2, PushIs, WroteInOrder DEF InOrder
<1> HIDE DEF d
<1>4. InOrder(TrackField(d, field))
  BY <1>3, TrackFieldIs
<1> QED
  BY <1>4, Zenon DEF AddStruct, d, c

LEMMA WordIn ==
  ASSUME NEW w \in Int, NEW k \in 1 .. 2
  PROVE  Bytes(w, 2)[k] \in Byte
<1>1. Bytes(w, 2) \in Seq(Byte) /\ Len(Bytes(w, 2)) = 2
  BY BytesAre
<1> DEFINE s == Bytes(w, 2)
<1> HIDE DEF s
<1>2. s \in Seq(Byte) /\ Len(s) = 2
  BY <1>1 DEF s
<1>3. s[k] \in Byte
  BY <1>2, ElementOf
<1> QED
  BY <1>3 DEF s

LEMMA VTableIs ==
  ASSUME NEW b, InOrder(b), NEW n \in Int, NEW loc \in Int
  PROVE  VTable(b, n, loc) \in Seq(Byte)
<1> DEFINE s == b.scratch
           added == {s[i] : i \in (Len(s) - b.num_field_loc + 1) .. Len(s)}
           size == Most(b.max_voffset + 2, 4)
           Slot(field) == IF \E f \in added : f.id = field
                          THEN loc - (CHOOSE f \in added : f.id = field).off ELSE 0
           Word(field) == CASE field = 0 -> size [] field = 2 -> n [] OTHER -> Slot(field)
           F(i) == Bytes(Word(2 * ((i - 1) \div 2)), 2)[1 + ((i - 1) % 2)]
<1>1. Len(s) \in Nat /\ b.num_field_loc \in Nat /\ b.num_field_loc <= Len(s)
      /\ b.max_voffset \in Int
  BY DEF InOrder, Builder, ScratchOK
<1>2. size \in Nat
  BY <1>1 DEF Most
<1>3. \A f \in added : f.off \in Int
  <2> SUFFICES ASSUME NEW i \in (Len(s) - b.num_field_loc + 1) .. Len(s)
               PROVE  s[i].off \in Int
    OBVIOUS
  <2>1. i \in 1 .. Len(s) /\ ~ (i <= Len(s) - b.num_field_loc)
    BY <1>1
  <2>2. s[i] \in Entry
    BY <2>1 DEF InOrder, ScratchOK
  <2> QED
    BY <2>2 DEF Entry
<1>4. VTable(b, n, loc) = [i \in 1 .. size |-> F(i)]
  BY Zenon DEF VTable
<1> HIDE DEF added, size
<1>5. ASSUME NEW field PROVE Slot(field) \in Int
  <2>1. CASE \E f \in added : f.id = field
    <3> DEFINE f == CHOOSE f \in added : f.id = field
    <3>1. f \in added
      BY <2>1
    <3>2. Slot(field) = loc - f.off
      BY <2>1
    <3> HIDE DEF f, Slot
    <3>3. f.off \in Int
      BY <1>3, <3>1
    <3> QED
      BY <3>2, <3>3
  <2>2. CASE ~ \E f \in added : f.id = field
    BY <2>2
  <2> QED
    BY <2>1, <2>2
<1> HIDE DEF Slot
<1>6. ASSUME NEW field PROVE Word(field) \in Int
  BY <1>2, <1>5
<1> HIDE DEF Word
<1>7. ASSUME NEW i \in 1 .. size PROVE F(i) \in Byte
  <2>1. 1 + ((i - 1) % 2) \in 1 .. 2
    BY <1>2
  <2> QED
    BY <1>6, <2>1, WordIn
<1> HIDE DEF F
<1>8. [i \in 1 .. size |-> F(i)] \in Seq(Byte)
  BY <1>2, <1>7, SequenceOf
<1> QED
  BY <1>4, <1>8

(* Only offsets of virtual tables are left in the scratch pad. *)
Cleared(b) == b \in Builder /\ b.scratch \in Seq(Int) /\ b.num_field_loc = 0

LEMMA ClearedInOrder == ASSUME NEW b, Cleared(b) PROVE InOrder(b)
<1>1. b \in Builder /\ b.scratch \in Seq(Int) /\ b.num_field_loc = 0
  BY DEF Cleared
<1>2. Len(b.scratch) \in Nat /\ \A i \in 1 .. Len(b.scratch) : b.scratch[i] \in Int
  BY <1>1, ElementOf
<1> QED
  BY <1>1, <1>2 DEF InOrder, ScratchOK

LEMMA WroteCleared ==
  ASSUME NEW b, NEW c, Cleared(b), Wrote(b, c)
  PROVE  Cleared(c)
BY DEF Cleared, Wrote

LEMMA ClearOffsetsIs ==
  ASSUME NEW b, InOrder(b)
  PROVE  /\ Cleared(ClearOffsets(b))
         /\ ClearOffsets(b).back = b.back /\ ClearOffsets(b).len64 = b.len64
<1> DEFINE s == b.scratch
           n == b.num_field_loc
           k == Len(s) - n
           t == SubSeq(s, 1, k)
<1>1. b \in Builder /\ s \in Seq(Int \cup Entry) /\ n \in Nat /\ Len(s) \in Nat /\ n <= Len(s)
  BY DEF InOrder, Builder, ScratchOK
<1>2. \A i \in 1 .. Len(s) : i <= k => s[i] \in Int
  BY DEF InOrder, ScratchOK
<1>3. ClearOffsets(b) = WithScratch(b, t, 0, 0)
  BY Zenon DEF ClearOffsets, WithScratch
<1> HIDE DEF s, n
<1>4. k \in Nat /\ k <= Len(s)
  BY <1>1
<1> HIDE DEF k
<1>5. t = [i \in 1 .. k |-> s[i]]
  BY <1>1, <1>4
<1> DEFINE F(i) == s[i]
<1>6. \A i \in 1 .. k : F(i) \in Int
  BY <1>1, <1>2, <1>4
<1> HIDE DEF F, t
<1>7. [i \in 1 .. k |-> F(i)] \in Seq(Int)
  BY <1>4, <1>6, SequenceOf
<1>8. t \in Seq(Int)
  BY <1>5, <1>7, Zenon DEF F
<1>9. t \in Seq(Int \cup Entry)
  BY <1>8
<1>10. 0 \in Nat /\ 0 \in Int
  OBVIOUS
<1>11. WithScratch(b, t, 0, 0) \in Builder
  <2>1. b \in Builder /\ t \in Seq(Int \cup Entry)
    BY <1>1, <1>9, Zenon
  <2> QED
    BY <1>10, <2>1, ScratchIs
<1>12. WithScratch(b, t, 0, 0).scratch = t /\ WithScratch(b, t, 0, 0).num_field_loc = 0
       /\ WithScratch(b, t, 0, 0).back = b.back /\ WithScratch(b, t, 0, 0).len64 = b.len64
  BY <1>1, Zenon DEF WithScratch, Builder
<1> QED
  BY <1>3, <1>8, <1>11, <1>12, Zenon DEF Cleared

LEMMA DedupIs ==
  ASSUME NEW b, Cleared(b), NEW vtable, NEW loc
  PROVE  Dedup(b, vtable, loc) \in Int
<1> DEFINE twins == IF DedupVtables THEN Twins(b, vtable) ELSE {}
           s == b.scratch
<1>1. s \in Seq(Int) /\ GetSizeRelative32BitRegion(b) \in Int
  BY SizeIs DEF Cleared
<1>2. twins \subseteq 1 .. Len(s)
  BY <1>1 DEF Twins
<1>3. Dedup(b, vtable, loc) = IF twins = {} THEN GetSizeRelative32BitRegion(b)
                              ELSE s[CHOOSE i \in twins : \A j \in twins : i <= j]
  BY Zenon DEF Dedup
<1> HIDE DEF twins, s
<1>4. CASE twins # {}
  <2>1. twins \subseteq Nat
    BY <1>1, <1>2
  <2>2. \E i \in twins : \A j \in twins : i <= j
    BY <1>4, <2>1, Least
  <2> DEFINE k == CHOOSE i \in twins : \A j \in twins : i <= j
  <2>3. k \in twins
    BY <2>2, Zenon
  <2> HIDE DEF k
  <2>4. s[k] \in Int
    BY <1>1, <1>2, <2>3, ElementOf
  <2> QED
    BY <1>3, <1>4, <2>4, Zenon DEF k
<1> QED
  BY <1>1, <1>3, <1>4

LEMMA PopIs ==
  ASSUME NEW b \in Builder, NEW n \in Nat, n <= Len(b.back)
  PROVE  /\ Pop(b, n) \in Builder /\ Pop(b, n).scratch = b.scratch
         /\ Pop(b, n).num_field_loc = b.num_field_loc /\ Pop(b, n).pool = b.pool
<1> DEFINE s == b.back
           k == Len(s) - n
           x == SubSeq(s, 1, k)
<1>1. s \in Seq(Byte) /\ Len(s) \in Nat
  BY DEF Builder
<1>2. Pop(b, n) = [b EXCEPT !.back = x]
  BY DEF Pop
<1> HIDE DEF s
<1>3. k \in Nat /\ k <= Len(s)
  BY <1>1 DEF s
<1> HIDE DEF k
<1>4. x \in Seq(Byte)
  BY <1>1, <1>3
<1> HIDE DEF x
<1>5. [b EXCEPT !.back = x] \in Builder
  BY <1>4 DEF Builder
<1>6. [b EXCEPT !.back = x].scratch = b.scratch
      /\ [b EXCEPT !.back = x].num_field_loc = b.num_field_loc
      /\ [b EXCEPT !.back = x].pool = b.pool
  BY Zenon DEF Builder
<1> QED
  BY <1>2, <1>5, <1>6, Zenon

(* A builder between two objects. *)
LEMMA FinishTableIs ==
  ASSUME NEW b, InOrder(b), NEW start \in Int
  PROVE  InOrder(FinishTable(b, start)) /\ FinishTable(b, start).num_field_loc = 0
<1> DEFINE c == PushElement(b, 0, 4)
           loc == GetSizeRelative32BitRegion(c)
           vtable == VTable(c, loc - start, loc)
           p == Push(c, vtable)
           d == ClearOffsets(p)
           use == Dedup(d, vtable, loc)
           new == GetSizeRelative32BitRegion(d)
           kept == [d EXCEPT !.scratch = Append(@, use)]
           dropped == Pop(d, new - loc)
           e == IF use = new THEN kept ELSE dropped
           w == WriteAt(e, loc + b.len64, Bytes(use - loc, 4))
<1>1. FinishTable(b, start) = [w EXCEPT !.nested = FALSE]
  BY Zenon DEF FinishTable
<1>2. b \in Builder /\ b.len64 \in Int
  BY DEF InOrder, Builder
<1>3. Wrote(b, c)
  <2>1. 0 \in Int /\ 4 \in Nat \ {0}
    OBVIOUS
  <2> QED
    BY <1>2, <2>1, PushElementIs
<1> HIDE DEF c
<1>4. c \in Builder /\ InOrder(c) /\ c.len64 = b.len64
  BY <1>3, WroteInOrder DEF Wrote
<1>5. loc \in Int /\ loc = Len(c.back) - c.len64 /\ Len(c.back) \in Nat
  BY <1>4, SizeIs DEF GetSizeRelative32BitRegion, GetSize, Builder
<1> HIDE DEF loc
<1>6. vtable \in Seq(Byte)
  <2>1. loc - start \in Int
    BY <1>5
  <2> QED
    BY <1>4, <1>5, <2>1, VTableIs
<1> HIDE DEF vtable
<1>7. Wrote(c, p) /\ Len(p.back) = Len(c.back) + Len(vtable)
  BY <1>4, <1>6, PushIs
<1> HIDE DEF p
<1>8. InOrder(p) /\ p.len64 = c.len64
  BY <1>4, <1>7, WroteInOrder DEF Wrote
<1>9. Cleared(d) /\ d.back = p.back /\ d.len64 = p.len64
  BY <1>8, ClearOffsetsIs
<1> HIDE DEF d
<1>10. d \in Builder /\ d.scratch \in Seq(Int) /\ d.num_field_loc = 0
  BY <1>9 DEF Cleared
<1>11. use \in Int
  BY <1>9, DedupIs
<1>12. new - loc = Len(vtable) /\ Len(vtable) \in Nat /\ Len(vtable) <= Len(d.back)
  <2>1. Len(vtable) \in Nat /\ Len(d.back) = Len(c.back) + Len(vtable) /\ d.len64 = c.len64
    BY <1>6, <1>7, <1>8, <1>9
  <2>2. c.len64 \in Int
    BY <1>4 DEF Builder
  <2>3. new = Len(d.back) - d.len64
    BY DEF GetSizeRelative32BitRegion, GetSize
  <2> HIDE DEF new
  <2> QED
    BY <1>5, <2>1, <2>2, <2>3, SMTT(30)
<1> HIDE DEF use
<1>13. Cleared(kept)
  <2> DEFINE s == Append(d.scratch, use)
  <2>1. s \in Seq(Int)
    BY <1>10, <1>11
  <2>2. s \in Seq(Int \cup Entry)
    BY <2>1
  <2>3. kept = [d EXCEPT !.scratch = s]
    BY Zenon
  <2> HIDE DEF s, kept
  <2>4. [d EXCEPT !.scratch = s] \in Builder
    BY <1>10, <2>2 DEF Builder
  <2>5. [d EXCEPT !.scratch = s].scratch = s
        /\ [d EXCEPT !.scratch = s].num_field_loc = d.num_field_loc
    BY <1>10, Zenon DEF Builder
  <2> QED
    BY <1>10, <2>1, <2>3, <2>4, <2>5, Zenon DEF Cleared
<1> HIDE DEF kept
<1>14. Cleared(dropped)
  <2> DEFINE n == new - loc
  <2>1. n \in Nat /\ n <= Len(d.back)
    BY <1>12
  <2> HIDE DEF n
  <2>2. Pop(d, n) \in Builder /\ Pop(d, n).scratch = d.scratch
        /\ Pop(d, n).num_field_loc = d.num_field_loc
    BY <1>10, <2>1, PopIs
  <2> QED
    BY <1>10, <2>2, Zenon DEF Cleared, n
<1> HIDE DEF dropped
<1>15. Cleared(e)
  BY <1>13, <1>14
<1> HIDE DEF e
<1>16. Wrote(e, w)
  <2>1. loc + b.len64 \in Int /\ use - loc \in Int /\ 4 \in Nat
    BY <1>2, <1>5, <1>11
  <2>2. Bytes(use - loc, 4) \in Seq(Byte)
    BY <2>1, BytesAre
  <2> QED
    BY <1>15, <2>1, <2>2, WriteAtIs DEF Cleared
<1> HIDE DEF w
<1>17. Wrote(w, [w EXCEPT !.nested = FALSE])
  <2>1. w \in Builder /\ FALSE \in BOOLEAN
    BY <1>16 DEF Wrote
  <2> QED
    BY <2>1, NestedIs
<1>18. Cleared(w)
  BY <1>15, <1>16, WroteCleared
<1>19. Cleared([w EXCEPT !.nested = FALSE])
  BY <1>17, <1>18, WroteCleared
<1> QED
  BY <1>1, <1>19, ClearedInOrder DEF Cleared

LEMMA TableAtIs ==
  ASSUME NEW b \in Builder
  PROVE  TableAt(b) \in Int
<1>1. 0 \in Int /\ 4 \in Nat \ {0}
  OBVIOUS
<1>2. PushElement(b, 0, 4) \in Builder
  BY <1>1, PushElementIs DEF Wrote
<1> QED
  BY <1>2, SizeIs DEF TableAt

LEMMA FinishIs ==
  ASSUME NEW b, InOrder(b), b.num_field_loc = 0, NEW root \in Int, NEW prefixed,
         NEW identifier \in Seq(Byte)
  PROVE  InOrder(Finish(b, root, prefixed, identifier))
         /\ Finish(b, root, prefixed, identifier).num_field_loc = 0
<1> DEFINE prefix == IF prefixed THEN (IF Is64Aware THEN 8 ELSE 4) ELSE 0
           a == [b EXCEPT !.scratch = <<>>]
           c == TrackMinAlign(a, prefix)
           n == prefix + 4 + Len(identifier)
           d == PreAlign(c, n, c.minalign)
           p == Push(d, identifier)
           e == PushOffset(p, root, 4)
           f == IF prefixed THEN PushElement(e, GetSize(e), prefix) ELSE e
           g == [f EXCEPT !.finished = TRUE]
<1>1. Finish(b, root, prefixed, identifier) = g
  BY Zenon DEF Finish
<1>2. prefix \in Nat /\ (prefixed => prefix # 0)
  OBVIOUS
<1> HIDE DEF prefix
<1>3. Cleared(a)
  <2>1. b \in Builder /\ <<>> \in Seq(Int \cup Entry) /\ <<>> \in Seq(Int)
    BY DEF InOrder
  <2>2. [b EXCEPT !.scratch = <<>>] \in Builder
    BY <2>1 DEF Builder
  <2>3. [b EXCEPT !.scratch = <<>>].scratch = <<>>
        /\ [b EXCEPT !.scratch = <<>>].num_field_loc = b.num_field_loc
    BY <2>1, Zenon DEF Builder
  <2> QED
    BY <2>1, <2>2, <2>3, Zenon DEF Cleared
<1> HIDE DEF a
<1>4. Cleared(c)
  BY <1>2, <1>3, TrackIs, WroteCleared DEF Cleared
<1> HIDE DEF c
<1>5. c \in Builder /\ c.minalign \in Nat \ {0}
  BY <1>4 DEF Cleared, Builder
<1>6. n \in Nat
  BY <1>2
<1> HIDE DEF n
<1>7. Cleared(d)
  BY <1>4, <1>5, <1>6, PreAlignIs, WroteCleared
<1> HIDE DEF d
<1>8. Cleared(p)
  BY <1>7, PushIs, WroteCleared DEF Cleared
<1> HIDE DEF p
<1>9. Cleared(e)
  <2>1. p \in Builder /\ 4 \in Nat \ {0}
    BY <1>8 DEF Cleared
  <2> QED
    BY <1>8, <2>1, PushOffsetIs, WroteCleared
<1> HIDE DEF e
<1>10. Cleared(f)
  <2>1. CASE prefixed
    <3>1. e \in Builder /\ prefix \in Nat \ {0} /\ GetSize(e) \in Int
      BY <1>2, <1>9, <2>1, SizeIs DEF Cleared
    <3>2. Wrote(e, PushElement(e, GetSize(e), prefix))
      BY <3>1, PushElementIs
    <3> QED
      BY <1>9, <2>1, <3>2, WroteCleared
  <2>2. CASE ~ prefixed
    BY <1>9, <2>2
  <2> QED
    BY <2>1, <2>2
<1> HIDE DEF f
<1>11. Cleared(g)
  <2>1. f \in Builder
    BY <1>10 DEF Cleared
  <2>2. [f EXCEPT !.finished = TRUE] \in Builder
    BY <2>1 DEF Builder
  <2>3. [f EXCEPT !.finished = TRUE].scratch = f.scratch
        /\ [f EXCEPT !.finished = TRUE].num_field_loc = f.num_field_loc
    BY <2>1, Zenon DEF Builder
  <2> QED
    BY <1>10, <2>2, <2>3, Zenon DEF Cleared
<1> QED
  BY <1>1, <1>11, ClearedInOrder, Zenon DEF Cleared

LEMMA PatchedIs ==
  ASSUME NEW b \in Builder, NEW t, NEW field, NEW bytes \in Seq(Byte)
  PROVE  SetField(Mem(b), t, field, bytes).back \in Seq(Byte)
<1> DEFINE m == Mem(b)
           s == b.back
           p == GetAddressOf(m, t, field)
           F(o) == LET i == m.tail - o - p + 1 IN IF i \in DOMAIN bytes THEN bytes[i] ELSE s[o]
           x == [o \in DOMAIN s |-> F(o)]
<1>1. s \in Seq(Byte)
  BY DEF Builder
<1>2. m.back = s
  BY DEF Mem
<1>3. SetField(m, t, field, bytes) = IF CheckField(m, t, field) THEN [m EXCEPT !.back = x] ELSE m
  BY <1>2, Zenon DEF SetField, Patched
<1>4. [m EXCEPT !.back = x].back = x
  BY Zenon DEF Mem
<1> HIDE DEF m, s, p
<1>5. x \in Seq(Byte)
  <2>1. \A o \in 1 .. Len(s) : F(o) \in Byte
    <3>1. \A o \in 1 .. Len(s) : s[o] \in Byte
      BY <1>1, ElementOf
    <3>2. \A i \in DOMAIN bytes : bytes[i] \in Byte
      BY ElementOf
    <3> QED
      BY <3>1, <3>2, Zenon
  <2> HIDE DEF F
  <2>2. Len(s) \in Nat /\ DOMAIN s = 1 .. Len(s)
    BY <1>1
  <2>3. [o \in 1 .. Len(s) |-> F(o)] \in Seq(Byte)
    BY <2>1, <2>2, SequenceOf
  <2> QED
    BY <2>2, <2>3, Zenon
<1> HIDE DEF x
<1> QED
  BY <1>1, <1>2, <1>3, <1>4, <1>5, Zenon DEF m

Kinds == {"string", "string64", "bytes", "longs", "structs", "strings", "tables", "sorted", "table"}

Known(V) == [kind : Kinds, off : Int, v : V, align : Int, shared : BOOLEAN]

(* The objects the program knows, *)
MadeOK == \E V : made \in Seq(Known(V))

(* and the table it has open. *)
OpenOK == \E V : open \in [set : V, start : Int]

InMemory == InOrder(fb) /\ MadeOK /\ OpenOK

LEMMA KnownOffsets ==
  ASSUME MadeOK, NEW i \in DOMAIN made
  PROVE  made[i].off \in Int /\ made[i].kind \in Kinds
<1>1. PICK V : made \in Seq(Known(V))
  BY DEF MadeOK
<1>2. i \in 1 .. Len(made)
  BY <1>1
<1>3. made[i] \in Known(V)
  BY <1>1, <1>2, ElementOf
<1> QED
  BY <1>3 DEF Known

LEMMA OneMore ==
  ASSUME NEW S, NEW T, S \subseteq T, NEW s \in Seq(S), NEW e \in T
  PROVE  Append(s, e) \in Seq(T)
OBVIOUS

LEMMA AppendKnown ==
  ASSUME MadeOK, NEW kind \in Kinds, NEW off \in Int, NEW v, NEW align \in Int,
         NEW shared \in BOOLEAN
  PROVE  \E V : Append(made, [kind |-> kind, off |-> off, v |-> v,
                              align |-> align, shared |-> shared]) \in Seq(Known(V))
<1> DEFINE e == [kind |-> kind, off |-> off, v |-> v, align |-> align, shared |-> shared]
<1>1. PICK V : made \in Seq(Known(V))
  BY DEF MadeOK
<1> DEFINE W == V \cup {v}
<1>2. Known(V) \subseteq Known(W)
  BY DEF Known
<1>3. e \in Known(W)
  <2>1. v \in W
    OBVIOUS
  <2> HIDE DEF W
  <2> QED
    BY <2>1 DEF Known
<1> HIDE DEF e, W
<1>4. Append(made, e) \in Seq(Known(W))
  BY <1>1, <1>2, <1>3, OneMore
<1> QED
  BY <1>4, Zenon DEF e

(* An object the builder wrote becomes known. *)
LEMMA MadeIs ==
  ASSUME InMemory, NEW b, InOrder(b), NEW kind \in Kinds, NEW v, NEW align \in Int,
         Made(b, kind, v, align)
  PROVE  InMemory'
<1> DEFINE off == GetSizeRelative32BitRegion(b)
<1>1. off \in Int /\ FALSE \in BOOLEAN
  BY SizeIs DEF InOrder
<1> HIDE DEF off
<1>2. \E V : Append(made, [kind |-> kind, off |-> off, v |-> v,
                           align |-> align, shared |-> FALSE]) \in Seq(Known(V))
  BY <1>1, AppendKnown DEF InMemory
<1>3. made' = Append(made, [kind |-> kind, off |-> off, v |-> v,
                            align |-> align, shared |-> FALSE])
      /\ fb' = b /\ open' = open
  BY Zenon DEF Made, off
<1>4. MadeOK'
  BY <1>2, <1>3, Zenon DEF MadeOK
<1>5. OpenOK'
  BY <1>3, Zenon DEF OpenOK, InMemory
<1>6. InOrder(fb)'
  BY <1>3, Zenon
<1> QED
  BY <1>4, <1>5, <1>6, Zenon DEF InMemory

(* The texts and numbers of a program. *)
LEMMA ProgramIs ==
  /\ SchemaOK /\ ProgramOK
  /\ Chars \subseteq Seq(Byte) /\ Identifier \in Seq(Byte) /\ Numbers \subseteq Int
  /\ \A s \in Seq(Byte) : Len(s) \in Nat
BY SchemaConstants, ProgramConstants DEF ProgramOK, Byte

LEMMA StringStep ==
  ASSUME InMemory, NEW chars \in Chars
  PROVE  Wrote(fb, StoreString(fb, chars)) /\ InOrder(StoreString(fb, chars))
<1>1. chars \in Seq(Byte) /\ fb \in Builder
  BY ProgramIs DEF InMemory, InOrder
<1> QED
  BY <1>1, StoreStringIs, WroteInOrder DEF InMemory

LEMMA CreateStringStep == ASSUME InMemory, CreateString PROVE InMemory'
<1>1. PICK chars \in Chars : Made(StoreString(fb, chars), "string", chars, 1)
  BY DEF CreateString
<1>2. InOrder(StoreString(fb, chars)) /\ "string" \in Kinds /\ 1 \in Int
  BY StringStep DEF Kinds
<1> QED
  BY <1>1, <1>2, MadeIs

LEMMA CreateSharedStringStep == ASSUME InMemory, CreateSharedString PROVE InMemory'
<1>1. PICK chars \in Chars :
        LET b == StoreString(fb, chars)
            off == GetSizeRelative32BitRegion(b)
            twins == {o \in fb.pool : StringAt(b, o) = StringAt(b, off)}
            c == IF twins = {} THEN [b EXCEPT !.pool = @ \cup {off}]
                 ELSE Pop(b, GetSize(b) - GetSize(fb))
        IN  /\ fb' = c
            /\ made' = Append(made,
                 [kind |-> "string", v |-> chars, align |-> 1, shared |-> TRUE,
                  off |-> IF twins = {} THEN off ELSE CHOOSE o \in twins : TRUE])
            /\ UNCHANGED <<open, sealed>>
  BY DEF CreateSharedString
<1> DEFINE b == StoreString(fb, chars)
           off == GetSizeRelative32BitRegion(b)
           twins == {o \in fb.pool : StringAt(b, o) = StringAt(b, off)}
           new == [b EXCEPT !.pool = @ \cup {off}]
           old == Pop(b, GetSize(b) - GetSize(fb))
           there == IF twins = {} THEN off ELSE CHOOSE o \in twins : TRUE
<1>2. /\ fb' = (IF twins = {} THEN new ELSE old) /\ open' = open
      /\ made' = Append(made, [kind |-> "string", off |-> there, v |-> chars,
                               align |-> 1, shared |-> TRUE])
  BY <1>1
<1>3. Wrote(fb, b) /\ InOrder(b)
  BY StringStep
<1> HIDE DEF b
<1>4. b \in Builder /\ fb \in Builder /\ fb.pool \subseteq Int /\ b.pool \subseteq Int
  BY <1>3 DEF Wrote, Builder
<1>5. off \in Int
  BY <1>4, SizeIs
<1> HIDE DEF off
<1>6. InOrder(new)
  <2> DEFINE p == b.pool \cup {off}
  <2>1. p \in SUBSET Int
    BY <1>4, <1>5
  <2>2. new = [b EXCEPT !.pool = p]
    BY Zenon
  <2> HIDE DEF p, new
  <2>3. [b EXCEPT !.pool = p] \in Builder
    BY <1>4, <2>1 DEF Builder
  <2>4. [b EXCEPT !.pool = p].scratch = b.scratch
        /\ [b EXCEPT !.pool = p].num_field_loc = b.num_field_loc
    BY <1>4, Zenon DEF Builder
  <2> QED
    BY <1>3, <2>2, <2>3, <2>4, Zenon DEF InOrder, ScratchOK
<1>7. InOrder(old)
  <2> DEFINE n == GetSize(b) - GetSize(fb)
  <2>1. n \in Nat /\ n <= Len(b.back)
    <3>1. Len(b.back) \in Nat /\ Len(fb.back) \in Nat /\ Len(b.back) >= Len(fb.back)
      BY <1>3, <1>4 DEF Wrote, Builder
    <3>2. GetSize(b) = Len(b.back) /\ GetSize(fb) = Len(fb.back)
      BY Zenon DEF GetSize
    <3> DEFINE x == GetSize(b)
               y == GetSize(fb)
               z == Len(b.back)
    <3>3. x \in Nat /\ y \in Nat /\ z = x /\ y <= x
      BY <3>1, <3>2
    <3> HIDE DEF x, y, z
    <3> QED
      BY <3>3 DEF x, y, z
  <2> HIDE DEF n
  <2>2. Pop(b, n) \in Builder /\ Pop(b, n).scratch = b.scratch
        /\ Pop(b, n).num_field_loc = b.num_field_loc
    BY <1>4, <2>1, PopIs
  <2> QED
    BY <1>3, <2>2, Zenon DEF InOrder, ScratchOK, n
<1> HIDE DEF new, old
<1>8. there \in Int
  <2>1. twins \subseteq Int
    BY <1>4
  <2> HIDE DEF twins
  <2>2. CASE twins = {}
    BY <1>5, <2>2
  <2>3. CASE twins # {}
    <3>1. (CHOOSE o \in twins : TRUE) \in twins
      BY <2>3
    <3> QED
      BY <2>1, <2>3, <3>1
  <2> QED
    BY <2>2, <2>3
<1> HIDE DEF there, twins
<1>9. "string" \in Kinds /\ 1 \in Int /\ TRUE \in BOOLEAN /\ MadeOK
  BY DEF Kinds, InMemory
<1>10. \E V : Append(made, [kind |-> "string", off |-> there, v |-> chars,
                            align |-> 1, shared |-> TRUE]) \in Seq(Known(V))
  BY <1>8, <1>9, AppendKnown
<1>11. MadeOK'
  BY <1>2, <1>10, Zenon DEF MadeOK
<1>12. OpenOK'
  BY <1>2, Zenon DEF OpenOK, InMemory
<1>13. InOrder(fb)'
  BY <1>2, <1>6, <1>7, Zenon
<1> QED
  BY <1>11, <1>12, <1>13, Zenon DEF InMemory

LEMMA CreateString64Step == ASSUME InMemory, CreateString64 PROVE InMemory'
<1>1. PICK chars \in Chars :
        LET b == Grow64(StoreString(fb, chars))
        IN  /\ fb' = b
            /\ made' = Append(made, [kind |-> "string64", off |-> b.len64, v |-> chars,
                                     align |-> 1, shared |-> FALSE])
            /\ UNCHANGED <<open, sealed>>
  BY DEF CreateString64
<1> DEFINE s == StoreString(fb, chars)
           n == GetSize(s)
           b == Grow64(s)
<1>2. InOrder(s)
  BY StringStep
<1>3. /\ fb' = b /\ open' = open
      /\ made' = Append(made, [kind |-> "string64", off |-> b.len64, v |-> chars,
                               align |-> 1, shared |-> FALSE])
  BY <1>1
<1> HIDE DEF s
<1>4. n \in Int
  BY <1>2, SizeIs DEF InOrder
<1>5. b = [s EXCEPT !.len64 = n]
  BY DEF Grow64
<1> HIDE DEF n, b
<1>6. [s EXCEPT !.len64 = n] \in Builder
  BY <1>2, <1>4 DEF InOrder, Builder
<1>7. [s EXCEPT !.len64 = n].scratch = s.scratch
      /\ [s EXCEPT !.len64 = n].num_field_loc = s.num_field_loc
      /\ [s EXCEPT !.len64 = n].len64 = n
  BY <1>2, Zenon DEF InOrder, Builder
<1>8. InOrder(b) /\ b.len64 \in Int
  BY <1>2, <1>4, <1>5, <1>6, <1>7, Zenon DEF InOrder, ScratchOK
<1> DEFINE o == b.len64
<1> HIDE DEF o
<1>9. "string64" \in Kinds /\ 1 \in Int /\ FALSE \in BOOLEAN /\ MadeOK /\ o \in Int
  BY <1>8 DEF Kinds, InMemory, o
<1>10. \E V : Append(made, [kind |-> "string64", off |-> o, v |-> chars,
                            align |-> 1, shared |-> FALSE]) \in Seq(Known(V))
  BY <1>9, AppendKnown
<1>11. MadeOK'
  BY <1>3, <1>10, Zenon DEF MadeOK, o
<1>12. OpenOK'
  BY <1>3, Zenon DEF OpenOK, InMemory
<1>13. InOrder(fb)'
  BY <1>3, <1>8, Zenon
<1> QED
  BY <1>11, <1>12, <1>13, Zenon DEF InMemory

LEMMA InOrderNow == ASSUME InMemory PROVE fb \in Builder /\ InOrder(fb) /\ MadeOK /\ OpenOK
BY DEF InMemory, InOrder

(* A vector of that many elements of size bytes. *)
LEMMA VectorStep ==
  ASSUME NEW b, InOrder(b), NEW len \in Nat, NEW size \in Nat \ {0}, NEW bytes \in Seq(Byte)
  PROVE  InOrder(StoreVector(b, len, size, bytes))
<1>1. b \in Builder
  BY DEF InOrder
<1> QED
  BY <1>1, StoreVectorIs, WroteInOrder

LEMMA CreateBytesStep == ASSUME InMemory, CreateBytes PROVE InMemory'
<1>1. PICK bytes \in Chars, align \in {1, 8} :
        LET b == IF align = 1 THEN fb ELSE PreAlign(fb, Len(bytes), align)
        IN  Made(StoreVector(b, Len(bytes), 1, bytes), "bytes", bytes, align)
  BY DEF CreateBytes
<1> DEFINE b == IF align = 1 THEN fb ELSE PreAlign(fb, Len(bytes), align)
           n == Len(bytes)
<1>2. bytes \in Seq(Byte) /\ n \in Nat /\ align \in Nat \ {0} /\ 1 \in Nat \ {0}
  BY ProgramIs
<1>3. InOrder(b)
  <2> HIDE DEF n
  <2>1. Wrote(fb, PreAlign(fb, n, align))
    BY <1>2, InOrderNow, PreAlignIs
  <2> QED
    BY <2>1, InOrderNow, WroteInOrder DEF n
<1>4. Made(StoreVector(b, n, 1, bytes), "bytes", bytes, align)
  BY <1>1
<1> HIDE DEF b, n
<1>5. InOrder(StoreVector(b, n, 1, bytes)) /\ "bytes" \in Kinds /\ align \in Int
  BY <1>2, <1>3, VectorStep DEF Kinds
<1> QED
  BY <1>4, <1>5, MadeIs

LEMMA CreateUninitializedVectorStep ==
  ASSUME InMemory, CreateUninitializedVector
  PROVE  InMemory'
<1>1. PICK bytes \in Chars :
        Made(StoreUninitialized(fb, Len(bytes), bytes), "bytes", bytes, 1)
  BY DEF CreateUninitializedVector
<1>2. bytes \in Seq(Byte) /\ Len(bytes) \in Nat /\ fb \in Builder
  BY ProgramIs, InOrderNow
<1>3. Wrote(fb, StoreUninitialized(fb, Len(bytes), bytes))
  BY <1>2, StoreUninitializedIs
<1>4. InOrder(StoreUninitialized(fb, Len(bytes), bytes)) /\ "bytes" \in Kinds /\ 1 \in Int
  BY <1>3, InOrderNow, WroteInOrder DEF Kinds
<1> QED
  BY <1>1, <1>4, MadeIs

LEMMA CreateLongsStep == ASSUME InMemory, CreateLongs PROVE InMemory'
<1>1. PICK ns \in Lists(Numbers) :
        Made(StoreVector(fb, Len(ns), 8, Joined([i \in DOMAIN ns |-> Bytes(ns[i], 8)], 8)),
             "longs", ns, 8)
  BY DEF CreateLongs
<1> DEFINE F(i) == Bytes(ns[i], 8)
           words == [i \in DOMAIN ns |-> F(i)]
           bytes == Joined(words, 8)
           n == Len(ns)
<1>2. ns \in Seq(Numbers) /\ DOMAIN ns = 1 .. Len(ns)
  BY ListsAre, ProgramIs
<1>3. n \in Nat /\ \A i \in 1 .. n : ns[i] \in Int
  <2>1. n \in Nat
    BY <1>2
  <2>2. \A i \in 1 .. n : ns[i] \in Numbers
    BY <1>2, ElementOf
  <2>3. Numbers \subseteq Int
    BY ProgramIs, Zenon
  <2> QED
    BY <2>1, <2>2, <2>3
<1>4. \A i \in 1 .. n : F(i) \in Seq(Byte) /\ Len(F(i)) = 8
  BY <1>3, BytesAre
<1>5. Made(StoreVector(fb, n, 8, bytes), "longs", ns, 8)
  BY <1>1
<1>6. DOMAIN ns = 1 .. n
  BY <1>2
<1> HIDE DEF F, n
<1>7. words \in Seq(Seq(Byte)) /\ Len(words) = n
  BY <1>3, <1>4, <1>6, SequenceOf
<1>8. \A i \in 1 .. Len(words) : Len(words[i]) = 8
  BY <1>4, <1>6, <1>7
<1> HIDE DEF words
<1>9. bytes \in Seq(Byte)
  <2>1. 8 \in Nat
    OBVIOUS
  <2> QED
    BY <1>7, <1>8, <2>1, JoinedIs
<1> HIDE DEF bytes
<1>10. 8 \in Nat \ {0} /\ 8 \in Int /\ "longs" \in Kinds
  BY DEF Kinds
<1>11. InOrder(StoreVector(fb, n, 8, bytes))
  BY <1>3, <1>9, <1>10, InOrderNow, VectorStep
<1> QED
  BY <1>5, <1>10, <1>11, MadeIs

LEMMA CreateVectorOfStructsStep == ASSUME InMemory, CreateVectorOfStructs PROVE InMemory'
<1>1. PICK ns \in Lists(Numbers) :
        LET structs == [i \in DOMAIN ns |-> StructOf(ns[i])]
        IN  Made(StoreStructs(fb, Len(ns), Joined(structs, StructSize)), "structs", structs,
                 StructAlign)
  BY DEF CreateVectorOfStructs
<1> DEFINE F(i) == StructOf(ns[i])
           structs == [i \in DOMAIN ns |-> F(i)]
           bytes == Joined(structs, StructSize)
           n == Len(ns)
<1>2. ns \in Seq(Numbers) /\ DOMAIN ns = 1 .. Len(ns)
  BY ListsAre, ProgramIs
<1>3. n \in Nat /\ \A i \in 1 .. n : ns[i] \in Int
  <2>1. n \in Nat
    BY <1>2
  <2>2. \A i \in 1 .. n : ns[i] \in Numbers
    BY <1>2, ElementOf
  <2>3. Numbers \subseteq Int
    BY ProgramIs, Zenon
  <2> QED
    BY <2>1, <2>2, <2>3
<1>4. \A i \in 1 .. n : F(i) \in Seq(Byte) /\ Len(F(i)) = StructSize
  BY <1>3, StructOfIs, ProgramIs
<1>5. Made(StoreStructs(fb, n, bytes), "structs", structs, StructAlign)
  BY <1>1
<1>6. DOMAIN ns = 1 .. n
  BY <1>2
<1> HIDE DEF F, n
<1>7. structs \in Seq(Seq(Byte)) /\ Len(structs) = n
  BY <1>3, <1>4, <1>6, SequenceOf
<1>8. \A i \in 1 .. Len(structs) : Len(structs[i]) = StructSize
  BY <1>4, <1>6, <1>7
<1> HIDE DEF structs
<1>9. StructSize \in Nat /\ StructAlign \in Int
  BY ProgramIs DEF SchemaOK
<1>10. bytes \in Seq(Byte)
  BY <1>7, <1>8, <1>9, JoinedIs
<1> HIDE DEF bytes
<1>11. Wrote(fb, StoreStructs(fb, n, bytes))
  BY <1>3, <1>10, InOrderNow, ProgramIs, StoreStructsIs
<1>12. InOrder(StoreStructs(fb, n, bytes)) /\ "structs" \in Kinds
  BY <1>11, InOrderNow, WroteInOrder DEF Kinds
<1> QED
  BY <1>5, <1>9, <1>12, MadeIs

LEMMA CreateVectorOfStringsStep == ASSUME InMemory, CreateVectorOfStrings PROVE InMemory'
<1>1. PICK strings \in Lists(Chars) :
        Building /\ Made(StoreStrings(fb, strings), "strings", strings, 4)
  BY DEF CreateVectorOfStrings
<1>2. strings \in Seq(Seq(Byte))
  <2>1. strings \in Seq(Chars)
    BY ListsAre, ProgramIs
  <2>2. \A i \in 1 .. Len(strings) : strings[i] \in Seq(Byte)
    BY <2>1, ElementOf, ProgramIs
  <2> QED
    BY <2>1, <2>2
<1>3. fb.num_field_loc = 0
  BY <1>1 DEF Building, NotNested
<1>4. Waiting(fb, 0)
  <2>1. fb.scratch \in Seq(Int) /\ fb \in Builder
    BY <1>3, InOrderNow, OffsetsOnly
  <2>2. Len(fb.scratch) >= 0
    BY <2>1
  <2> QED
    BY <2>1, <2>2, Zenon DEF Waiting
<1>5. InOrder(StoreStrings(fb, strings))
  <2>1. Waiting(StoreStrings(fb, strings), 0)
        /\ StoreStrings(fb, strings).num_field_loc = fb.num_field_loc
    BY <1>2, <1>4, StoreStringsIs
  <2>2. StoreStrings(fb, strings).num_field_loc = 0
    BY <1>3, <2>1, Zenon
  <2> QED
    BY <2>1, <2>2, WaitingInOrder
<1>6. "strings" \in Kinds /\ 4 \in Int
  BY DEF Kinds
<1> QED
  BY <1>1, <1>5, <1>6, MadeIs

LEMMA TableOffsets ==
  ASSUME InMemory, NEW ts \in Lists(Tables)
  PROVE  [i \in DOMAIN ts |-> made[ts[i]].off] \in Seq(Int)
<1> DEFINE F(i) == made[ts[i]].off
<1>1. ts \in Seq(Tables) /\ DOMAIN ts = 1 .. Len(ts) /\ Len(ts) \in Nat
  BY ListsAre, ProgramIs
<1>2. \A i \in 1 .. Len(ts) : F(i) \in Int
  <2> SUFFICES ASSUME NEW i \in 1 .. Len(ts) PROVE F(i) \in Int
    OBVIOUS
  <2>1. ts[i] \in DOMAIN made
    <3>1. ts[i] \in Tables
      BY <1>1, ElementOf
    <3> QED
      BY <3>1, Zenon DEF Tables
  <2> QED
    BY <2>1, InOrderNow, KnownOffsets
<1> HIDE DEF F
<1>3. [i \in 1 .. Len(ts) |-> F(i)] \in Seq(Int)
  BY <1>1, <1>2, SequenceOf
<1> QED
  BY <1>1, <1>3, Zenon DEF F

LEMMA CreateVectorOfTablesStep == ASSUME InMemory, CreateVectorOfTables PROVE InMemory'
<1>1. PICK ts \in Lists(Tables) :
        Made(StoreOffsets(fb, [i \in DOMAIN ts |-> made[ts[i]].off]), "tables", ts, 4)
  BY DEF CreateVectorOfTables
<1> DEFINE offs == [i \in DOMAIN ts |-> made[ts[i]].off]
<1>2. offs \in Seq(Int)
  BY TableOffsets
<1>3. Made(StoreOffsets(fb, offs), "tables", ts, 4)
  BY <1>1
<1> HIDE DEF offs
<1>4. InOrder(StoreOffsets(fb, offs)) /\ "tables" \in Kinds /\ 4 \in Int
  BY <1>2, InOrderNow, StoreOffsetsIs, WroteInOrder DEF Kinds
<1> QED
  BY <1>3, <1>4, MadeIs

LEMMA CreateVectorOfSortedTablesStep ==
  ASSUME InMemory, CreateVectorOfSortedTables
  PROVE  InMemory'
<1>1. PICK ts \in Lists(Tables) :
        Made(StoreOffsets(fb, Sorted(fb, [i \in DOMAIN ts |-> made[ts[i]].off])),
             "sorted", ts, 4)
  BY DEF CreateVectorOfSortedTables
<1> DEFINE offs == [i \in DOMAIN ts |-> made[ts[i]].off]
           s == Sorted(fb, offs)
<1>2. offs \in Seq(Int)
  BY TableOffsets
<1>3. Made(StoreOffsets(fb, s), "sorted", ts, 4)
  BY <1>1
<1> HIDE DEF offs
<1>4. s \in Seq(Int)
  BY <1>2, SortedIs
<1> HIDE DEF s
<1>5. InOrder(StoreOffsets(fb, s)) /\ "sorted" \in Kinds /\ 4 \in Int
  BY <1>4, InOrderNow, StoreOffsetsIs, WroteInOrder DEF Kinds
<1> QED
  BY <1>3, <1>5, MadeIs

LEMMA StartTableStep == ASSUME InMemory, StartTable PROVE InMemory'
<1>1. fb' = [fb EXCEPT !.nested = TRUE] /\ made' = made
      /\ open' = [set |-> <<>>, start |-> GetSizeRelative32BitRegion(fb)]
  BY Zenon DEF StartTable
<1>2. Wrote(fb, [fb EXCEPT !.nested = TRUE])
  <2>1. TRUE \in BOOLEAN /\ fb \in Builder
    BY InOrderNow
  <2> QED
    BY <2>1, NestedIs
<1>3. InOrder([fb EXCEPT !.nested = TRUE])
  BY <1>2, InOrderNow, WroteInOrder
<1>4. OpenOK'
  <2> DEFINE start == GetSizeRelative32BitRegion(fb)
  <2>1. start \in Int
    BY InOrderNow, SizeIs
  <2> HIDE DEF start
  <2>2. [set |-> <<>>, start |-> start] \in [set : {<<>>}, start : Int]
    BY <2>1
  <2>3. \E V : [set |-> <<>>, start |-> start] \in [set : V, start : Int]
    BY <2>2, Zenon
  <2> QED
    BY <1>1, <2>3, Zenon DEF OpenOK, start
<1>5. MadeOK'
  BY <1>1, InOrderNow, Zenon DEF MadeOK
<1>6. InOrder(fb)'
  BY <1>1, <1>3, Zenon
<1> QED
  BY <1>4, <1>5, <1>6, Zenon DEF InMemory

LEMMA AddIs ==
  ASSUME InMemory, NEW b, InOrder(b), NEW field, NEW n, Add(b, field, n)
  PROVE  InMemory'
<1> DEFINE set == [f \in DOMAIN open.set \cup {field} |-> IF f = field THEN n ELSE open.set[f]]
<1>1. fb' = b /\ made' = made /\ open' = [open EXCEPT !.set = set]
  BY Zenon DEF Add
<1> HIDE DEF set
<1>2. PICK V : open \in [set : V, start : Int]
  BY InOrderNow, Zenon DEF OpenOK
<1>3. [open EXCEPT !.set = set] \in [set : {set}, start : Int]
  BY <1>2
<1>4. OpenOK'
  BY <1>1, <1>3, Zenon DEF OpenOK
<1>5. MadeOK'
  BY <1>1, InOrderNow, Zenon DEF MadeOK
<1>6. InOrder(fb)'
  BY <1>1, Zenon
<1> QED
  BY <1>4, <1>5, <1>6, Zenon DEF InMemory

LEMMA FieldIs == ASSUME NEW field \in DOMAIN Schema PROVE field \in Int
<1>1. MaxVOffset \in Int
  BY DEF MaxVOffset
<1>2. DOMAIN Schema \subseteq 4 .. MaxVOffset
  BY ProgramIs, Zenon DEF SchemaOK
<1> QED
  BY <1>1, <1>2

LEMMA AddScalarStep == ASSUME InMemory, AddScalar PROVE InMemory'
<1>1. PICK field \in DOMAIN Schema, n \in Numbers :
        IsScalar(Schema[field]) /\ Add(AddElement(fb, field, n), field, n)
  BY Zenon DEF AddScalar
<1>2. field \in Int /\ n \in Int
  BY FieldIs, ProgramIs
<1>3. InOrder(AddElement(fb, field, n))
  BY <1>1, <1>2, InOrderNow, AddElementIs
<1> QED
  BY <1>1, <1>3, AddIs

LEMMA AddReferenceStep == ASSUME InMemory, AddReference PROVE InMemory'
<1>1. PICK field \in DOMAIN Schema, i \in DOMAIN made :
        /\ \/ Schema[field] = made[i].kind
           \/ Schema[field] = "tables" /\ made[i].kind = "sorted"
        /\ Add(AddOffset(fb, field, made[i].off), field, i)
  BY Zenon DEF AddReference
<1> DEFINE off == made[i].off
<1>2. off \in Int /\ made[i].kind \in Kinds
  BY InOrderNow, KnownOffsets
<1>3. Schema[field] # "struct"
  BY <1>1, <1>2 DEF Kinds
<1>4. Add(AddOffset(fb, field, off), field, i)
  BY <1>1, Zenon
<1> HIDE DEF off
<1>5. field \in Int
  BY FieldIs
<1>6. InOrder(AddOffset(fb, field, off))
  BY <1>2, <1>3, <1>5, InOrderNow, AddOffsetIs
<1> QED
  BY <1>4, <1>6, AddIs

LEMMA AddInlineStep == ASSUME InMemory, AddInline PROVE InMemory'
<1>1. PICK field \in DOMAIN Schema, n \in Numbers :
        Add(AddStruct(fb, field, StructOf(n)), field, StructOf(n))
  BY Zenon DEF AddInline
<1>2. field \in Int /\ n \in Int
  BY FieldIs, ProgramIs
<1>3. StructOf(n) \in Seq(Byte)
  BY <1>2, ProgramIs, StructOfIs
<1>4. InOrder(AddStruct(fb, field, StructOf(n)))
  BY <1>2, <1>3, InOrderNow, ProgramIs, AddStructIs
<1> QED
  BY <1>1, <1>4, AddIs

LEMMA EndOfTableStep == ASSUME InMemory, EndOfTable PROVE InMemory'
<1> DEFINE off == TableAt(fb)
           v == open.set
<1>1. /\ fb' = FinishTable(fb, open.start) /\ open' = Closed
      /\ made' = Append(made, [kind |-> "table", off |-> off, v |-> v,
                               align |-> 4, shared |-> FALSE])
  BY Zenon DEF EndOfTable
<1>2. off \in Int
  BY InOrderNow, TableAtIs
<1>3. open.start \in Int
  BY InOrderNow DEF OpenOK
<1> HIDE DEF off, v
<1>4. InOrder(FinishTable(fb, open.start))
  BY <1>3, InOrderNow, FinishTableIs
<1>5. "table" \in Kinds /\ 4 \in Int /\ FALSE \in BOOLEAN
  BY DEF Kinds
<1>6. \E V : Append(made, [kind |-> "table", off |-> off, v |-> v,
                           align |-> 4, shared |-> FALSE]) \in Seq(Known(V))
  BY <1>2, <1>5, InOrderNow, AppendKnown
<1>7. MadeOK'
  BY <1>1, <1>6, Zenon DEF MadeOK
<1>8. Closed \in [set : {<<>>}, start : Int]
  BY DEF Closed
<1>9. OpenOK'
  BY <1>1, <1>8, Zenon DEF OpenOK
<1>10. InOrder(fb)'
  BY <1>1, <1>4, Zenon
<1> QED
  BY <1>7, <1>9, <1>10, Zenon DEF InMemory

LEMMA FinishBufferStep == ASSUME InMemory, FinishBuffer PROVE InMemory'
<1>1. PICK root \in Tables, prefixed \in BOOLEAN, identifier \in {<<>>, Identifier} :
        /\ Building
        /\ fb' = Finish(fb, made[root].off, prefixed, identifier)
        /\ UNCHANGED <<made, open>>
  BY Zenon DEF FinishBuffer
<1>2. fb.num_field_loc = 0
  BY <1>1 DEF Building, NotNested
<1>3. identifier \in Seq(Byte)
  <2>1. <<>> \in Seq(Byte)
    OBVIOUS
  <2> QED
    BY <2>1, ProgramIs, Zenon
<1>4. made[root].off \in Int
  <2>1. root \in DOMAIN made
    BY Zenon DEF Tables
  <2> QED
    BY <2>1, InOrderNow, KnownOffsets
<1>5. InOrder(Finish(fb, made[root].off, prefixed, identifier))
  BY <1>2, <1>3, <1>4, InOrderNow, FinishIs
<1>6. MadeOK' /\ OpenOK'
  BY <1>1, InOrderNow, Zenon DEF MadeOK, OpenOK
<1>7. InOrder(fb)'
  BY <1>1, <1>5, Zenon
<1> QED
  BY <1>6, <1>7, Zenon DEF InMemory

LEMMA ChangeKnown ==
  ASSUME MadeOK, NEW i \in DOMAIN made, NEW field, NEW n
  PROVE  \E V : [made EXCEPT ![i].v[field] = n] \in Seq(Known(V))
<1>1. PICK V : made \in Seq(Known(V))
  BY DEF MadeOK
<1> DEFINE w == [made[i].v EXCEPT ![field] = n]
           W == V \cup {w}
           x == [made[i] EXCEPT !.v = w]
<1>2. [made EXCEPT ![i].v[field] = n] = [made EXCEPT ![i] = x]
  BY Zenon
<1>3. made[i] \in Known(V)
  BY <1>1, ElementOf
<1>4. w \in W /\ V \subseteq W
  OBVIOUS
<1> HIDE DEF w, W
<1>5. x \in Known(W)
  BY <1>3, <1>4 DEF Known
<1>6. made \in Seq(Known(W))
  <2>1. Known(V) \subseteq Known(W)
    BY <1>4 DEF Known
  <2>2. \A k \in 1 .. Len(made) : made[k] \in Known(W)
    BY <1>1, <2>1, ElementOf
  <2> QED
    BY <1>1, <2>2
<1> HIDE DEF x
<1>7. [made EXCEPT ![i] = x] \in Seq(Known(W))
  BY <1>5, <1>6
<1> QED
  BY <1>2, <1>7, Zenon

LEMMA MutateStep == ASSUME InMemory, Mutate PROVE InMemory'
<1>1. PICK i \in Tables, field \in DOMAIN Schema, n \in Numbers :
        /\ IsScalar(Schema[field])
        /\ LET m == SetField(Mem(fb), GetSize(fb) - fb.len64 - made[i].off, field,
                             Bytes(n, Width(Schema[field])))
           IN  /\ fb' = [fb EXCEPT !.back = m.back]
               /\ made' = [made EXCEPT ![i].v[field] = n]
        /\ UNCHANGED <<open, sealed>>
  BY Zenon DEF Mutate
<1> DEFINE t == GetSize(fb) - fb.len64 - made[i].off
           size == Width(Schema[field])
           s == Bytes(n, size)
           x == SetField(Mem(fb), t, field, s).back
<1>2. fb' = [fb EXCEPT !.back = x] /\ made' = [made EXCEPT ![i].v[field] = n] /\ open' = open
  BY <1>1
<1>3. size \in Nat /\ n \in Int
  BY <1>1, ProgramIs DEF IsScalar, Width
<1> HIDE DEF t, size
<1>4. s \in Seq(Byte)
  BY <1>3, BytesAre
<1> HIDE DEF s
<1>5. x \in Seq(Byte)
  BY <1>4, InOrderNow, PatchedIs
<1> HIDE DEF x
<1>6. InOrder([fb EXCEPT !.back = x])
  <2>1. [fb EXCEPT !.back = x] \in Builder
    BY <1>5, InOrderNow DEF Builder
  <2>2. [fb EXCEPT !.back = x].scratch = fb.scratch
        /\ [fb EXCEPT !.back = x].num_field_loc = fb.num_field_loc
    BY InOrderNow, Zenon DEF Builder
  <2> QED
    BY <2>1, <2>2, InOrderNow, Zenon DEF InOrder, ScratchOK
<1>7. i \in DOMAIN made
  BY Zenon DEF Tables
<1>8. \E V : [made EXCEPT ![i].v[field] = n] \in Seq(Known(V))
  BY <1>7, InOrderNow, ChangeKnown
<1>9. MadeOK'
  BY <1>2, <1>8, Zenon DEF MadeOK
<1>10. OpenOK'
  BY <1>2, InOrderNow, Zenon DEF OpenOK
<1>11. InOrder(fb)'
  BY <1>2, <1>6, Zenon
<1> QED
  BY <1>9, <1>10, <1>11, Zenon DEF InMemory

(* A new builder, *)
LEMMA EmptyIs == Empty \in Builder /\ Cleared(Empty)
<1>1. /\ <<>> \in Seq(Byte) /\ <<>> \in Seq(Int) /\ <<>> \in Seq(Int \cup Entry)
      /\ 0 \in Nat /\ 0 \in Int /\ 1 \in Nat \ {0} /\ FALSE \in BOOLEAN /\ {} \in SUBSET Int
  OBVIOUS
<1>2. Empty \in Builder
  BY <1>1 DEF Empty, Builder
<1> QED
  BY <1>1, <1>2 DEF Empty, Cleared

LEMMA StartsInMemory ==
  /\ Init => InMemory
  /\ Clear => InMemory'
<1>1. InOrder(Empty)
  BY EmptyIs, ClearedInOrder
<1>2. <<>> \in Seq(Known({}))
  OBVIOUS
<1>3. Closed \in [set : {<<>>}, start : Int]
  BY DEF Closed
<1>4. Init => InMemory
  BY <1>1, <1>2, <1>3, Zenon DEF Init, InMemory, MadeOK, OpenOK
<1>5. Clear => InOrder(fb)' /\ MadeOK' /\ OpenOK'
  BY <1>1, <1>2, <1>3, Zenon DEF Clear, MadeOK, OpenOK
<1> QED
  BY <1>4, <1>5, Zenon DEF InMemory

(* and every step of the program keeps it in order. *)
THEOREM InMemoryTheorem == Spec => []InMemory
<1>1. Init => InMemory
  BY StartsInMemory
<1>2. InMemory /\ [Next]_vars => InMemory'
  <2> SUFFICES ASSUME InMemory, [Next]_vars PROVE InMemory'
    OBVIOUS
  <2>1. CASE CreateString BY <2>1, CreateStringStep
  <2>2. CASE CreateSharedString BY <2>2, CreateSharedStringStep
  <2>3. CASE CreateString64 BY <2>3, CreateString64Step
  <2>4. CASE CreateBytes BY <2>4, CreateBytesStep
  <2>5. CASE CreateUninitializedVector BY <2>5, CreateUninitializedVectorStep
  <2>6. CASE CreateLongs BY <2>6, CreateLongsStep
  <2>7. CASE CreateVectorOfStructs BY <2>7, CreateVectorOfStructsStep
  <2>8. CASE CreateVectorOfStrings BY <2>8, CreateVectorOfStringsStep
  <2>9. CASE CreateVectorOfTables BY <2>9, CreateVectorOfTablesStep
  <2>10. CASE CreateVectorOfSortedTables BY <2>10, CreateVectorOfSortedTablesStep
  <2>11. CASE StartTable BY <2>11, StartTableStep
  <2>12. CASE AddScalar BY <2>12, AddScalarStep
  <2>13. CASE AddReference BY <2>13, AddReferenceStep
  <2>14. CASE AddInline BY <2>14, AddInlineStep
  <2>15. CASE EndOfTable BY <2>15, EndOfTableStep
  <2>16. CASE FinishBuffer BY <2>16, FinishBufferStep
  <2>17. CASE Mutate BY <2>17, MutateStep
  <2>18. CASE Clear BY <2>18, StartsInMemory
  <2>19. CASE UNCHANGED vars
    <3>1. fb' = fb /\ made' = made /\ open' = open
      BY <2>19 DEF vars
    <3>2. InOrder(fb)' /\ MadeOK' /\ OpenOK'
      BY <3>1, InOrderNow, Zenon DEF MadeOK, OpenOK
    <3> QED
      BY <3>2, Zenon DEF InMemory
  <2> QED
    BY <2>1, <2>2, <2>3, <2>4, <2>5, <2>6, <2>7, <2>8, <2>9, <2>10, <2>11, <2>12, <2>13,
       <2>14, <2>15, <2>16, <2>17, <2>18, <2>19 DEF Next
<1> QED
  BY <1>1, <1>2, PTL DEF Spec

THEOREM OnlyBytesTheorem == Spec => []OnlyBytes
<1>1. InMemory => OnlyBytes
  <2> SUFFICES ASSUME InMemory PROVE OnlyBytes
    OBVIOUS
  <2>1. fb.back \in Seq(Byte)
    BY InOrderNow DEF Builder
  <2> QED
    BY <2>1 DEF OnlyBytes, Byte
<1> QED
  BY <1>1, InMemoryTheorem, PTL

-------------------------------------------------------------------------------
(* Damaged buffers *)

LEMMA ByteOf == \A s \in Seq(0 .. 255) : \A i \in 1 .. Len(s) : s[i] \in 0 .. 255
BY ElementOf

(* A buffer that lost its end, *)
LEMMA CutMemory ==
  ASSUME OnlyBytes, NEW n \in 0 .. GetSize(fb)
  PROVE  IsMemory([Mem(fb) EXCEPT !.n = n])
<1> DEFINE s == fb.back
           m == [Mem(fb) EXCEPT !.n = n]
<1>1. s \in Seq(0 .. 255) /\ n \in 0 .. Len(s)
  BY DEF OnlyBytes, GetSize
<1>2. m.n = n /\ m.tail = Len(s) /\ m.back = s
  BY DEF Mem, GetSize
<1> HIDE DEF s, m
<1>3. ASSUME NEW p \in 0 .. m.n - 1 PROVE At(m, p) \in 0 .. 255
  <2>1. Len(s) - p \in 1 .. Len(s)
    BY <1>1, <1>2
  <2>2. s[Len(s) - p] \in 0 .. 255
    BY <1>1, <2>1, ByteOf, Zenon
  <2> QED
    BY <1>2, <2>2, Zenon DEF At
<1>4. m.n \in Nat
  BY <1>1, <1>2
<1> QED
  BY <1>3, <1>4 DEF IsMemory, m

(* and one with a byte changed, are still bytes. *)
LEMMA DamagedMemory ==
  ASSUME OnlyBytes, NEW o \in DOMAIN fb.back, NEW d \in 0 .. 255
  PROVE  IsMemory([Mem(fb) EXCEPT !.back[o] = d])
<1> DEFINE s == fb.back
           z == [s EXCEPT ![o] = d]
           m == [Mem(fb) EXCEPT !.back[o] = d]
<1>1. s \in Seq(0 .. 255) /\ o \in DOMAIN s
  BY DEF OnlyBytes
<1>2. m.n = Len(s) /\ m.tail = Len(s) /\ m.back = z
  BY DEF Mem, GetSize
<1>3. z \in Seq(0 .. 255) /\ Len(z) = Len(s)
  BY <1>1
<1> HIDE DEF s, m, z
<1>4. Len(s) \in Nat
  BY <1>1
<1>5. ASSUME NEW p \in 0 .. m.n - 1 PROVE At(m, p) \in 0 .. 255
  <2>1. Len(s) - p \in 1 .. Len(z)
    BY <1>2, <1>3, <1>4
  <2>2. z[Len(s) - p] \in 0 .. 255
    BY <1>3, <2>1, ByteOf, ZenonT(60)
  <2> QED
    BY <1>2, <2>2, Zenon DEF At
<1> QED
  BY <1>2, <1>4, <1>5 DEF IsMemory, m

(* A finished buffer, whatever got lost or was changed in it: what the verifier
   accepts can be read to its last leaf inside the buffer. *)
THEOREM AcceptedTheorem == Spec => []AcceptedIsSafe
<1>1. ASSUME sealed.start \in Nat, OnlyBytes PROVE AcceptedIsSafe
  <2>1. ASSUME NEW m, IsMemory(m), Accepts(m) PROVE Safe(m, sealed.start)
    <3>1. VerifyBufferFromStart(m, sealed.identifier, sealed.start)
      BY <2>1 DEF Accepts, VerifyBuffer, VerifySizePrefixedBuffer
    <3> QED
      BY <1>1, <2>1, <3>1, VerifierIsSound
  <2>2. \A n \in 0 .. GetSize(fb) : IsMemory([Mem(fb) EXCEPT !.n = n])
    BY <1>1, CutMemory, SMTT(60)
  <2>3. \A o \in DOMAIN fb.back, d \in Damage : IsMemory([Mem(fb) EXCEPT !.back[o] = d])
    BY <1>1, DamagedMemory, ProgramConstants DEF ProgramOK
  <2> QED
    BY <2>1, <2>2, <2>3, Zenon DEF AcceptedIsSafe
<1> QED
  BY <1>1, StartIsKnown, OnlyBytesTheorem, PTL

====
